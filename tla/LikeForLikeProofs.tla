------------------------- MODULE LikeForLikeProofs -------------------------
(***************************************************************************)
(* The two engines of the benchmark do the same work: for every number of  *)
(* orders, every price range and every stream, each order makes the same   *)
(* trades in both and leaves the same book.                                *)
(*                                                                         *)
(* The original engine runs an order to its end before the new one starts, *)
(* so that the proof cannot compare them step by step.  It compares both   *)
(* with the same list of turns: the books that lie between the fills of    *)
(* the original engine, from the book that the new engine has reached to   *)
(* the one that the original has reached.  The original lengthens the list *)
(* at its end, the new engine shortens it at its beginning; that it takes  *)
(* the same turns follows from that a turn leaves no choice.               *)
(***************************************************************************)
EXTENDS LikeForLike, EventProofs

\* The number of the order that is being processed.
Number == sent - 1

\* How many orders the new engine is through with.
Settled == IF taker = None THEN sent ELSE Number

\* The new engine's orders are from accounts below that number, and the later
\* ones from the higher accounts: the accounts tell the orders apart.
Numbered ==
  /\ sent \in 0 .. Capacity - 1
  /\ \A o \in orders : o.account < Settled
  /\ \A o, p \in orders : o.seq < p.seq => o.account < p.account

\* An order takes a slot two generations further at most, so that none retires
\* in a run that is half as long as the limit.
NeverRetires ==
  /\ retired = 0
  /\ \A s \in Slots : generations[s] <= 2 * Settled

\* The new engine is given the order sent last and emits nothing before its
\* loop.
Phases ==
  /\ taker # None =>
       /\ sent > 0 /\ taker.account = Number
       /\ taker.kind.type = "Gtc" /\ taker.kind.price \in InputPrices
       /\ Events("Rested") = {}
  /\ pc \in {"ready", "submit"} => out = <<>>

Issued(id) == id \in Slots \X Nat /\ GenerationOf(id) <= generations[SlotOf(id)]

\* placed names the order that got an id, or the id is one that is still to be
\* read from the events, and new.
Known ==
  /\ \A id \in DOMAIN placed : Issued(id)
  /\ \A i \in Events("Rested") : Issued(out[i].id) /\ out[i].id \notin DOMAIN placed
  /\ \A o \in orders :
       \/ o.id \in DOMAIN placed /\ placed[o.id] = o.account
       \/ o.account = Number /\ \E i \in Events("Rested") : out[i].id = o.id

----------------------------------------------------------------------------
(***************************************************************************)
(* The new engine never lacks a slot and never meets its own account       *)
(***************************************************************************)
NewInv == Inv /\ IsSequence(out) /\ Numbered /\ NeverRetires /\ Phases /\ Known

LEMMA SentFacts ==
  ASSUME NewInv
  PROVE  /\ Capacity \in Nat \ {0} /\ sent \in Nat /\ sent <= Capacity - 1
         /\ \/ taker # None /\ sent >= 1 /\ Settled = sent - 1 /\ Settled \in Nat
            \/ taker = None /\ Settled = sent
         /\ \A o \in orders : o.account \in Nat /\ o.account < Settled /\ o.seq \in Nat
<1>1. Capacity \in Nat \ {0}
  BY ConfigValid
<1>2. sent \in Nat /\ sent <= Capacity - 1
  BY <1>1 DEF NewInv, Numbered
<1>3. \/ taker # None /\ sent >= 1 /\ Settled = sent - 1 /\ Settled \in Nat
      \/ taker = None /\ Settled = sent
  BY <1>2 DEF NewInv, Phases, Settled, Number
<1>4. \A o \in orders : o.account \in Nat /\ o.account < Settled /\ o.seq \in Nat
  <2> SUFFICES ASSUME NEW o \in orders
               PROVE  o.account \in Nat /\ o.account < Settled /\ o.seq \in Nat
    OBVIOUS
  <2>1. o.account \in 0 .. Capacity - 2 /\ o.seq \in Nat
    BY RoomForAll, OrderFacts DEF NewInv, Inv, Orders
  <2> QED BY <1>1, <2>1 DEF NewInv, Numbered
<1> QED BY <1>1, <1>2, <1>3, <1>4

\* Different orders have different accounts.
LEMMA AccountsDistinct ==
  ASSUME NewInv, NEW o \in orders, NEW p \in orders, o.account = p.account
  PROVE  o = p
<1>1. o.seq \in Nat /\ p.seq \in Nat /\ o.account \in Nat
  BY SentFacts
<1>2. ~(o.seq < p.seq) /\ ~(p.seq < o.seq)
  BY <1>1 DEF NewInv, Numbered
<1>3. o.seq = p.seq
  BY <1>1, <1>2
<1> QED BY <1>3 DEF NewInv, Inv, BookInv, SeqsDistinct

\* There are no more orders than have been sent, and one slot more than that.
LEMMA RoomLeft ==
  ASSUME NewInv, taker # None
  PROVE  free # <<>>
<1>1. /\ sent <= Capacity - 1 /\ sent \in Nat /\ Settled = sent - 1 /\ Settled \in Nat
      /\ Capacity \in Nat
  BY SentFacts
<1> DEFINE S == Settled - 1
           f == [o \in orders |-> o.account]
<1>2. f \in Injection(orders, 0 .. S)
  <2>1. \A o \in orders : o.account \in 0 .. S
    BY <1>1, SentFacts
  <2>2. \A o, p \in orders : f[o] = f[p] => o = p
    BY AccountsDistinct
  <2> QED BY <2>1, <2>2 DEF Injection, IsInjective
<1>3. IsFiniteSet(0 .. S) /\ Cardinality(0 .. S) = Settled
  <2>1. S \in Int /\ 0 \in Int /\ S >= -1
    BY <1>1
  <2>2. Cardinality(0 .. S) = IF 0 > S THEN 0 ELSE S - 0 + 1
    BY <2>1, FS_Interval
  <2>3. (IF 0 > S THEN 0 ELSE S - 0 + 1) = Settled
    BY <1>1
  <2> HIDE DEF S
  <2> QED BY <2>1, <2>2, <2>3, FS_Interval
<1>4. Cardinality(orders) <= Settled /\ IsFiniteSet(orders)
  <2> HIDE DEF f, S
  <2> QED BY <1>2, <1>3, FS_Injection
<1>5. Cardinality(orders) \in Nat /\ Len(free) \in Nat
  BY <1>4, FS_CardinalityType DEF NewInv, Inv, BookInv, BookTypeOK
<1>6. Cardinality(orders) + Len(free) = Capacity
  BY <1>1, <1>5 DEF NewInv, NeverRetires, Inv, BookInv, SlotAccounting, SlotsCounted
<1>7. Len(free) # 0
  BY <1>1, <1>4, <1>5, <1>6
<1> QED BY <1>7

\* No slot is at its last generation while an order is processed.
LEMMA NoneRetires ==
  ASSUME NewInv, taker # None, NEW o \in orders
  PROVE  ~WillRetire(SlotOf(o.id))
<1> DEFINE g == generations[SlotOf(o.id)]
<1>1. g \in Nat /\ g % 2 = 1 /\ SlotOf(o.id) \in Slots
  BY OrderFacts DEF NewInv, Inv
<1>2. /\ sent <= Capacity - 1 /\ sent \in Nat /\ Settled = sent - 1
      /\ Capacity \in Nat
  BY SentFacts
<1>3. g <= 2 * (sent - 1)
  BY <1>1, <1>2 DEF NewInv, NeverRetires
<1>4. g # 2 * (sent - 1)
  <2> DEFINE d == sent - 1
  <2>1. d \in Int /\ (2 * d) % 2 = 0
    BY <1>2
  <2> QED BY <1>1, <2>1
<1>5. g + 2 <= GenerationLimit /\ GenerationLimit \in Nat
  BY <1>1, <1>2, <1>3, <1>4, RoomForAll, ConfigValid
<1> HIDE DEF g
<1>6. ~(g + 2 > GenerationLimit)
  BY <1>1, <1>5
<1> QED BY <1>6 DEF WillRetire, g

----------------------------------------------------------------------------
(***************************************************************************)
(* The steps that the new engine takes on this stream                      *)
(***************************************************************************)
\* A fill uses its maker up, and the maker's slot goes to its next generation,
\* or leaves something of it.
UseUp(o) ==
  /\ orders' = orders \ {o}
  /\ generations' = [generations EXCEPT ![SlotOf(o.id)] = @ + 1]
  /\ UNCHANGED <<retired, next_seq>>

ReduceBy(o, fill) ==
  /\ orders' = (orders \ {o}) \cup
                 {[o EXCEPT !.remaining = @ - fill, !.filled = @ + fill]}
  /\ UNCHANGED <<generations, retired, next_seq>>

FillOf(o, fill) ==
  /\ pc = "match" /\ pc' = "match"
  /\ taker' = [taker EXCEPT !.remaining = @ - fill]
  /\ LET trade == Trade(taker.side, o.id, o.price, fill, o.remaining - fill)
     IN  \/ fill = o.remaining /\ UseUp(o) /\ out' = out \o <<trade, MakerFilled(o.id)>>
         \/ fill < o.remaining /\ ReduceBy(o, fill) /\ out' = Append(out, trade)

Come(o) ==
  LET slot == SlotOf(o.id)
  IN  /\ o \in Orders /\ o.id = OrderId(slot, generations[slot] + 1)
      /\ o.account = taker.account /\ o.side = taker.side
      /\ o.price = taker.kind.price /\ o.remaining = taker.remaining
      /\ o.seq = next_seq
      /\ Insert(o, slot)
      /\ Return(<<Rested(o.id, taker.remaining)>>)

\* It starts its loop, fills, is done with an order that is filled, or puts
\* what is left in the book; it never refuses, and never gives up an order.
LEMMA NewSteps ==
  ASSUME NewInv, Running
  PROVE  /\ taker # None /\ pc \in {"submit", "match"}
         /\ \/ pc = "submit" /\ pc' = "match" /\ UNCHANGED <<book, taker, out>>
            \/ /\ Matching
               /\ FillOf(Maker, Min({taker.remaining, Maker.remaining}))
            \/ /\ pc = "match" /\ ~Matching /\ taker.remaining = 0
               /\ UNCHANGED book /\ Return(<<Filled>>)
            \/ /\ pc = "match" /\ ~Matching /\ taker.remaining > 0
               /\ \E o : Come(o)
<1>1. pc \in {"submit", "match"}
  BY DEF Running, Submit, Fill, SelfTrade, Finish, Matching
<1>2. taker # None /\ taker \in Takers
  BY <1>1, NoneIsNoTaker DEF NewInv, Inv, ControlTypeOK
<1>3. free # <<>>
  BY <1>2, RoomLeft
<1>4. /\ taker.kind.type = "Gtc" /\ taker.account = Number
      /\ Limit = taker.kind.price
  <2>1. /\ taker.kind.type = "Gtc" /\ taker.account = Number
        /\ taker.kind.price \in InputPrices
    BY <1>2 DEF NewInv, Phases
  <2> QED BY <2>1, InputsValid DEF Limit, LimitOf
<1>5. CASE Submit
  <2>1. SubmitRefusal = None
    BY <1>3, <1>4 DEF SubmitRefusal
  <2> QED BY <1>1, <1>2, <1>5, <2>1 DEF Submit
<1>6. ASSUME Matching PROVE Maker.account # taker.account
  <2>1. Maker \in orders
    BY <1>6, MakerRests DEF NewInv
  <2>2. Maker.account < Settled /\ Settled = Number
    BY <1>2, <2>1 DEF NewInv, Numbered, Settled
  <2>3. Maker.account \in Nat /\ Number \in Int
    BY <2>1, SentFacts DEF Number
  <2> QED BY <1>4, <2>2, <2>3
<1>7. CASE SelfTrade
  BY <1>6, <1>7 DEF SelfTrade
<1>8. CASE Fill
  <2> DEFINE fill == Min({taker.remaining, Maker.remaining})
             left == Maker.remaining - fill
             trade == Trade(taker.side, Maker.id, Maker.price, fill, left)
  <2>1. /\ Matching /\ pc = "match" /\ pc' = "match"
        /\ taker' = [taker EXCEPT !.remaining = @ - fill]
        /\ \/ /\ left = 0 /\ RemoveOrder(Maker)
              /\ out' = out \o <<trade, MakerFilled(Maker.id)>>
           \/ /\ left > 0
              /\ Update(Maker, [Maker EXCEPT !.remaining = left,
                                             !.filled = @ + fill])
              /\ out' = Append(out, trade)
    BY <1>8 DEF Fill, Matching
  <2>2. PICK m \in orders : m = Maker
    BY <2>1, MakerRests DEF NewInv
  <2>3. fill \in Nat /\ m.remaining \in Nat /\ left = m.remaining - fill
    BY <2>1, <2>2, FillQuantity, MakerRests DEF NewInv
  <2>4. CASE left = 0 /\ RemoveOrder(Maker)
             /\ out' = out \o <<trade, MakerFilled(Maker.id)>>
    <3>1. ~WillRetire(SlotOf(m.id))
      BY <1>2, NoneRetires
    <3>2. UseUp(m)
      BY <2>2, <2>4, <3>1 DEF UseUp, RemoveOrder, Release
    <3>3. fill = m.remaining
      BY <2>3, <2>4
    <3> HIDE DEF fill, left
    <3>4. out' = out \o <<Trade(taker.side, m.id, m.price, fill, m.remaining - fill),
                          MakerFilled(m.id)>>
      BY <2>2, <2>3, <2>4
    <3>5. FillOf(m, fill)
      BY <2>1, <3>2, <3>3, <3>4 DEF FillOf
    <3> QED BY <1>1, <1>2, <2>1, <2>2, <3>5 DEF fill
  <2>5. CASE left > 0 /\ Update(Maker, [Maker EXCEPT !.remaining = left,
                                                      !.filled = @ + fill])
             /\ out' = Append(out, trade)
    <3>1. fill < m.remaining
      BY <2>3, <2>5
    <3>2. ReduceBy(m, fill)
      BY <2>2, <2>3, <2>5 DEF ReduceBy, Update
    <3> HIDE DEF fill, left
    <3>3. out' = Append(out, Trade(taker.side, m.id, m.price, fill, m.remaining - fill))
      BY <2>2, <2>3, <2>5
    <3>4. FillOf(m, fill)
      BY <2>1, <3>1, <3>2, <3>3 DEF FillOf
    <3> QED BY <1>1, <1>2, <2>1, <2>2, <3>4 DEF fill
  <2> QED BY <2>1, <2>4, <2>5
<1>9. CASE Finish
  <2>1. pc = "match" /\ ~Matching
    BY <1>9 DEF Finish
  <2>2. \/ taker.remaining = 0 /\ UNCHANGED book /\ Return(<<Filled>>)
        \/ taker.remaining > 0 /\ Rest
    BY <1>3, <1>4, <1>9 DEF Finish, Rests
  <2>3. ASSUME Rest PROVE \E o : Come(o)
    <3> DEFINE slot == Last(free)
               id   == OrderId(slot, generations[slot] + 1)
    <3>1. /\ slot \in Slots /\ generations[slot] \in Nat /\ next_seq \in Nat
          /\ Limit \in Nat
      BY <1>3, <1>4, <1>2, FrontLast, InputsValid DEF NewInv, Inv, BookInv, BookTypeOK, Phases
    <3>2. PICK o : /\ o = [id |-> id, account |-> taker.account, side |-> taker.side,
                           price |-> Limit, remaining |-> taker.remaining, filled |-> 0,
                           seq |-> next_seq]
                   /\ Insert(o, slot) /\ Return(<<Rested(id, taker.remaining)>>)
      BY <2>3 DEF Rest
    <3>3. SlotOf(id) = slot /\ id \in Slots \X Nat
      BY <3>1 DEF SlotOf, OrderId
    <3> HIDE DEF slot
    <3>4. o \in Orders
      BY <1>2, <3>1, <3>2, <3>3 DEF Orders, Takers
    <3>5. Come(o)
      BY <1>4, <3>2, <3>3, <3>4 DEF Come
    <3> QED BY <3>5
  <2> QED BY <1>1, <1>2, <2>1, <2>2, <2>3
<1> QED BY <1>5, <1>7, <1>8, <1>9 DEF Running

----------------------------------------------------------------------------
(***************************************************************************)
(* Each step keeps NewInv                                                  *)
(***************************************************************************)
\* What a fill does to the events: one more trade, and nothing has come to rest.
LEMMA FillOfEvents ==
  ASSUME NewInv, NEW o, NEW fill, FillOf(o, fill)
  PROVE  LET trade == Trade(taker.side, o.id, o.price, fill, o.remaining - fill)
         IN  /\ IsSequence(out') /\ Len(out) \in Nat /\ DOMAIN out = 1 .. Len(out)
             /\ \A i \in DOMAIN out : out'[i] = out[i]
             /\ Events("Trade")' = Events("Trade") \cup {Len(out) + 1}
             /\ out'[Len(out) + 1] = trade
             /\ Events("Rested")' = Events("Rested")
<1> DEFINE e == Trade(taker.side, o.id, o.price, fill, o.remaining - fill)
           f == MakerFilled(o.id)
<1>1. e.event = "Trade" /\ f.event = "MakerFilled"
  BY DEF Trade, MakerFilled
<1>2. PICK ends \in BOOLEAN : out' = IF ends THEN out \o <<e, f>> ELSE Append(out, e)
  <2>1. out' = out \o <<e, f>> \/ out' = Append(out, e)
    BY DEF FillOf
  <2> QED BY <2>1
<1>3. IsSequence(out)
  BY DEF NewInv
<1> HIDE DEF e, f
<1>4. /\ IsSequence(out') /\ Len(out) \in Nat /\ DOMAIN out = 1 .. Len(out)
      /\ \A i \in DOMAIN out : out'[i] = out[i]
      /\ Events("Trade")' = Events("Trade") \cup {Len(out) + 1}
      /\ out'[Len(out) + 1] = e
      /\ Events("Rested")' = Events("Rested")
  BY ONLY <1>1, <1>2, <1>3, ends \in BOOLEAN, FillEvents
<1> QED BY <1>4 DEF e

\* A fill leaves every order its id, account and number.
LEMMA FillOfOrders ==
  ASSUME NewInv, Inv', NEW o \in orders, NEW fill \in Nat, FillOf(o, fill)
  PROVE  /\ taker' # None /\ taker'.account = taker.account /\ taker'.kind = taker.kind
         /\ taker'.side = taker.side /\ taker'.remaining = taker.remaining - fill
         /\ retired' = retired
         /\ \A p \in orders' : \E q \in orders :
              p.id = q.id /\ p.account = q.account /\ p.seq = q.seq
<1>1. taker \in Takers /\ pc = "match" /\ pc' = "match"
  BY DEF FillOf, NewInv, Inv, ControlTypeOK
<1>2. /\ taker'.account = taker.account /\ taker'.kind = taker.kind
      /\ taker'.side = taker.side /\ taker'.remaining = taker.remaining - fill
  BY <1>1 DEF FillOf, Takers
<1>3. taker' # None
  BY <1>1, NoneIsNoTaker DEF Inv, ControlTypeOK
<1>4. retired' = retired
  BY DEF FillOf, UseUp, ReduceBy
<1>5. ASSUME NEW p \in orders'
      PROVE  \E q \in orders : p.id = q.id /\ p.account = q.account /\ p.seq = q.seq
  <2>1. o \in Orders
    BY OrderFacts DEF NewInv, Inv
  <2>2. p \in orders \/ p = [o EXCEPT !.remaining = @ - fill, !.filled = @ + fill]
    BY <1>5 DEF FillOf, UseUp, ReduceBy
  <2>3. LET u == [o EXCEPT !.remaining = @ - fill, !.filled = @ + fill]
        IN  u.id = o.id /\ u.account = o.account /\ u.seq = o.seq
    BY <2>1 DEF Orders
  <2> QED BY <2>2, <2>3
<1> QED BY <1>2, <1>3, <1>4, <1>5

\* What a fill by the best maker needs to know of it.
LEMMA MakerFacts ==
  ASSUME NewInv, Matching
  PROVE  /\ Maker \in orders /\ Maker \in Orders
         /\ Min({taker.remaining, Maker.remaining}) \in Nat \ {0}
         /\ taker # None
<1>1. Maker \in orders /\ Maker \in Orders
  BY MakerRests DEF NewInv
<1>2. Min({taker.remaining, Maker.remaining}) \in Nat \ {0}
  BY FillQuantity DEF NewInv
<1>3. taker # None
  BY NoneIsNoTaker DEF NewInv, Inv, ControlTypeOK, Matching
<1> QED BY <1>1, <1>2, <1>3

LEMMA FillKeepsNewInv ==
  ASSUME NewInv, Inv', Matching, UNCHANGED <<sent, placed>>,
         FillOf(Maker, Min({taker.remaining, Maker.remaining}))
  PROVE  NewInv'
<1>0. PICK o \in orders, fill \in Nat :
        /\ o = Maker /\ fill = Min({taker.remaining, Maker.remaining})
        /\ FillOf(o, fill) /\ o \in Orders
  BY MakerFacts
<1>1. /\ taker' # None /\ taker'.account = taker.account /\ taker'.kind = taker.kind
      /\ retired' = retired
      /\ \A p \in orders' : \E q \in orders :
           p.id = q.id /\ p.account = q.account /\ p.seq = q.seq
  BY <1>0, FillOfOrders
<1>2. /\ IsSequence(out') /\ Events("Rested")' = Events("Rested")
      /\ \A i \in Events("Rested") : FALSE
  BY <1>0, FillOfEvents, MakerFacts DEF NewInv, Phases
<1>3. taker # None /\ sent' = sent /\ Settled' = Settled /\ Number' = Number
  BY <1>1, MakerFacts DEF Settled, Number
<1>4. /\ sent \in Nat /\ sent >= 1 /\ Settled = sent - 1
  BY <1>3, SentFacts
<1>5. Numbered'
  BY <1>1, <1>3 DEF NewInv, Numbered
<1>6. /\ generations \in [Slots -> Nat] /\ generations' \in [Slots -> Nat]
      /\ \A s \in Slots : generations[s] <= generations'[s]
                          /\ generations'[s] <= 2 * Settled
  <2> DEFINE s == SlotOf(o.id)
  <2>1. generations \in [Slots -> Nat]
    BY DEF NewInv, Inv, BookInv, BookTypeOK
  <2>2. \A t \in Slots : generations[t] <= 2 * Settled
    BY DEF NewInv, NeverRetires
  <2>3. s \in Slots /\ generations[s] % 2 = 1
    BY OrderFacts DEF NewInv, Inv
  <2>4. generations[s] + 1 <= 2 * Settled
    <3>1. PICK g \in Nat, d \in Int : g = generations[s] /\ d = Settled
      BY <2>1, <2>3, <1>4
    <3>2. (2 * d) % 2 = 0
      BY <3>1
    <3> QED BY <2>2, <2>3, <3>1, <3>2
  <2>5. CASE generations' = generations
    BY <2>1, <2>2, <2>5
  <2>6. CASE generations' = [generations EXCEPT ![s] = @ + 1]
    <3> HIDE DEF s
    <3> QED BY <2>1, <2>2, <2>3, <2>4, <2>6
  <2> QED BY <1>0, <2>5, <2>6 DEF FillOf, UseUp, ReduceBy
<1>7. NeverRetires'
  BY <1>1, <1>3, <1>6 DEF NewInv, NeverRetires
<1>8. Phases'
  <2>1. pc' = "match"
    BY <1>0 DEF FillOf
  <2> QED BY <1>1, <1>2, <1>3, <2>1 DEF NewInv, Phases
<1>9. Known'
  <2>1. \A id : Issued(id) => Issued(id)'
    <3> SUFFICES ASSUME NEW id, Issued(id) PROVE Issued(id)'
      OBVIOUS
    <3>1. SlotOf(id) \in Slots /\ GenerationOf(id) \in Nat
      BY DEF Issued, SlotOf, GenerationOf
    <3> QED BY <1>6, <3>1 DEF Issued
  <2>2. \A p \in orders : p.id \in DOMAIN placed /\ placed[p.id] = p.account
    BY <1>2 DEF NewInv, Known
  <2> QED BY <1>1, <1>2, <2>1, <2>2 DEF NewInv, Known
<1> QED BY <1>2, <1>5, <1>7, <1>8, <1>9 DEF NewInv

\* The order that comes to rest is the newest by number and by account, and
\* its id is the first of its generation.
LEMMA ComeKeepsNewInv ==
  ASSUME NewInv, Inv', pc = "match", NEW o, Come(o), UNCHANGED <<sent, placed>>
  PROVE  NewInv'
<1> DEFINE s == SlotOf(o.id)
<1>1. /\ taker # None /\ taker' = None /\ pc' = "done" /\ taker.account = Number
      /\ Events("Rested") = {} /\ sent > 0
  <2>1. taker # None
    BY NoneIsNoTaker DEF NewInv, Inv, ControlTypeOK
  <2> QED BY <2>1 DEF Come, Return, NewInv, Phases
<1>2. /\ sent' = sent /\ Number' = Number /\ Settled' = sent /\ Settled = sent - 1
      /\ sent \in Nat
  BY <1>1, SentFacts DEF Settled, Number
<1>3. /\ o \in Orders /\ o.account = Number /\ o.seq = next_seq
      /\ orders' = orders \cup {o}
      /\ o.id = <<s, generations[s] + 1>>
      /\ generations' = [generations EXCEPT ![s] = @ + 1]
      /\ retired' = retired
  BY <1>1 DEF Come, Insert, OrderId
<1>4. Numbered'
  <2>1. \A p \in orders : p.account < Number /\ p.seq < next_seq /\ p.account \in Nat
                          /\ p.seq \in Nat
    <3>1. \A p \in orders : p.seq < next_seq
      BY DEF NewInv, Inv, BookInv, SeqsDistinct
    <3> QED BY <1>2, <3>1, SentFacts DEF Number
  <2>2. next_seq \in Nat
    BY <1>3 DEF Orders
  <2>3. sent \in 0 .. Capacity - 1
    BY DEF NewInv, Numbered
  <2>4. \A p \in orders' : p.account < sent
    BY <1>2, <1>3, <2>1 DEF Number
  <2>5. \A p, q \in orders : p.seq < q.seq => p.account < q.account
    BY DEF NewInv, Numbered
  <2>6. ASSUME NEW p \in orders', NEW q \in orders', p.seq < q.seq
        PROVE  p.account < q.account
    <3>1. CASE p \in orders /\ q \in orders
      BY <2>5, <2>6, <3>1
    <3>2. CASE p \in orders /\ q = o
      BY <1>3, <2>1, <3>2
    <3>3. CASE p = o
      BY <1>3, <2>1, <2>2, <2>6, <3>3
    <3> QED BY <1>3, <3>1, <3>2, <3>3
  <2> QED BY <1>2, <2>3, <2>4, <2>6 DEF Numbered
<1>5. /\ s \in Slots /\ generations \in [Slots -> Nat]
      /\ generations'[s] = generations[s] + 1
      /\ \A t \in Slots : generations[t] <= generations'[t]
                          /\ generations'[t] <= 2 * sent
  <2>1. generations \in [Slots -> Nat] /\ s \in Slots
    BY <1>3 DEF NewInv, Inv, BookInv, BookTypeOK, Orders, SlotOf
  <2>2. \A t \in Slots : generations[t] <= 2 * (sent - 1)
    BY <1>2 DEF NewInv, NeverRetires
  <2> HIDE DEF s
  <2>3. \A t \in Slots : generations'[t] = IF t = s THEN generations[t] + 1
                                                    ELSE generations[t]
    BY <1>3, <2>1
  <2>4. \A t \in Slots : generations[t] \in Nat
    BY <2>1
  <2> QED BY <1>2, <2>1, <2>2, <2>3, <2>4
<1>6. NeverRetires'
  BY <1>2, <1>3, <1>5 DEF NewInv, NeverRetires
<1>7. IsSequence(out') /\ Phases' /\ Events("Rested")' = {Len(out) + 1}
      /\ out'[Len(out) + 1].id = o.id
  <2> DEFINE e == Rested(o.id, taker.remaining)
  <2>1. e.event = "Rested" /\ e.id = o.id /\ out' = out \o <<e>> /\ IsSequence(out)
    BY DEF Rested, Come, Return, NewInv
  <2> HIDE DEF e
  <2>2. /\ IsSequence(out') /\ out'[Len(out) + 1] = e
        /\ Events("Rested")' = Events("Rested") \cup {Len(out) + 1}
    BY <2>1, OneMoreEvent
  <2> QED BY <1>1, <2>1, <2>2 DEF Phases
<1>8. Known'
  <2>1. \A id : Issued(id) => Issued(id)'
    <3> SUFFICES ASSUME NEW id, Issued(id) PROVE Issued(id)'
      OBVIOUS
    <3>1. SlotOf(id) \in Slots /\ GenerationOf(id) \in Nat
      BY DEF Issued, SlotOf, GenerationOf
    <3>2. generations'[SlotOf(id)] \in Nat /\ generations[SlotOf(id)] \in Nat
      BY <1>3, <1>5, <3>1
    <3> QED BY <1>5, <3>1, <3>2 DEF Issued
  <2>2. \A p \in orders : p.id \in DOMAIN placed /\ placed[p.id] = p.account
    BY <1>1 DEF NewInv, Known
  <2>3. Issued(o.id)' /\ ~Issued(o.id)
    <3>1. o.id \in Slots \X Nat /\ GenerationOf(o.id) = generations[s] + 1
          /\ generations[s] \in Nat
      BY <1>3, <1>5 DEF Orders, GenerationOf
    <3> QED BY <1>5, <3>1 DEF Issued
  <2>4. o.id \notin DOMAIN placed
    BY <2>3 DEF NewInv, Known
  <2>5. \A p \in orders' :
          \/ p.id \in DOMAIN placed' /\ placed'[p.id] = p.account
          \/ p.account = Number' /\ \E i \in Events("Rested")' : out'[i].id = p.id
    BY <1>2, <1>3, <1>7, <2>2
  <2>6. \A id \in DOMAIN placed' : Issued(id)'
    BY <2>1 DEF NewInv, Known
  <2>7. (\A i \in Events("Rested") : Issued(out[i].id) /\ out[i].id \notin DOMAIN placed)'
    BY <1>7, <2>3, <2>4
  <2> QED BY <2>5, <2>6, <2>7 DEF Known
<1> QED BY <1>4, <1>6, <1>7, <1>8 DEF NewInv

\* A step of the new engine.
LEMMA RunKeepsNewInv ==
  ASSUME NewInv, Inv', Running, UNCHANGED <<sent, placed>>
  PROVE  NewInv'
<1>1. /\ taker # None /\ pc \in {"submit", "match"}
      /\ \/ pc = "submit" /\ pc' = "match" /\ UNCHANGED <<book, taker, out>>
         \/ /\ Matching
            /\ FillOf(Maker, Min({taker.remaining, Maker.remaining}))
         \/ /\ pc = "match" /\ ~Matching /\ taker.remaining = 0
            /\ UNCHANGED book /\ Return(<<Filled>>)
         \/ /\ pc = "match" /\ ~Matching /\ taker.remaining > 0
            /\ \E o : Come(o)
  BY NewSteps
<1>2. CASE pc = "submit" /\ pc' = "match" /\ UNCHANGED <<book, taker, out>>
  <2>1. /\ generations' = generations /\ retired' = retired /\ orders' = orders
        /\ taker' = taker /\ out' = out
    BY <1>2 DEF book
  <2> QED BY <1>2, <2>1 DEF NewInv, Numbered, NeverRetires, Phases, Known, Settled,
                            Number, Issued, Events
<1>3. CASE UNCHANGED book /\ Return(<<Filled>>)
  <2>1. /\ generations' = generations /\ retired' = retired /\ orders' = orders
        /\ taker' = None /\ pc' = "done" /\ out' = out \o <<Filled>>
    BY <1>3 DEF book, Return
  <2>2. /\ sent \in Nat /\ Settled = sent - 1 /\ Settled' = sent /\ Number' = Number
    BY <1>1, <2>1, SentFacts DEF Settled, Number
  <2>3. Numbered'
    <3>1. \A o \in orders : o.account \in Nat
      BY SentFacts
    <3>2. \A o \in orders : o.account < sent
      BY <2>2, <3>1 DEF NewInv, Numbered
    <3> QED BY <2>1, <2>2, <3>2 DEF NewInv, Numbered
  <2>4. NeverRetires'
    <3>1. \A s \in Slots : generations[s] \in Nat
      BY DEF NewInv, Inv, BookInv, BookTypeOK
    <3>2. \A s \in Slots : generations[s] <= 2 * sent
      BY <2>2, <3>1 DEF NewInv, NeverRetires
    <3> QED BY <2>1, <2>2, <3>2 DEF NewInv, NeverRetires
  <2>5. IsSequence(out') /\ Events("Rested")' = Events("Rested") /\ Events("Rested") = {}
    <3> DEFINE e == Filled
    <3>1. e.event # "Rested" /\ IsSequence(out) /\ out' = out \o <<e>>
      BY <2>1 DEF Filled, NewInv
    <3> HIDE DEF e
    <3>2. IsSequence(out') /\ Events("Rested")' = Events("Rested")
      BY <3>1, OneMoreEvent, OtherEvents
    <3> QED BY <1>1, <3>2 DEF NewInv, Phases
  <2>6. Phases'
    BY <2>1 DEF Phases
  <2>7. Known'
    <3>1. \A id : Issued(id)' <=> Issued(id)
      BY <2>1 DEF Issued
    <3> QED BY <2>1, <2>2, <2>5, <3>1 DEF NewInv, Known
  <2> QED BY <2>3, <2>4, <2>5, <2>6, <2>7 DEF NewInv
<1> QED BY <1>1, <1>2, <1>3, FillKeepsNewInv, ComeKeepsNewInv

\* The original engine's steps leave the new one alone.
LEMMA LegacyKeepsNewInv ==
  ASSUME NewInv, UNCHANGED <<vars, sent, placed>>
  PROVE  NewInv'
<1>1. /\ generations' = generations /\ retired' = retired /\ orders' = orders
      /\ free' = free /\ next_seq' = next_seq /\ pc' = pc
      /\ taker' = taker /\ out' = out
  BY DEF vars
<1>2. Inv'
  <2>1. UNCHANGED vars
    OBVIOUS
  <2> QED BY <2>1, NextKeepsInv DEF NewInv
<1> QED BY <1>1, <1>2 DEF NewInv, Numbered, NeverRetires, Phases, Known, Settled,
                          Number, Issued, Events

\* The new engine accepts the order.
LEMMA OrderAccepted ==
  ASSUME NEW side \in Sides, NEW price \in InputPrices, NEW qty \in InputQtys,
         NewOrder(sent, side, qty, [type |-> "Gtc", price |-> price])
  PROVE  /\ pc = "ready" /\ pc' = "submit" /\ UNCHANGED <<book, out>>
         /\ taker' = [account |-> sent, side |-> side,
                      kind |-> [type |-> "Gtc", price |-> price],
                      qty |-> qty, remaining |-> qty]
<1>1. PriceOk(price) /\ QtyOk(qty)
  BY FlowAllowed DEF PriceOk, QtyOk
<1> QED BY <1>1 DEF NewOrder, CallSubmit

LEMMA SendKeepsNewInv ==
  ASSUME NewInv, sent \in Accounts, sent' = sent + 1, UNCHANGED placed,
         NEW side \in Sides, NEW price \in InputPrices, NEW qty \in InputQtys,
         NewOrder(sent, side, qty, [type |-> "Gtc", price |-> price])
  PROVE  NewInv'
<1>1. /\ pc = "ready" /\ pc' = "submit" /\ out' = out
      /\ generations' = generations /\ retired' = retired /\ orders' = orders
      /\ taker' = [account |-> sent, side |-> side,
                   kind |-> [type |-> "Gtc", price |-> price],
                   qty |-> qty, remaining |-> qty]
  BY OrderAccepted DEF book
<1>2. Inv'
  <2>1. [type |-> "Gtc", price |-> price] \in Kinds
    BY DEF Kinds
  <2> QED BY <2>1, NewOrderKeepsInv DEF NewInv
<1>3. taker' # None /\ taker = None /\ out = <<>>
  BY <1>1, <1>2, NoneIsNoTaker DEF NewInv, Inv, ControlTypeOK, Phases
<1>4. /\ sent \in Nat /\ Settled = sent /\ Settled' = sent /\ Number' = sent
      /\ sent' \in 0 .. Capacity - 1 /\ sent' > 0
  <2>1. sent \in Nat /\ Settled = sent /\ Capacity \in Nat
    BY <1>3, SentFacts
  <2>2. sent \in 0 .. Capacity - 2
    BY RoomForAll
  <2> QED BY <1>3, <2>1, <2>2 DEF Settled, Number
<1>5. Numbered' /\ NeverRetires'
  BY <1>1, <1>4 DEF NewInv, Numbered, NeverRetires
<1>6. Events("Rested") = {} /\ Events("Rested")' = {}
  BY <1>1, <1>3 DEF Events
<1>7. Phases'
  BY <1>1, <1>3, <1>4, <1>6 DEF NewInv, Phases
<1>8. Known'
  BY <1>1, <1>4, <1>6 DEF NewInv, Known, Issued
<1> QED BY <1>1, <1>2, <1>5, <1>7, <1>8 DEF NewInv

\* The events are read: an id that is new is the order's.
LEMMA ReadKeepsNewInv ==
  ASSUME NewInv, ReadEvents
  PROVE  NewInv'
<1>1. /\ pc = "done" /\ pc' = "ready" /\ out' = <<>> /\ taker' = taker
      /\ generations' = generations /\ retired' = retired /\ orders' = orders
      /\ sent' = sent
  BY DEF ReadEvents, Drain, book
<1>2. Inv' /\ taker = None
  <2>1. [Next]_vars
    BY DEF ReadEvents, Next
  <2> QED BY <1>1, <2>1, NextKeepsInv DEF NewInv, Inv, ControlTypeOK
<1>3. Numbered' /\ NeverRetires' /\ Number' = Number
  BY <1>1, <1>2 DEF NewInv, Numbered, NeverRetires, Settled, Number
<1>4. IsSequence(out') /\ Phases' /\ Events("Rested")' = {}
  <2>1. out' \in Seq({})
    BY <1>1
  <2>2. IsSequence(out')
    BY <2>1 DEF IsSequence
  <2> QED BY <1>1, <1>2, <2>2 DEF Phases, Events
<1>5. Known'
  <2> DEFINE new == {out[i].id : i \in Events("Rested")}
  <2>1. placed' = [id \in DOMAIN placed \cup new |->
                     IF id \in DOMAIN placed THEN placed[id] ELSE Number]
    BY DEF ReadEvents, Number
  <2>2. \A id : Issued(id)' <=> Issued(id)
    BY <1>1 DEF Issued
  <2>3. \A id \in new : Issued(id) /\ id \notin DOMAIN placed
    BY DEF NewInv, Known
  <2>4. \A o \in orders : \/ o.id \in DOMAIN placed /\ placed[o.id] = o.account
                          \/ o.account = Number /\ o.id \in new
    BY DEF NewInv, Known
  <2> HIDE DEF new
  <2>5. \A o \in orders : o.id \in DOMAIN placed' /\ placed'[o.id] = o.account
    BY <2>1, <2>3, <2>4
  <2>6. (\A id \in DOMAIN placed : Issued(id))'
    BY <2>1, <2>2, <2>3 DEF NewInv, Known
  <2> QED BY <1>1, <1>4, <2>5, <2>6 DEF Known
<1> QED BY <1>2, <1>3, <1>4, <1>5 DEF NewInv

----------------------------------------------------------------------------
(***************************************************************************)
(* The queues of the original engine                                       *)
(***************************************************************************)
\* A queue of the level at p: orders with something left, by number, all of
\* them below the bound.
QueueOK(queue, side, p, bound) ==
  /\ queue \in Seq(LegacyOrders)
  /\ \A i \in DOMAIN queue :
       /\ queue[i].side = side /\ queue[i].price = p
       /\ queue[i].remaining > 0 /\ queue[i].id < bound
  /\ \A i, j \in DOMAIN queue : i < j => queue[i].id < queue[j].id

In(e, queue) == \E i \in DOMAIN queue : queue[i] = e

\* A function from sides to functions.
Shaped(b) == b = [side \in Sides |-> [p \in DOMAIN b[side] |-> b[side][p]]]

\* The order e is in the levels b.
HeldIn(e, b) == e.price \in DOMAIN b[e.side] /\ In(e, b[e.side][e.price])

\* The maker at the front is used up.
LEMMA FrontGone ==
  ASSUME NEW queue, NEW side, NEW p, NEW bound, QueueOK(queue, side, p, bound),
         queue # <<>>
  PROVE  /\ Head(queue) = queue[1] /\ 1 \in DOMAIN queue /\ queue[1] \in LegacyOrders
         /\ QueueOK(Tail(queue), side, p, bound)
         /\ \A e : In(e, Tail(queue)) <=> In(e, queue) /\ e # queue[1]
<1>1. /\ queue \in Seq(LegacyOrders) /\ Len(queue) \in Nat /\ Len(queue) >= 1
      /\ DOMAIN queue = 1 .. Len(queue) /\ Head(queue) = queue[1]
  BY DEF QueueOK
<1>2. /\ Tail(queue) \in Seq(LegacyOrders) /\ DOMAIN Tail(queue) = 1 .. Len(queue) - 1
      /\ \A i \in 1 .. Len(queue) - 1 : Tail(queue)[i] = queue[i + 1]
  BY <1>1
<1>3. 1 \in DOMAIN queue /\ queue[1] \in LegacyOrders
  BY <1>1
<1>4. PICK n \in Nat : n = Len(queue) /\ n >= 1
  BY <1>1
<1>5. \A i \in 1 .. n - 1 : i + 1 \in 1 .. n /\ i + 1 # 1
  BY <1>4
<1>6. \A i \in 1 .. n : i = 1 \/ (i - 1 \in 1 .. n - 1 /\ (i - 1) + 1 = i /\ 1 < i)
  BY <1>4
<1>7. QueueOK(Tail(queue), side, p, bound)
  <2>1. ASSUME NEW i \in 1 .. n - 1, NEW j \in 1 .. n - 1, i < j PROVE i + 1 < j + 1
    BY <2>1
  <2> QED BY <1>1, <1>2, <1>4, <1>5, <2>1 DEF QueueOK
<1>8. \A i \in 1 .. n : i # 1 => queue[i] # queue[1]
  <2>1. ASSUME NEW i \in 1 .. n, i # 1, queue[i] = queue[1] PROVE FALSE
    <3>1. queue[1].id < queue[i].id /\ queue[1].id \in Nat
      BY <1>1, <1>3, <1>4, <1>6, <2>1 DEF QueueOK, LegacyOrders
    <3> QED BY <2>1, <3>1
  <2> QED BY <2>1
<1>9. ASSUME NEW e PROVE In(e, Tail(queue)) <=> In(e, queue) /\ e # queue[1]
  <2>1. In(e, Tail(queue)) <=> \E i \in 1 .. n - 1 : queue[i + 1] = e
    BY <1>2, <1>4 DEF In
  <2>2. In(e, queue) <=> \E i \in 1 .. n : queue[i] = e
    BY <1>1, <1>4 DEF In
  <2> QED BY <1>5, <1>6, <1>8, <2>1, <2>2
<1> QED BY <1>1, <1>3, <1>7, <1>9

\* Something is left of the maker at the front.
LEMMA FrontReduced ==
  ASSUME NEW queue, NEW side, NEW p, NEW bound, QueueOK(queue, side, p, bound),
         queue # <<>>, NEW left \in Nat, left > 0
  PROVE  LET new == [queue EXCEPT ![1].remaining = left]
             m   == [queue[1] EXCEPT !.remaining = left]
         IN  /\ new # <<>> /\ QueueOK(new, side, p, bound)
             /\ m \in LegacyOrders /\ m.side = side /\ m.price = p
             /\ \A e : In(e, new) <=> (In(e, queue) /\ e # queue[1]) \/ e = m
<1> DEFINE m   == [queue[1] EXCEPT !.remaining = left]
           new == [queue EXCEPT ![1].remaining = left]
<1>1. /\ queue \in Seq(LegacyOrders) /\ Len(queue) \in Nat /\ Len(queue) >= 1
      /\ DOMAIN queue = 1 .. Len(queue)
  BY DEF QueueOK
<1> HIDE DEF m, new
<1>2. PICK n \in Nat : n = Len(queue) /\ n >= 1 /\ 1 \in 1 .. n
  <2>1. \E n \in Nat : n = Len(queue) /\ n >= 1
    BY <1>1
  <2> QED BY <2>1
<1>3. queue[1] \in LegacyOrders /\ queue[1].side = side /\ queue[1].price = p
  BY <1>1, <1>2 DEF QueueOK
<1>4. /\ m \in LegacyOrders /\ m.id = queue[1].id /\ m.side = side /\ m.price = p
      /\ m.remaining = left
  BY <1>3 DEF LegacyOrders, m
<1>5. new = [i \in 1 .. n |-> IF i = 1 THEN m ELSE queue[i]]
  BY <1>1, <1>2 DEF m, new
<1>6. \A i \in 1 .. n : queue[i] \in LegacyOrders
  BY <1>1, <1>2
<1>7. new \in Seq(LegacyOrders) /\ Len(new) = n /\ DOMAIN new = 1 .. n
  BY <1>2, <1>4, <1>5, <1>6
<1>8. QueueOK(new, side, p, bound)
  <2>1. \A i \in 1 .. n : new[i].id = queue[i].id
    BY <1>4, <1>5
  <2>2. \A i \in 1 .. n : /\ new[i].side = side /\ new[i].price = p
                          /\ new[i].remaining > 0
    BY <1>1, <1>2, <1>4, <1>5 DEF QueueOK
  <2>3. \A i, j \in 1 .. n : i < j => queue[i].id < queue[j].id
    BY <1>1, <1>2 DEF QueueOK
  <2>4. \A i \in 1 .. n : queue[i].id < bound
    BY <1>1, <1>2 DEF QueueOK
  <2> QED BY <1>7, <2>1, <2>2, <2>3, <2>4 DEF QueueOK
<1>9. \A i \in 1 .. n : i # 1 => queue[i] # queue[1]
  <2>1. ASSUME NEW i \in 1 .. n, i # 1, queue[i] = queue[1] PROVE FALSE
    <3>1. queue[1].id \in Nat
      BY <1>3 DEF LegacyOrders
    <3>2. queue[1].id < queue[i].id
      BY <1>1, <1>2, <2>1 DEF QueueOK
    <3> QED BY <2>1, <3>1, <3>2
  <2> QED BY <2>1
<1>10. ASSUME NEW e PROVE In(e, new) <=> (In(e, queue) /\ e # queue[1]) \/ e = m
  <2>1. In(e, new) <=> \E i \in 1 .. n : new[i] = e
    BY <1>7 DEF In
  <2>2. In(e, queue) <=> \E i \in 1 .. n : queue[i] = e
    BY <1>1, <1>2 DEF In
  <2> QED BY <1>2, <1>5, <1>9, <2>1, <2>2
<1>11. new # <<>>
  BY <1>2, <1>7
<1> QED BY <1>4, <1>8, <1>10, <1>11 DEF m, new

\* An order is added at the end.
LEMMA BackAdded ==
  ASSUME NEW queue, NEW side, NEW p, NEW bound \in Nat, QueueOK(queue, side, p, bound),
         NEW o \in LegacyOrders, o.side = side, o.price = p, o.remaining > 0,
         o.id = bound
  PROVE  /\ QueueOK(Append(queue, o), side, p, bound + 1) /\ Append(queue, o) # <<>>
         /\ \A e : In(e, Append(queue, o)) <=> In(e, queue) \/ e = o
<1>1. PICK n \in Nat : /\ queue \in Seq(LegacyOrders) /\ n = Len(queue)
                       /\ DOMAIN queue = 1 .. n
  BY DEF QueueOK
<1> DEFINE new == Append(queue, o)
<1>2. /\ new \in Seq(LegacyOrders) /\ DOMAIN new = 1 .. n + 1 /\ Len(new) = n + 1
      /\ new[n + 1] = o /\ \A i \in 1 .. n : new[i] = queue[i]
  BY <1>1
<1> HIDE DEF new
<1>3. \A i \in 1 .. n + 1 : i \in 1 .. n \/ i = n + 1
  BY <1>1
<1>4. \A i \in 1 .. n : queue[i].id < bound /\ queue[i].id \in Nat
  <2> SUFFICES ASSUME NEW i \in 1 .. n
               PROVE  queue[i].id < bound /\ queue[i].id \in Nat
    OBVIOUS
  <2>1. queue[i] \in LegacyOrders
    BY <1>1
  <2> QED BY <1>1, <2>1 DEF QueueOK, LegacyOrders
<1>5. QueueOK(new, side, p, bound + 1)
  <2>1. \A i \in 1 .. n + 1 : new[i].side = side /\ new[i].price = p
                              /\ new[i].remaining > 0
    BY <1>1, <1>2, <1>3 DEF QueueOK
  <2>2. \A i \in 1 .. n + 1 : new[i].id < bound + 1
    BY <1>2, <1>3, <1>4
  <2>3. ASSUME NEW i \in 1 .. n + 1, NEW j \in 1 .. n + 1, i < j
        PROVE  new[i].id < new[j].id
    <3>1. i \in 1 .. n
      BY <2>3
    <3>2. CASE j \in 1 .. n
      BY <1>1, <1>2, <2>3, <3>1, <3>2 DEF QueueOK
    <3>3. CASE j = n + 1
      BY <1>2, <1>4, <3>1, <3>3
    <3> QED BY <1>3, <3>2, <3>3
  <2> QED BY <1>2, <2>1, <2>2, <2>3 DEF QueueOK
<1>6. ASSUME NEW e PROVE In(e, new) <=> In(e, queue) \/ e = o
  <2>1. In(e, new) <=> \E i \in 1 .. n + 1 : new[i] = e
    BY <1>2 DEF In
  <2>2. In(e, queue) <=> \E i \in 1 .. n : queue[i] = e
    BY <1>1 DEF In
  <2>3. n + 1 \in 1 .. n + 1 /\ \A i \in 1 .. n : i \in 1 .. n + 1
    BY <1>1
  <2> QED BY <1>2, <1>3, <2>1, <2>2, <2>3
<1>7. new # <<>>
  BY <1>1, <1>2
<1> QED BY <1>5, <1>6, <1>7 DEF new

----------------------------------------------------------------------------
(***************************************************************************)
(* The original engine's book and its loops                                *)
(***************************************************************************)
\* Orders at rest in the original engine have numbers below this.
Past == IF order = None THEN sent ELSE Number

\* Levels are in range and hold queues; only the level at the price that the
\* loop is at may be empty.
LevelsOK ==
  /\ Shaped(books)
  /\ \A side \in Sides :
       /\ DOMAIN books[side] \subseteq MinTick .. MaxTick
       /\ \A p \in DOMAIN books[side] :
            /\ QueueOK(books[side][p], side, p, Past)
            /\ books[side][p] = <<>> =>
                 /\ order # None /\ side = Opposite(order.side)
                 /\ prices # {} /\ p = Legacy!Price

\* The prices to visit are those of the levels that the order may trade with,
\* all of them while something of it is left.
ToVisit ==
  /\ order = None => prices = {}
  /\ order # None =>
       /\ order \in LegacyOrders /\ order.id = Number /\ sent > 0
       /\ order.price \in MinTick .. MaxTick
       /\ prices \subseteq DOMAIN books[Opposite(order.side)]
       /\ \A p \in prices : Crosses(order.side, order.price, p)
       /\ order.remaining > 0 =>
            \A p \in DOMAIN books[Opposite(order.side)] :
              Crosses(order.side, order.price, p) => p \in prices

OldInv == sent \in Nat /\ LevelsOK /\ ToVisit

OldBook == {e \in LegacyOrders : HeldIn(e, books)}

\* m is the order that an order on this side trades with first.
First(m, resting, side, limit) ==
  /\ m \in resting
  /\ m.side = Opposite(side) /\ Crosses(side, limit, m.price)
  /\ \A q \in resting \ {m} : q.side = m.side =>
       \/ m.price # q.price /\ Crosses(m.side, m.price, q.price)
       \/ m.price = q.price /\ m.id < q.id

\* The loop is at the best of the prices.
LEMMA NextPrice ==
  ASSUME OldInv, order # None, prices # {}
  PROVE  /\ Legacy!Price \in prices /\ Legacy!Price \in Nat
         /\ Legacy!Price \in DOMAIN books[Opposite(order.side)]
         /\ \A p \in prices : p \in Nat
              /\ (p = Legacy!Price \/ Crosses(Opposite(order.side), Legacy!Price, p))
<1>1. /\ MinTick \in Nat /\ MaxTick \in Nat
      /\ order.side \in Sides /\ Opposite(order.side) \in Sides
  BY ConfigValid DEF OldInv, ToVisit, LegacyOrders, Sides, Opposite
<1>2. prices \subseteq DOMAIN books[Opposite(order.side)]
      /\ \A p \in prices : p \in Nat /\ p <= MaxTick
  BY <1>1 DEF OldInv, ToVisit, LevelsOK
<1>3. CASE order.side = "Buy"
  <2>1. \E n \in prices : \A m \in prices : n <= m
    BY <1>2, LeastNatural
  <2>2. Legacy!Min(prices) \in prices /\ \A m \in prices : Legacy!Min(prices) <= m
    BY <2>1 DEF Legacy!Min
  <2> QED BY <1>2, <1>3, <2>2 DEF Legacy!Price, Crosses, Opposite
<1>4. CASE order.side = "Sell"
  <2> DEFINE ranks == {MaxTick - p : p \in prices}
  <2>1. ranks \subseteq Nat /\ ranks # {}
    BY <1>1, <1>2
  <2> HIDE DEF ranks
  <2>2. PICK r \in ranks : \A s \in ranks : r <= s
    BY <2>1, LeastNatural
  <2>3. PICK n \in prices : r = MaxTick - n
    BY <2>2 DEF ranks
  <2>4. \A m \in prices : n >= m
    <3> SUFFICES ASSUME NEW m \in prices PROVE n >= m
      OBVIOUS
    <3>1. r <= MaxTick - m
      BY <2>2 DEF ranks
    <3> QED BY <1>1, <1>2, <2>3, <3>1
  <2>5. Legacy!Max(prices) \in prices /\ \A m \in prices : Legacy!Max(prices) >= m
    BY <2>4 DEF Legacy!Max
  <2> QED BY <1>2, <1>4, <2>5 DEF Legacy!Price, Crosses, Opposite
<1> QED BY <1>1, <1>3, <1>4 DEF Sides

\* The names of LegacyBook for the side it trades with, and its levels.
LEMMA SameNames ==
  ASSUME NEW side \in Sides
  PROVE  Legacy!OtherSide(side) = Opposite(side) /\ Opposite(side) \in Sides
         /\ Opposite(side) # side /\ Opposite(Opposite(side)) = side
BY DEF Legacy!OtherSide, Opposite, Sides

\* An order of the book is in the level of its side and price.
LEMMA OldBookFacts ==
  ASSUME OldInv, NEW e \in OldBook
  PROVE  /\ e \in LegacyOrders /\ e.side \in Sides /\ e.price \in DOMAIN books[e.side]
         /\ In(e, books[e.side][e.price]) /\ e.price \in Nat /\ e.id \in Nat
         /\ e.remaining \in Nat /\ e.remaining > 0 /\ e.id < Past
<1>1. /\ e \in LegacyOrders /\ e.side \in Sides /\ e.price \in DOMAIN books[e.side]
      /\ In(e, books[e.side][e.price]) /\ e.price \in Nat /\ e.id \in Nat
      /\ e.remaining \in Nat
  BY DEF OldBook, HeldIn, LegacyOrders
<1>2. QueueOK(books[e.side][e.price], e.side, e.price, Past)
  BY <1>1 DEF OldInv, LevelsOK
<1>3. e.remaining > 0 /\ e.id < Past
  BY <1>1, <1>2 DEF QueueOK, In
<1> QED BY <1>1, <1>3

\* The maker at the front of the queue is the one to trade with first: earlier
\* than the others at its price, which is better than the other prices.
LEMMA FrontIsFirst ==
  ASSUME OldInv, Legacy!AtMaker
  PROVE  LET m == Head(Legacy!Queue)
         IN  /\ First(m, OldBook, order.side, order.price)
             /\ m \in LegacyOrders /\ m.price = Legacy!Price
             /\ m.remaining > 0 /\ order.remaining > 0
<1> DEFINE side  == Opposite(order.side)
           price == Legacy!Price
           queue == books[side][price]
           m     == Head(queue)
<1>1. /\ order # None /\ prices # {} /\ order.remaining > 0 /\ order \in LegacyOrders
      /\ order.side \in Sides /\ side \in Sides /\ order.price \in Nat
  BY ConfigValid DEF Legacy!AtMaker, OldInv, ToVisit, LegacyOrders, Opposite, Sides
<1>2. Legacy!Queue = queue /\ queue # <<>>
  BY <1>1, SameNames DEF Legacy!AtMaker, Legacy!Queue, Legacy!Makers
<1>3. /\ price \in prices /\ price \in Nat /\ price \in DOMAIN books[side]
      /\ \A p \in prices : p \in Nat /\ (p = price \/ Crosses(side, price, p))
  BY <1>1, NextPrice
<1>4. QueueOK(queue, side, price, Past)
  BY <1>1, <1>3 DEF OldInv, LevelsOK
<1> HIDE DEF price, queue
<1>5. /\ m = queue[1] /\ 1 \in DOMAIN queue /\ m \in LegacyOrders
      /\ m.side = side /\ m.price = price /\ m.remaining > 0
  BY <1>2, <1>4, FrontGone DEF QueueOK
<1>6. m \in OldBook
  BY <1>3, <1>5 DEF OldBook, HeldIn, In, queue
<1>7. Crosses(order.side, order.price, price)
  BY <1>1, <1>3 DEF OldInv, ToVisit
<1>8. ASSUME NEW q \in OldBook \ {m}, q.side = side
      PROVE  \/ price # q.price /\ Crosses(side, price, q.price)
             \/ price = q.price /\ m.id < q.id
  <2>1. /\ q.price \in DOMAIN books[side] /\ In(q, books[side][q.price]) /\ q.price \in Nat
    BY <1>8, OldBookFacts
  <2>2. CASE q.price = price
    <3>1. PICK j \in DOMAIN queue : queue[j] = q
      BY <2>1, <2>2 DEF In, queue
    <3>2. j \in Nat /\ j >= 1 /\ j # 1
      BY <1>4, <1>5, <3>1, <1>8 DEF QueueOK
    <3>3. queue[1].id < queue[j].id
      BY <1>4, <1>5, <3>1, <3>2 DEF QueueOK
    <3> QED BY <1>5, <2>2, <3>1, <3>3
  <2>3. CASE q.price # price
    <3>1. CASE Crosses(order.side, order.price, q.price)
      <4>1. q.price \in prices
        BY <1>1, <2>1, <3>1 DEF OldInv, ToVisit
      <4> QED BY <1>3, <2>3, <4>1
    <3>2. CASE ~Crosses(order.side, order.price, q.price)
      BY <1>1, <1>3, <1>7, <2>1, <2>3, <3>2 DEF Crosses, Opposite, Sides
    <3> QED BY <3>1, <3>2
  <2> QED BY <2>2, <2>3
<1>9. First(m, OldBook, order.side, order.price)
  BY <1>5, <1>6, <1>7, <1>8 DEF First
<1> QED BY <1>1, <1>2, <1>5, <1>9 DEF price

----------------------------------------------------------------------------
(***************************************************************************)
(* The ways a side of the original book is written                         *)
(***************************************************************************)
LEMMA ShapeFacts ==
  ASSUME NEW b, Shaped(b), NEW side \in Sides
  PROVE  DOMAIN b = Sides /\ b[side] = [p \in DOMAIN b[side] |-> b[side][p]]
BY DEF Shaped

\* A side with another level map, which is itself a function.
SetLevels(b, side, levels) == [b EXCEPT ![side] = levels]

Functional(f) == f = [x \in DOMAIN f |-> f[x]]

LEMMA LevelsSet ==
  ASSUME NEW b, Shaped(b), NEW side \in Sides, NEW levels, Functional(levels),
         NEW c, c = SetLevels(b, side, levels)
  PROVE  /\ Shaped(c) /\ c[side] = levels
         /\ \A s \in Sides : s # side => c[s] = b[s]
<1>1. c = [s \in Sides |-> IF s = side THEN levels ELSE b[s]]
  BY ShapeFacts DEF SetLevels
<1>2. c[side] = levels /\ \A s \in Sides : s # side => c[s] = b[s]
  BY <1>1
<1>3. \A s \in Sides : c[s] = [r \in DOMAIN c[s] |-> c[s][r]]
  BY <1>2, ShapeFacts DEF Functional
<1>4. Shaped(c)
  BY <1>1, <1>3 DEF Shaped
<1> QED BY <1>2, <1>4

----------------------------------------------------------------------------
(***************************************************************************)
(* One turn: what trades, and what it leaves                               *)
(***************************************************************************)
\* The book without m, or with what is left of it.
After(resting, m, left) ==
  (resting \ {m}) \cup (IF left = 0 THEN {} ELSE {[m EXCEPT !.remaining = left]})

\* From one pair of a book and what is left of the order to the next, with this
\* fill: it depends on nothing that the two engines have of their own.
Turn(id, side, limit, before, after, fill) ==
  \E m \in before.resting :
    /\ First(m, before.resting, side, limit)
    /\ before.left > 0
    /\ LET qty == Min({before.left, m.remaining})
       IN  /\ fill = [maker |-> m.id, taker |-> id, price |-> m.price, qty |-> qty]
           /\ after = [resting |-> After(before.resting, m, m.remaining - qty),
                       left    |-> before.left - qty]

\* Two quantities: the smaller, and what is left of either.
LEMMA SmallerOf ==
  ASSUME NEW a \in Nat, NEW b \in Nat, a > 0, b > 0
  PROVE  /\ Min({a, b}) \in Nat /\ Min({a, b}) > 0
         /\ a - Min({a, b}) \in Nat /\ b - Min({a, b}) \in Nat
<1>1. PICK m \in Nat : m = Min({a, b}) /\ m \in {a, b} /\ m <= a /\ m <= b
  BY MinOfTwo
<1>2. m > 0 /\ a - m \in Nat /\ b - m \in Nat
  BY <1>1
<1> QED BY <1>1, <1>2

\* The order that the original engine is at keeps all but its quantity.
LEMMA OrderReduced ==
  ASSUME NEW o \in LegacyOrders, NEW q, o.remaining - q \in Nat,
         NEW n, n = [o EXCEPT !.remaining = @ - q]
  PROVE  /\ n \in LegacyOrders /\ n # None /\ n.id = o.id /\ n.side = o.side
         /\ n.price = o.price /\ n.remaining = o.remaining - q
<1>1. /\ n \in LegacyOrders /\ n.id = o.id /\ n.side = o.side
      /\ n.price = o.price /\ n.remaining = o.remaining - q
  BY DEF LegacyOrders
<1> QED BY <1>1, NoneIsNoOrder

\* The original engine takes a turn.
LEMMA MatchFrontTurns ==
  ASSUME OldInv, Legacy!MatchFront, sent' = sent
  PROVE  /\ OldInv' /\ order # None /\ order' # None
         /\ order'.side = order.side /\ order'.price = order.price
         /\ order'.id = order.id /\ order' \in LegacyOrders
         /\ \E fill :
              /\ fills' = Append(fills, fill)
              /\ Turn(Number, order.side, order.price,
                      [resting |-> OldBook,  left |-> order.remaining],
                      [resting |-> OldBook', left |-> order'.remaining], fill)
<1> DEFINE side  == Opposite(order.side)
           p     == Legacy!Price
           queue == books[side][p]
           m     == Head(queue)
           qty   == Min({order.remaining, m.remaining})
           left  == m.remaining - qty
           new   == IF left = 0 THEN Tail(queue) ELSE [queue EXCEPT ![1].remaining = left]
           fill  == [maker |-> m.id, taker |-> order.id, price |-> m.price, qty |-> qty]
<1>1. /\ Legacy!AtMaker /\ order # None /\ prices # {} /\ order.remaining > 0
      /\ order \in LegacyOrders /\ order.side \in Sides /\ side \in Sides
      /\ order.remaining \in Nat
  BY DEF Legacy!MatchFront, Legacy!AtMaker, OldInv, ToVisit, LegacyOrders, Opposite, Sides
<1>2. /\ Legacy!Queue = queue /\ queue # <<>> /\ Legacy!OtherSide(order.side) = side
  BY <1>1, SameNames DEF Legacy!AtMaker, Legacy!Queue, Legacy!Makers
<1>3. p \in prices /\ p \in Nat /\ p \in DOMAIN books[side]
  BY <1>1, NextPrice
<1>4. Shaped(books) /\ QueueOK(queue, side, p, Past)
  BY <1>1, <1>3 DEF OldInv, LevelsOK
<1>5. /\ First(m, OldBook, order.side, order.price)
      /\ m \in LegacyOrders /\ m.remaining \in Nat /\ m.remaining > 0 /\ m = queue[1]
  <2>1. /\ First(m, OldBook, order.side, order.price)
        /\ m \in LegacyOrders /\ m.remaining > 0
    BY <1>1, <1>2, FrontIsFirst
  <2>2. m = queue[1]
    BY <1>2, <1>4, FrontGone
  <2> QED BY <2>1, <2>2 DEF LegacyOrders
<1>6. qty \in Nat /\ left \in Nat /\ order.remaining - qty \in Nat
  BY <1>1, <1>5, SmallerOf
<1>7. /\ order' = [order EXCEPT !.remaining = @ - qty]
      /\ books' = [books EXCEPT ![side][p] = new]
      /\ fills' = Append(fills, fill) /\ prices' = prices
  <2>1. Legacy!Min({order.remaining, m.remaining}) = qty
    BY DEF Legacy!Min, Min
  <2> QED BY <1>2, <2>1 DEF Legacy!MatchFront
<1> HIDE DEF qty
<1>8. /\ order' \in LegacyOrders /\ order' # None /\ order'.id = order.id
      /\ order'.side = order.side /\ order'.price = order.price
      /\ order'.remaining = order.remaining - qty
  BY <1>1, <1>6, <1>7, OrderReduced
<1>9. /\ QueueOK(new, side, p, Past)
      /\ \A e : In(e, new) <=> \/ In(e, queue) /\ e # m
                               \/ left # 0 /\ e = [m EXCEPT !.remaining = left]
  <2> HIDE DEF left, queue, p, side
  <2>1. CASE left = 0
    <3>1. /\ QueueOK(Tail(queue), side, p, Past)
          /\ \A e : In(e, Tail(queue)) <=> In(e, queue) /\ e # queue[1]
      BY <1>2, <1>4, FrontGone
    <3> QED BY <1>5, <2>1, <3>1
  <2>2. CASE left # 0
    <3>1. left > 0
      BY <1>6, <2>2
    <3>2. /\ QueueOK([queue EXCEPT ![1].remaining = left], side, p, Past)
          /\ \A e : In(e, [queue EXCEPT ![1].remaining = left]) <=>
                      (In(e, queue) /\ e # queue[1])
                      \/ e = [queue[1] EXCEPT !.remaining = left]
      BY <1>2, <1>4, <1>6, <3>1, FrontReduced
    <3> QED BY <1>5, <2>2, <3>2
  <2> QED BY <2>1, <2>2
<1>10. m.side = side /\ m.price = p /\ (left # 0 =>
         LET u == [m EXCEPT !.remaining = left]
         IN  u \in LegacyOrders /\ u.side = side /\ u.price = p)
  <2>1. m.side = side /\ m.price = p
    BY <1>1, <1>2, <1>5, FrontIsFirst DEF First
  <2>2. LET u == [m EXCEPT !.remaining = left]
        IN  u \in LegacyOrders /\ u.side = m.side /\ u.price = m.price
    <3> HIDE DEF m, left
    <3> QED BY <1>5, <1>6 DEF LegacyOrders
  <2> QED BY <2>1, <2>2
<1>11. PICK to : to = new
  OBVIOUS
<1>12. /\ Shaped(books')
       /\ \A s \in Sides : /\ DOMAIN books'[s] = DOMAIN books[s]
                           /\ \A r \in DOMAIN books[s] :
                                books'[s][r] = IF s = side /\ r = p THEN to ELSE books[s][r]
  <2> HIDE DEF p, side, new, queue
  <2>1. books[side] = [r \in DOMAIN books[side] |-> books[side][r]]
    BY <1>1, <1>4, ShapeFacts
  <2>2. PICK levels : levels = [books[side] EXCEPT ![p] = to]
    OBVIOUS
  <2>3. levels = [r \in DOMAIN books[side] |-> IF r = p THEN to ELSE books[side][r]]
    BY <2>1, <2>2
  <2>4. books' = SetLevels(books, side, levels)
    BY <1>7, <1>11, <2>2 DEF SetLevels
  <2>5. Functional(levels)
    BY <2>3 DEF Functional
  <2>6. /\ Shaped(books') /\ books'[side] = levels
        /\ \A s \in Sides : s # side => books'[s] = books[s]
    BY ONLY <1>1, <1>4, <2>4, <2>5, LevelsSet
  <2> QED BY <2>3, <2>6
<1>13. Legacy!Price' = p /\ Past' = Past
  BY <1>1, <1>7, <1>8 DEF Legacy!Price, Past, Number
<1> HIDE DEF p, side, new, left, m, fill
<1>14. LevelsOK'
  <2>1. ASSUME NEW s \in Sides
        PROVE  /\ DOMAIN books'[s] \subseteq MinTick .. MaxTick
               /\ \A r \in DOMAIN books'[s] :
                    /\ QueueOK(books'[s][r], s, r, Past)
                    /\ books'[s][r] = <<>> => s = side /\ r = p
    <3>1. \A r \in DOMAIN books[s] :
            QueueOK(books[s][r], s, r, Past) /\ (books[s][r] = <<>> => s = side /\ r = p)
      BY DEF OldInv, LevelsOK, side, p
    <3>2. DOMAIN books[s] \subseteq MinTick .. MaxTick
      BY DEF OldInv, LevelsOK
    <3> QED BY <1>9, <1>11, <1>12, <3>1, <3>2
  <2> QED BY <1>1, <1>7, <1>8, <1>12, <1>13, <2>1 DEF LevelsOK, side
<1>15. ToVisit'
  <2>1. order'.remaining > 0 => order.remaining > 0
    BY <1>1
  <2>2. Opposite(order'.side) = side /\ DOMAIN books'[side] = DOMAIN books[side]
    BY <1>1, <1>8, <1>12 DEF side
  <2> QED BY <1>1, <1>7, <1>8, <2>1, <2>2 DEF OldInv, ToVisit, Number, side
<1>16. OldBook' = After(OldBook, m, left)
  <2> DEFINE u == [m EXCEPT !.remaining = left]
  <2>1. m \in LegacyOrders /\ (left # 0 => u \in LegacyOrders)
    BY <1>5, <1>10
  <2>2. /\ m.side = side /\ m.price = p
        /\ left # 0 => u.side = side /\ u.price = p
    BY <1>10
  <2> HIDE DEF u
  <2>3. \A e \in LegacyOrders : HeldIn(e, books') <=> (HeldIn(e, books) /\ e # m)
                                                      \/ (left # 0 /\ e = u)
    <3> SUFFICES ASSUME NEW e \in LegacyOrders
                 PROVE  HeldIn(e, books') <=> (HeldIn(e, books) /\ e # m)
                                              \/ (left # 0 /\ e = u)
      OBVIOUS
    <3>1. e.side \in Sides
      BY DEF LegacyOrders
    <3>2. CASE e.side = side /\ e.price = p
      <4>1. HeldIn(e, books') <=> In(e, to)
        BY <1>1, <1>3, <1>12, <3>2 DEF HeldIn
      <4>2. HeldIn(e, books) <=> In(e, queue)
        BY <1>3, <3>2 DEF HeldIn
      <4> QED BY <1>9, <1>11, <4>1, <4>2 DEF u
    <3>3. CASE ~(e.side = side /\ e.price = p)
      <4>1. HeldIn(e, books') <=> HeldIn(e, books)
        BY <1>12, <3>1, <3>3 DEF HeldIn
      <4> QED BY <2>2, <3>3, <4>1
    <3> QED BY <3>2, <3>3
  <2>4. OldBook' = {e \in LegacyOrders : HeldIn(e, books')}
    BY DEF OldBook
  <2>5. OldBook' = (OldBook \ {m}) \cup (IF left = 0 THEN {} ELSE {u})
    BY <2>1, <2>3, <2>4 DEF OldBook
  <2> QED BY <2>5 DEF After, u
<1>17. Turn(Number, order.side, order.price, [resting |-> OldBook,  left |-> order.remaining],
            [resting |-> OldBook', left |-> order'.remaining], fill)
  <2>1. order.id = Number
    BY <1>1 DEF OldInv, ToVisit
  <2>2. m \in OldBook
    BY <1>5 DEF First
  <2>3. fill = [maker |-> m.id, taker |-> Number, price |-> m.price,
                qty |-> Min({order.remaining, m.remaining})]
    BY <2>1 DEF fill, qty
  <2>4. /\ OldBook' = After(OldBook, m, m.remaining - Min({order.remaining, m.remaining}))
        /\ order'.remaining = order.remaining - Min({order.remaining, m.remaining})
    BY <1>8, <1>16 DEF left, qty
  <2>5. Turn(Number, order.side, order.price, [resting |-> OldBook,  left |-> order.remaining],
             [resting |-> OldBook', left |-> order'.remaining], fill)
    <3> DEFINE b == [resting |-> OldBook,  left |-> order.remaining]
    <3>1. b.resting = OldBook /\ b.left = order.remaining
      OBVIOUS
    <3> HIDE DEF b
    <3>2. Turn(Number, order.side, order.price, b, [resting |-> OldBook', left |-> order'.remaining], fill)
      BY <1>1, <1>5, <2>2, <2>3, <2>4, <3>1 DEF Turn
    <3> QED BY <3>2 DEF b
  <2> QED BY <2>5
<1>18. OldInv'
  BY <1>14, <1>15 DEF OldInv
<1> QED BY <1>1, <1>7, <1>8, <1>17, <1>18

\* The original engine leaves a price: if its level is empty it goes.
LEMMA LeavePriceKeepsBook ==
  ASSUME OldInv, Legacy!LeavePrice, sent' = sent
  PROVE  OldInv' /\ OldBook' = OldBook /\ order # None
<1> DEFINE side  == Opposite(order.side)
           p     == Legacy!Price
           queue == books[side][p]
<1>1. /\ order # None /\ prices # {} /\ order' = order
      /\ order \in LegacyOrders /\ order.side \in Sides /\ side \in Sides
  BY DEF Legacy!LeavePrice, OldInv, ToVisit, LegacyOrders, Opposite, Sides
<1>2. Legacy!Queue = queue /\ Legacy!Makers = books[side] /\ Legacy!OtherSide(order.side) = side
  BY <1>1, SameNames DEF Legacy!Queue, Legacy!Makers
<1>3. /\ order.remaining = 0 \/ queue = <<>>
      /\ books' = IF queue # <<>> THEN books
                  ELSE [books EXCEPT ![side] = [r \in DOMAIN books[side] \ {p} |-> books[side][r]]]
      /\ prices' = IF order.remaining = 0 THEN {} ELSE prices \ {p}
  BY <1>2 DEF Legacy!LeavePrice
<1>4. p \in prices /\ p \in DOMAIN books[side]
  BY <1>1, NextPrice
<1>5. Shaped(books) /\ Past' = Past /\ Number' = Number
  BY <1>1 DEF OldInv, LevelsOK, Past, Number
<1>6. \A s \in Sides :
        /\ DOMAIN books[s] \subseteq MinTick .. MaxTick
        /\ \A r \in DOMAIN books[s] :
             /\ QueueOK(books[s][r], s, r, Past)
             /\ books[s][r] = <<>> => s = side /\ r = p
  BY DEF OldInv, LevelsOK
<1> HIDE DEF side, p
<1>7. /\ Shaped(books')
      /\ \A s \in Sides :
           /\ DOMAIN books'[s] = IF s = side /\ queue = <<>> THEN DOMAIN books[s] \ {p}
                                                             ELSE DOMAIN books[s]
           /\ \A r \in DOMAIN books'[s] : books'[s][r] = books[s][r]
  <2>1. CASE queue # <<>>
    BY <1>3, <1>5, <2>1
  <2>2. CASE queue = <<>>
    <3>1. PICK levels : levels = [r \in DOMAIN books[side] \ {p} |-> books[side][r]]
      OBVIOUS
    <3>2. books' = SetLevels(books, side, levels) /\ Functional(levels)
      BY <1>3, <2>2, <3>1 DEF SetLevels, Functional
    <3>3. /\ Shaped(books') /\ books'[side] = levels
          /\ \A s \in Sides : s # side => books'[s] = books[s]
      BY ONLY <1>1, <1>5, <3>2, LevelsSet
    <3> QED BY <2>2, <3>1, <3>3
  <2> QED BY <2>1, <2>2
<1>8. LevelsOK'
  <2>1. ASSUME NEW s \in Sides, NEW r \in DOMAIN books'[s]
        PROVE  QueueOK(books'[s][r], s, r, Past) /\ books'[s][r] # <<>>
    <3>1. r \in DOMAIN books[s] /\ books'[s][r] = books[s][r]
      BY <1>7, <2>1
    <3>2. CASE books[s][r] = <<>>
      BY <1>6, <1>7, <2>1, <3>1, <3>2
    <3> QED BY <1>6, <3>1, <3>2
  <2>2. ASSUME NEW s \in Sides PROVE DOMAIN books'[s] \subseteq MinTick .. MaxTick
    BY <1>6, <1>7
  <2> QED BY <1>5, <1>7, <2>1, <2>2 DEF LevelsOK
<1>9. ToVisit'
  <2>1. /\ order.id = Number /\ sent > 0 /\ order.price \in MinTick .. MaxTick
        /\ prices \subseteq DOMAIN books[side]
        /\ \A r \in prices : Crosses(order.side, order.price, r)
        /\ order.remaining > 0 =>
             \A r \in DOMAIN books[side] : Crosses(order.side, order.price, r) => r \in prices
    BY <1>1 DEF OldInv, ToVisit, side
  <2>2. /\ prices' \subseteq DOMAIN books'[side]
        /\ prices' \subseteq prices
        /\ order.remaining > 0 => prices' = prices \ {p} /\ p \notin DOMAIN books'[side]
                                  /\ DOMAIN books'[side] \subseteq DOMAIN books[side]
    <3>1. CASE order.remaining = 0
      BY <1>3, <3>1
    <3>2. CASE order.remaining # 0
      BY <1>1, <1>3, <1>7, <2>1, <3>2
    <3> QED BY <3>1, <3>2
  <2> QED BY <1>1, <1>5, <2>1, <2>2 DEF ToVisit, side
<1>10. OldBook' = OldBook
  <2>1. ASSUME NEW e \in LegacyOrders PROVE HeldIn(e, books') <=> HeldIn(e, books)
    <3>1. e.side \in Sides
      BY DEF LegacyOrders
    <3>2. CASE queue = <<>> /\ e.side = side /\ e.price = p
      <4>1. ~HeldIn(e, books')
        BY <1>7, <3>1, <3>2 DEF HeldIn
      <4>2. DOMAIN <<>> = {} /\ books[side][p] = <<>>
        BY <3>2
      <4>3. ~In(e, books[e.side][e.price])
        BY <3>2, <4>2 DEF In
      <4> QED BY <4>1, <4>3 DEF HeldIn
    <3>3. CASE ~(queue = <<>> /\ e.side = side /\ e.price = p)
      BY <1>7, <3>1, <3>3 DEF HeldIn
    <3> QED BY <3>2, <3>3
  <2> QED BY <2>1 DEF OldBook
<1> QED BY <1>1, <1>8, <1>9, <1>10 DEF OldInv

\* What is added of an order when its turns are over.
Added(id, side, price, left) ==
  IF left = 0 THEN {}
  ELSE {[id |-> id, side |-> side, price |-> price, remaining |-> left]}

\* There is no turn to take.
Over(side, limit, at) ==
  \/ at.left = 0
  \/ \A m \in at.resting : m.side = Opposite(side) => ~Crosses(side, limit, m.price)

\* A queue stays one with a higher bound.
LEMMA HigherBound ==
  ASSUME NEW queue, NEW side, NEW p, NEW bound \in Nat, QueueOK(queue, side, p, bound)
  PROVE  QueueOK(queue, side, p, bound + 1)
<1>1. \A i \in DOMAIN queue : queue[i] \in LegacyOrders
  BY DEF QueueOK
<1>2. \A i \in DOMAIN queue : queue[i].id < bound + 1
  BY <1>1 DEF QueueOK, LegacyOrders
<1> QED BY <1>2 DEF QueueOK

\* The original engine is done with its order and adds what is left of it.
LEMMA EndOrderAdds ==
  ASSUME OldInv, Legacy!EndOrder, sent' = sent
  PROVE  /\ OldInv' /\ order # None /\ order' = None
         /\ OldBook' = OldBook \cup
                         Added(Number, order.side, order.price, order.remaining)
         /\ Over(order.side, order.price, [resting |-> OldBook, left |-> order.remaining])
<1>1. /\ order # None /\ order' = None /\ prices = {} /\ prices' = {}
      /\ order \in LegacyOrders /\ order.side \in Sides /\ order.remaining \in Nat
      /\ order.id = Number /\ sent > 0 /\ sent \in Nat
      /\ order.price \in MinTick .. MaxTick
  BY DEF Legacy!EndOrder, OldInv, ToVisit, LegacyOrders
<1>2. /\ Past = Number /\ Past' = Past + 1 /\ Past \in Nat
  BY <1>1 DEF Past, Number
<1>3. Shaped(books)
  BY DEF OldInv, LevelsOK
<1>4. \A s \in Sides :
        /\ DOMAIN books[s] \subseteq MinTick .. MaxTick
        /\ \A r \in DOMAIN books[s] :
             QueueOK(books[s][r], s, r, Past) /\ books[s][r] # <<>>
  BY <1>1 DEF OldInv, LevelsOK
<1>5. \A s \in Sides : \A r \in DOMAIN books[s] : QueueOK(books[s][r], s, r, Past')
  <2> SUFFICES ASSUME NEW s \in Sides, NEW r \in DOMAIN books[s]
               PROVE  QueueOK(books[s][r], s, r, Past + 1)
    BY <1>2
  <2> QED BY <1>2, <1>4, HigherBound
<1>6. Over(order.side, order.price, [resting |-> OldBook, left |-> order.remaining])
  <2>1. CASE order.remaining = 0
    BY <2>1 DEF Over
  <2>2. CASE order.remaining > 0
    <3>1. \A r \in DOMAIN books[Opposite(order.side)] : ~Crosses(order.side, order.price, r)
      BY <1>1, <2>2 DEF OldInv, ToVisit
    <3>2. \A m \in OldBook : m.price \in DOMAIN books[m.side]
      BY OldBookFacts
    <3> QED BY <3>1, <3>2 DEF Over
  <2> QED BY <1>1, <2>1, <2>2
<1>7. CASE order.remaining = 0
  <2>1. books' = books
    BY <1>7 DEF Legacy!EndOrder
  <2>2. LevelsOK'
    BY <1>3, <1>4, <1>5, <2>1 DEF LevelsOK
  <2>3. ToVisit'
    BY <1>1 DEF ToVisit
  <2>4. OldBook' = OldBook /\ Added(Number, order.side, order.price, order.remaining) = {}
    BY <1>7, <2>1 DEF OldBook, Added
  <2> QED BY <1>1, <1>6, <2>2, <2>3, <2>4 DEF OldInv
<1>8. CASE order.remaining # 0
  <2> DEFINE o == order
             queue == Legacy!QueueAt(books[o.side], o.price)
  <2>1. books' = [books EXCEPT ![o.side] = Legacy!AddOrder(@, o)]
    BY <1>8 DEF Legacy!EndOrder
  <2>2. /\ Shaped(books') /\ o.price \in DOMAIN books'[o.side]
        /\ books'[o.side][o.price] = Append(queue, o)
        /\ \A s \in Sides :
             /\ DOMAIN books'[s] = IF s = o.side THEN DOMAIN books[s] \cup {o.price}
                                                 ELSE DOMAIN books[s]
             /\ \A r \in DOMAIN books'[s] :
                  s # o.side \/ r # o.price => books'[s][r] = books[s][r]
    <3> DEFINE levels == Legacy!AddOrder(books[o.side], o)
    <3>1. /\ DOMAIN levels = DOMAIN books[o.side] \cup {o.price}
          /\ levels[o.price] = Append(queue, o)
          /\ \A r \in DOMAIN levels : r # o.price => levels[r] = books[o.side][r]
          /\ Functional(levels)
      BY DEF Legacy!AddOrder, Functional
    <3>2. books' = SetLevels(books, o.side, levels)
      BY <2>1 DEF SetLevels
    <3> HIDE DEF levels, queue
    <3>3. /\ Shaped(books') /\ books'[o.side] = levels
          /\ \A s \in Sides : s # o.side => books'[s] = books[s]
      BY ONLY <1>1, <1>3, <3>1, <3>2, LevelsSet
    <3> QED BY <1>1, <3>1, <3>3
  <2>3. QueueOK(queue, o.side, o.price, Past)
    <3>1. CASE o.price \in DOMAIN books[o.side]
      BY <1>1, <1>4, <3>1 DEF Legacy!QueueAt
    <3>2. CASE o.price \notin DOMAIN books[o.side]
      <4>1. queue = <<>>
        BY <3>2 DEF Legacy!QueueAt
      <4>2. <<>> \in Seq(LegacyOrders) /\ DOMAIN <<>> = {}
        OBVIOUS
      <4> QED BY <4>1, <4>2 DEF QueueOK
    <3> QED BY <3>1, <3>2
  <2>4. /\ QueueOK(Append(queue, o), o.side, o.price, Past') /\ Append(queue, o) # <<>>
        /\ \A e : In(e, Append(queue, o)) <=> In(e, queue) \/ e = o
    <3>1. o.id = Past /\ o.remaining > 0
      BY <1>1, <1>2, <1>8
    <3> HIDE DEF queue
    <3>2. /\ QueueOK(Append(queue, o), o.side, o.price, Past + 1) /\ Append(queue, o) # <<>>
          /\ \A e : In(e, Append(queue, o)) <=> In(e, queue) \/ e = o
      BY <1>1, <1>2, <2>3, <3>1, BackAdded
    <3> QED BY <1>2, <3>2
  <2> HIDE DEF queue
  <2>5. LevelsOK'
    <3>1. ASSUME NEW s \in Sides, NEW r \in DOMAIN books'[s]
          PROVE  QueueOK(books'[s][r], s, r, Past') /\ books'[s][r] # <<>>
      <4>1. CASE s = o.side /\ r = o.price
        BY <2>2, <2>4, <4>1
      <4>2. CASE ~(s = o.side /\ r = o.price)
        <5>1. r \in DOMAIN books[s] /\ books'[s][r] = books[s][r]
          BY ZenonT(40), <2>2, <3>1, <4>2
        <5> QED BY <1>4, <1>5, <5>1
      <4> QED BY <4>1, <4>2
    <3>2. ASSUME NEW s \in Sides PROVE DOMAIN books'[s] \subseteq MinTick .. MaxTick
      <4>1. DOMAIN books'[s] = IF s = o.side THEN DOMAIN books[s] \cup {o.price}
                                             ELSE DOMAIN books[s]
        BY <2>2
      <4>2. DOMAIN books[s] \subseteq MinTick .. MaxTick /\ o.price \in MinTick .. MaxTick
        BY <1>1, <1>4
      <4> QED BY <4>1, <4>2
    <3> QED BY <2>2, <3>1, <3>2 DEF LevelsOK
  <2>6. ToVisit'
    BY <1>1 DEF ToVisit
  <2>7. OldBook' = OldBook \cup {o}
    <3>1. ASSUME NEW e \in LegacyOrders PROVE HeldIn(e, books') <=> HeldIn(e, books) \/ e = o
      <4>1. e.side \in Sides
        BY DEF LegacyOrders
      <4>2. CASE e.side = o.side /\ e.price = o.price
        <5>1. HeldIn(e, books') <=> In(e, queue) \/ e = o
          BY <2>2, <2>4, <4>2 DEF HeldIn
        <5>2. HeldIn(e, books) <=> In(e, queue)
          <6>1. CASE o.price \in DOMAIN books[o.side]
            BY <4>2, <6>1 DEF HeldIn, queue, Legacy!QueueAt
          <6>2. CASE o.price \notin DOMAIN books[o.side]
            <7>1. queue = <<>> /\ DOMAIN <<>> = {}
              BY <6>2 DEF queue, Legacy!QueueAt
            <7> QED BY <4>2, <6>2, <7>1 DEF HeldIn, In
          <6> QED BY <6>1, <6>2
        <5> QED BY <5>1, <5>2
      <4>3. CASE ~(e.side = o.side /\ e.price = o.price)
        <5>1. e # o
          BY <4>3
        <5>2. e.side = o.side => e.price # o.price
          BY <4>3
        <5> HIDE DEF o
        <5>3. e.price \in DOMAIN books'[e.side] <=> e.price \in DOMAIN books[e.side]
          BY ONLY ZenonT(40), <2>2, <4>1, <5>2
        <5>4. e.price \in DOMAIN books'[e.side] =>
                books'[e.side][e.price] = books[e.side][e.price]
          BY ONLY <2>2, <4>1, <5>2
        <5> QED BY ONLY <5>1, <5>3, <5>4 DEF HeldIn
      <4> QED BY <4>2, <4>3
    <3>2. o \in LegacyOrders
      BY <1>1
    <3> QED BY <3>1, <3>2 DEF OldBook
  <2>8. Added(Number, order.side, order.price, order.remaining) = {o}
    <3>1. o = [id |-> o.id, side |-> o.side, price |-> o.price, remaining |-> o.remaining]
      BY <1>1 DEF LegacyOrders
    <3> QED BY <1>1, <1>8, <3>1 DEF Added
  <2> QED BY <1>1, <1>6, <2>5, <2>6, <2>7, <2>8 DEF OldInv
<1> QED BY <1>7, <1>8

\* The original engine is given an order.
LEMMA ProcessOrderKeepsBook ==
  ASSUME OldInv, sent' = sent + 1, NEW side \in Sides, NEW price \in InputPrices,
         NEW qty \in InputQtys, Legacy!ProcessOrder(sent, side, price, qty)
  PROVE  /\ OldInv' /\ OldBook' = OldBook /\ order = None /\ order' # None
         /\ order'.side = side /\ order'.price = price /\ order'.remaining = qty
         /\ order' \in LegacyOrders /\ fills' = <<>>
<1>1. /\ order = None /\ books' = books /\ fills' = <<>>
      /\ order' = [id |-> sent, side |-> side, price |-> price, remaining |-> qty]
      /\ prices' = Legacy!MatchablePrices(side, price)
  BY DEF Legacy!ProcessOrder
<1>2. /\ sent \in Nat /\ price \in MinTick .. MaxTick /\ price \in Nat /\ qty \in Nat
  BY FlowAllowed, InputsValid, ConfigValid DEF OldInv
<1>3. /\ order' \in LegacyOrders /\ order' # None /\ order'.id = sent
      /\ order'.side = side /\ order'.price = price /\ order'.remaining = qty
  BY <1>1, <1>2, NoneIsNoOrder DEF LegacyOrders
<1>4. prices' = {p \in DOMAIN books[Opposite(side)] : Crosses(side, price, p)}
  BY <1>1, SameNames DEF Legacy!MatchablePrices, Crosses
<1>5. Past' = Past /\ Number' = sent /\ sent' > 0 /\ sent' \in Nat
  BY <1>1, <1>2, <1>3 DEF Past, Number
<1>6. LevelsOK'
  BY <1>1, <1>5 DEF OldInv, LevelsOK
<1>7. ToVisit'
  BY <1>1, <1>2, <1>3, <1>4, <1>5 DEF ToVisit
<1> QED BY <1>1, <1>3, <1>5, <1>6, <1>7 DEF OldInv, OldBook

----------------------------------------------------------------------------
(***************************************************************************)
(* The turns between the two engines                                       *)
(***************************************************************************)
NewBook == {LegacyForm(o) : o \in orders}

\* How many trades of the order the new engine has made.
Made == Cardinality(Events("Trade"))

\* at[i] is the book after i turns of the order, and what is left of the order,
\* from where the new engine is to where the original one is or was.
IsTrail(at) ==
  LET last == at[Len(fills)]
  IN  /\ \A i \in Made + 1 .. Len(fills) :
           Turn(Number, taker.side, taker.kind.price, at[i - 1], at[i], fills[i])
      /\ at[Made] = [resting |-> NewBook, left |-> taker.remaining]
      /\ order # None => last = [resting |-> OldBook, left |-> order.remaining]
      /\ order = None => /\ Over(taker.side, taker.kind.price, last)
                         /\ OldBook = last.resting \cup
                              Added(Number, taker.side, taker.kind.price, last.left)

Together ==
  /\ IsSequence(fills) /\ Made <= Len(fills)
  /\ \A i \in Events("Trade") : fills[Nth(i)] = AsFill(out[i])
  /\ order # None => /\ taker # None /\ pc = "submit"
                     /\ order.side = taker.side /\ order.price = taker.kind.price
  /\ taker # None => \E at : IsTrail(at)
  /\ taker = None => OldBook = NewBook
  /\ pc = "done" => Made = Len(fills)

BothInv == NewInv /\ OldInv /\ Together

\* The trades are counted.
LEMMA TradesCounted ==
  ASSUME IsSequence(out)
  PROVE  /\ IsFiniteSet(Events("Trade")) /\ Made \in Nat /\ Len(out) \in Nat
         /\ \A i \in Events("Trade") : i \in Nat /\ i <= Len(out)
<1>1. Len(out) \in Nat /\ DOMAIN out = 1 .. Len(out)
  BY DEF IsSequence
<1>2. IsFiniteSet(1 .. Len(out))
  BY <1>1, FS_Interval
<1>3. Events("Trade") \subseteq 1 .. Len(out)
  BY <1>1 DEF Events
<1>4. IsFiniteSet(Events("Trade"))
  BY <1>2, <1>3, FS_Subset
<1> QED BY <1>1, <1>3, <1>4, FS_CardinalityType DEF Made

\* No event, no trade.
LEMMA NoTrades ==
  ASSUME out = <<>>
  PROVE  Events("Trade") = {} /\ Made = 0
<1>1. Events("Trade") = {}
  BY DEF Events
<1> QED BY <1>1, FS_EmptySet DEF Made

\* The first maker is one only.
LEMMA FirstIsOne ==
  ASSUME NEW resting \in SUBSET LegacyOrders, NEW side, NEW limit,
         NEW m, NEW n, First(m, resting, side, limit), First(n, resting, side, limit)
  PROVE  m = n
<1> SUFFICES ASSUME m # n PROVE FALSE
  OBVIOUS
<1>1. /\ m \in LegacyOrders /\ n \in LegacyOrders /\ m.side = n.side
      /\ m.price \in Nat /\ n.price \in Nat /\ m.id \in Nat /\ n.id \in Nat
  BY DEF First, LegacyOrders
<1>2. \/ m.price # n.price /\ Crosses(m.side, m.price, n.price)
      \/ m.price = n.price /\ m.id < n.id
  BY <1>1 DEF First
<1>3. \/ n.price # m.price /\ Crosses(n.side, n.price, m.price)
      \/ n.price = m.price /\ n.id < m.id
  BY <1>1 DEF First
<1> QED BY <1>1, <1>2, <1>3 DEF Crosses

\* An order of the new engine, as the original keeps it.
LEMMA FormFacts ==
  ASSUME NewInv, NEW o \in orders
  PROVE  /\ LegacyForm(o) \in LegacyOrders /\ LegacyForm(o).id = o.account
         /\ LegacyForm(o).side = o.side /\ LegacyForm(o).price = o.price
         /\ LegacyForm(o).remaining = o.remaining
         /\ o.price \in Nat /\ o.remaining \in Nat /\ o.account \in Nat
         /\ \A p \in orders : LegacyForm(p) = LegacyForm(o) => p = o
<1>1. o \in Orders /\ o.account \in Nat
  BY OrderFacts, SentFacts DEF NewInv, Inv
<1>2. /\ LegacyForm(o) \in LegacyOrders /\ LegacyForm(o).id = o.account
      /\ LegacyForm(o).side = o.side /\ LegacyForm(o).price = o.price
      /\ LegacyForm(o).remaining = o.remaining
      /\ o.price \in Nat /\ o.remaining \in Nat
  BY <1>1 DEF LegacyForm, LegacyOrders, Orders
<1>3. ASSUME NEW p \in orders, LegacyForm(p) = LegacyForm(o) PROVE p = o
  <2>1. p.account = o.account
    BY <1>3 DEF LegacyForm
  <2> QED BY <2>1, AccountsDistinct
<1> QED BY <1>1, <1>2, <1>3

\* Price and account order the makers as price and sequence number do.
LEMMA MakerIsFirst ==
  ASSUME NewInv, Matching
  PROVE  First(LegacyForm(Maker), NewBook, taker.side, taker.kind.price)
<1>1. PICK o \in orders : o = Maker
  BY MakerRests DEF NewInv
<1>2. /\ o.side = Opposite(taker.side) /\ Crosses(taker.side, Limit, o.price)
      /\ \A p \in OrdersOn(Opposite(taker.side)) \ {o} : Before(o, p)
  BY <1>1, MakerRests DEF NewInv
<1>3. Limit = taker.kind.price
  <2>1. taker # None
    BY MakerFacts
  <2>2. taker.kind.price \in InputPrices
    BY <2>1 DEF NewInv, Phases
  <2> QED BY <2>2, InputsValid DEF Limit, LimitOf
<1>4. /\ LegacyForm(o).side = o.side /\ LegacyForm(o).price = o.price
      /\ LegacyForm(o).id = o.account /\ LegacyForm(o) \in NewBook
  BY FormFacts DEF NewBook
<1>5. ASSUME NEW p \in orders, LegacyForm(p) # LegacyForm(o), LegacyForm(p).side = o.side
      PROVE  LET q == LegacyForm(p)
             IN  \/ o.price # q.price /\ Crosses(o.side, o.price, q.price)
                 \/ o.price = q.price /\ o.account < q.id
  <2>1. /\ LegacyForm(p).side = p.side /\ LegacyForm(p).price = p.price
        /\ LegacyForm(p).id = p.account
    BY FormFacts
  <2>2. p \in OrdersOn(Opposite(taker.side)) \ {o}
    BY <1>2, <1>5, <2>1 DEF OrdersOn
  <2>3. Before(o, p)
    BY <1>2, <2>2
  <2>4. o.seq < p.seq => o.account < p.account
    BY DEF NewInv, Numbered
  <2> QED BY <2>1, <2>3, <2>4 DEF Before
<1>6. \A q \in NewBook \ {LegacyForm(o)} : q.side = o.side =>
        \/ o.price # q.price /\ Crosses(o.side, o.price, q.price)
        \/ o.price = q.price /\ o.account < q.id
  BY <1>5 DEF NewBook
<1> QED BY <1>1, <1>2, <1>3, <1>4, <1>6 DEF First

\* The loop goes on exactly if there is a turn to take.
LEMMA LoopIsOver ==
  ASSUME NewInv, pc = "match", NEW at,
         at = [resting |-> NewBook, left |-> taker.remaining]
  PROVE  /\ Matching => ~Over(taker.side, taker.kind.price, at)
         /\ ~Matching => \A after, fill :
              ~Turn(Number, taker.side, taker.kind.price, at, after, fill)
<1>0. at.resting = NewBook /\ at.left = taker.remaining
  OBVIOUS
<1>1. taker # None /\ taker \in Takers
  BY NoneIsNoTaker DEF NewInv, Inv, ControlTypeOK
<1>2. /\ Limit = taker.kind.price /\ taker.kind.price \in Nat /\ taker.side \in Sides
      /\ taker.remaining \in Nat
  <2>1. taker.kind.price \in InputPrices
    BY <1>1 DEF NewInv, Phases
  <2> QED BY <1>1, <2>1, InputsValid DEF Limit, LimitOf, Takers
<1>3. ASSUME Matching PROVE ~Over(taker.side, taker.kind.price, at)
  <2>1. First(LegacyForm(Maker), NewBook, taker.side, taker.kind.price)
    BY <1>3, MakerIsFirst
  <2>2. taker.remaining # 0
    BY <1>3, <1>2 DEF Matching
  <2> QED BY <1>0, <2>1, <2>2 DEF Over, First
<1>4. ASSUME ~Matching, NEW after, NEW fill,
             Turn(Number, taker.side, taker.kind.price, at, after, fill)
      PROVE  FALSE
  <2>1. PICK m \in NewBook : First(m, NewBook, taker.side, taker.kind.price)
    BY <1>0, <1>4 DEF Turn
  <2>2. taker.remaining > 0
    BY <1>0, <1>4 DEF Turn
  <2>3. PICK o \in orders : m = LegacyForm(o)
    BY DEF NewBook
  <2>4. o.side = Opposite(taker.side) /\ Crosses(taker.side, Limit, o.price)
    BY <1>2, <2>1, <2>3, FormFacts DEF First
  <2>5. ~Marketable(taker.side, Limit)
    BY <1>4, <2>2 DEF Matching
  <2> QED BY <1>2, <2>4, <2>5, NotMarketable DEF NewInv, Inv
<1> QED BY <1>3, <1>4

\* A fill changes the new engine's book as a turn does.
LEMMA FillChangesBook ==
  ASSUME NewInv, NEW o \in orders, NEW fill \in Nat, FillOf(o, fill)
  PROVE  NewBook' = After(NewBook, LegacyForm(o), o.remaining - fill)
<1> DEFINE left == o.remaining - fill
           m    == LegacyForm(o)
<1>1. NewBook' = {LegacyForm(p) : p \in orders'}
  BY DEF NewBook, LegacyForm
<1>2. \A p \in orders : LegacyForm(p) = m => p = o
  BY FormFacts
<1>3. o.remaining \in Nat /\ o \in Orders
  BY FormFacts, OrderFacts DEF NewInv, Inv
<1>4. CASE fill = o.remaining /\ UseUp(o)
  <2>1. left = 0
    BY <1>3, <1>4
  <2>2. orders' = orders \ {o}
    BY <1>4 DEF UseUp
  <2> HIDE DEF m
  <2>3. NewBook' = NewBook \ {m}
    BY <1>1, <1>2, <2>2 DEF NewBook, m
  <2> QED BY <2>1, <2>3 DEF After, m
<1>5. CASE fill < o.remaining /\ ReduceBy(o, fill)
  <2>1. left # 0
    BY <1>3, <1>5
  <2>2. PICK u : u = [o EXCEPT !.remaining = @ - fill, !.filled = @ + fill]
    OBVIOUS
  <2>3. orders' = (orders \ {o}) \cup {u}
    BY <1>5, <2>2 DEF ReduceBy
  <2>4. LegacyForm(u) = [m EXCEPT !.remaining = left]
    <3>1. /\ u.account = o.account /\ u.side = o.side /\ u.price = o.price
          /\ u.remaining = left
      BY <1>3, <2>2 DEF Orders
    <3>2. LegacyForm(u) = [id |-> o.account, side |-> o.side, price |-> o.price,
                           remaining |-> left]
      BY <3>1 DEF LegacyForm
    <3>3. [m EXCEPT !.remaining = left] =
            [id |-> o.account, side |-> o.side, price |-> o.price, remaining |-> left]
      BY DEF LegacyForm
    <3> QED BY <3>2, <3>3
  <2> HIDE DEF m, left
  <2>5. NewBook' = (NewBook \ {m}) \cup {LegacyForm(u)}
    BY <1>1, <1>2, <2>3 DEF NewBook, m
  <2>6. NewBook' = After(NewBook, m, left)
    BY <2>1, <2>4, <2>5 DEF After
  <2> QED BY <2>6 DEF m, left
<1> QED BY <1>4, <1>5 DEF FillOf

----------------------------------------------------------------------------
(***************************************************************************)
(* The two engines stay together                                           *)
(***************************************************************************)
\* One fill more at the end of a sequence.
LEMMA OneMoreFill ==
  ASSUME NEW s, IsSequence(s), NEW e
  PROVE  /\ IsSequence(Append(s, e)) /\ Len(Append(s, e)) = Len(s) + 1
         /\ Append(s, e)[Len(s) + 1] = e
         /\ \A i \in 1 .. Len(s) : Append(s, e)[i] = s[i]
<1>1. PICK S : s \in Seq(S)
  BY DEF IsSequence
<1>2. s \in Seq(S \cup {e}) /\ e \in S \cup {e}
  BY <1>1
<1>3. Append(s, e) \in Seq(S \cup {e})
  BY <1>2
<1>4. /\ Len(Append(s, e)) = Len(s) + 1 /\ Append(s, e)[Len(s) + 1] = e
      /\ \A i \in 1 .. Len(s) : Append(s, e)[i] = s[i]
  BY <1>2
<1> QED BY <1>3, <1>4 DEF IsSequence

\* Both engines are given the order: the list of books has one, the one they
\* both have.
LEMMA SendKeepsBoth ==
  ASSUME BothInv, SendOrder
  PROVE  BothInv'
<1>1. PICK side \in Sides, price \in InputPrices, qty \in InputQtys :
        /\ Legacy!ProcessOrder(sent, side, price, qty)
        /\ NewOrder(sent, side, qty, [type |-> "Gtc", price |-> price])
  BY DEF SendOrder
<1>2. sent \in Accounts /\ sent' = sent + 1 /\ placed' = placed
  BY DEF SendOrder
<1>3. NewInv'
  BY <1>1, <1>2, SendKeepsNewInv DEF BothInv
<1>4. /\ OldInv' /\ OldBook' = OldBook /\ order = None /\ order' # None
      /\ order'.side = side /\ order'.price = price /\ order'.remaining = qty
      /\ fills' = <<>>
  BY <1>1, <1>2, ProcessOrderKeepsBook DEF BothInv
<1>5. /\ pc = "ready" /\ pc' = "submit" /\ orders' = orders /\ out' = out
      /\ taker' = [account |-> sent, side |-> side,
                   kind |-> [type |-> "Gtc", price |-> price],
                   qty |-> qty, remaining |-> qty]
  BY <1>1, OrderAccepted DEF book
<1>6. taker = None /\ taker' # None /\ out = <<>>
  BY <1>3, <1>5, NoneIsNoTaker DEF BothInv, NewInv, Inv, ControlTypeOK, Phases
<1>7. taker'.side = side /\ taker'.kind.price = price /\ taker'.remaining = qty
  BY <1>5
<1>8. Events("Trade")' = {} /\ Made' = 0
  BY <1>5, <1>6, NoTrades DEF Made, Events
<1>9. NewBook' = NewBook /\ OldBook = NewBook
  BY <1>5, <1>6 DEF NewBook, BothInv, Together
<1>10. /\ IsSequence(fills') /\ Len(fills') = 0
  <2>1. <<>> \in Seq({}) /\ Len(<<>>) = 0
    OBVIOUS
  <2> QED BY <1>4, <2>1 DEF IsSequence
<1>11. (\E at : IsTrail(at))'
  <2>1. PICK b : b = [resting |-> NewBook, left |-> qty]
    OBVIOUS
  <2>2. PICK at : at = [i \in {0} |-> b]
    OBVIOUS
  <2>3. at[0] = b
    BY <2>2
  <2>4. IsTrail(at)'
    BY <1>4, <1>7, <1>8, <1>9, <1>10, <2>1, <2>3 DEF IsTrail
  <2> QED BY <2>4
<1>12. Together'
  BY <1>4, <1>5, <1>6, <1>7, <1>8, <1>10, <1>11 DEF Together
<1> QED BY <1>3, <1>4, <1>12 DEF BothInv

\* The original engine lengthens the list by a turn, or comes to its end.
LEMMA LegacyKeepsBoth ==
  ASSUME BothInv, RunLegacy
  PROVE  BothInv'
<1>1. /\ NewInv' /\ UNCHANGED <<orders, taker, pc, out, sent, placed>>
      /\ Number' = Number
  BY LegacyKeepsNewInv DEF RunLegacy, BothInv, vars, Number
<1>2. order # None
  BY DEF RunLegacy, Legacy!Processing, Legacy!MatchFront, Legacy!AtMaker,
         Legacy!LeavePrice, Legacy!EndOrder
<1>3. /\ taker # None /\ pc = "submit" /\ out = <<>>
      /\ order.side = taker.side /\ order.price = taker.kind.price
  BY <1>2 DEF BothInv, Together, NewInv, Phases
<1>4. Events("Trade") = {} /\ Events("Trade")' = {} /\ Made = 0 /\ Made' = 0
  BY <1>1, <1>3, NoTrades DEF Made, Events
<1>5. NewBook' = NewBook
  BY <1>1 DEF NewBook
<1>6. PICK at : IsTrail(at)
  BY <1>3 DEF BothInv, Together
<1>7. IsSequence(fills) /\ Len(fills) \in Nat
  BY DEF BothInv, Together, IsSequence
<1>8. /\ \A i \in 1 .. Len(fills) :
           Turn(Number, taker.side, taker.kind.price, at[i - 1], at[i], fills[i])
      /\ at[0] = [resting |-> NewBook, left |-> taker.remaining]
      /\ at[Len(fills)] = [resting |-> OldBook, left |-> order.remaining]
  BY <1>2, <1>4, <1>6 DEF IsTrail
<1>9. CASE Legacy!MatchFront
  <2>1. /\ OldInv' /\ order' # None
        /\ order'.side = order.side /\ order'.price = order.price
    BY <1>1, <1>9, MatchFrontTurns DEF BothInv
  <2>2. PICK fill : /\ fills' = Append(fills, fill)
                    /\ Turn(Number, order.side, order.price,
                            [resting |-> OldBook,  left |-> order.remaining],
                            [resting |-> OldBook', left |-> order'.remaining], fill)
    BY <1>1, <1>9, MatchFrontTurns DEF BothInv
  <2>3. /\ IsSequence(fills') /\ Len(fills') = Len(fills) + 1
        /\ fills'[Len(fills) + 1] = fill
        /\ \A i \in 1 .. Len(fills) : fills'[i] = fills[i]
    <3>1. PICK t : t = fills'
      OBVIOUS
    <3>2. IsSequence(fills) /\ t = Append(fills, fill)
      BY <1>7, <2>2, <3>1
    <3>3. /\ IsSequence(t) /\ Len(t) = Len(fills) + 1 /\ t[Len(fills) + 1] = fill
          /\ \A i \in 1 .. Len(fills) : t[i] = fills[i]
      BY ONLY <3>2, OneMoreFill
    <3> QED BY <3>1, <3>3
  <2>4. PICK b : b = [resting |-> OldBook', left |-> order'.remaining]
    OBVIOUS
  <2>5. PICK n \in Nat : n = Len(fills)
    BY <1>7
  <2>6. PICK new : new = [i \in 0 .. n + 1 |-> IF i <= n THEN at[i] ELSE b]
    OBVIOUS
  <2>7. /\ new[n + 1] = b /\ \A i \in 0 .. n : new[i] = at[i]
        /\ \A i \in 1 .. n : i - 1 \in 0 .. n /\ i \in 0 .. n
        /\ (n + 1) - 1 = n /\ n \in 0 .. n /\ 0 \in 0 .. n
        /\ \A i \in 1 .. n + 1 : i \in 1 .. n \/ i = n + 1
    BY <2>5, <2>6
  <2>8. \A i \in 1 .. n + 1 :
          Turn(Number, taker.side, taker.kind.price, new[i - 1], new[i], fills'[i])
    <3> SUFFICES ASSUME NEW i \in 1 .. n + 1
                 PROVE  Turn(Number, taker.side, taker.kind.price,
                             new[i - 1], new[i], fills'[i])
      OBVIOUS
    <3>1. CASE i \in 1 .. n
      <4>1. new[i - 1] = at[i - 1] /\ new[i] = at[i] /\ fills'[i] = fills[i]
        BY <2>3, <2>5, <2>7, <3>1
      <4> QED BY <1>8, <2>5, <3>1, <4>1
    <3>2. CASE i = n + 1
      <4>1. new[i - 1] = at[n] /\ new[i] = b /\ fills'[i] = fill
        BY <2>3, <2>5, <2>7, <3>2
      <4> QED BY <1>3, <1>8, <2>2, <2>4, <2>5, <4>1
    <3> QED BY <2>7, <3>1, <3>2
  <2>9. IsTrail(new)'
    <3>1. new[0] = [resting |-> NewBook, left |-> taker.remaining]
      BY <1>8, <2>7
    <3>2. Len(fills') = n + 1 /\ Made' + 1 = 1
      BY <1>4, <2>3, <2>5
    <3> QED BY <1>1, <1>4, <1>5, <2>1, <2>4, <2>7, <2>8, <3>1, <3>2 DEF IsTrail
  <2>10. Together'
    BY <1>1, <1>3, <1>4, <2>1, <2>3, <2>5, <2>9 DEF Together
  <2> QED BY <1>1, <2>1, <2>10 DEF BothInv
<1>10. CASE Legacy!LeavePrice
  <2>1. OldInv' /\ OldBook' = OldBook /\ order' = order /\ fills' = fills
    BY <1>1, <1>10, LeavePriceKeepsBook DEF BothInv, Legacy!LeavePrice
  <2>2. IsTrail(at)'
    BY <1>1, <1>2, <1>4, <1>5, <1>8, <2>1 DEF IsTrail
  <2>3. Together'
    BY <1>1, <1>2, <1>3, <1>4, <1>7, <2>1, <2>2 DEF Together
  <2> QED BY <1>1, <2>1, <2>3 DEF BothInv
<1>11. CASE Legacy!EndOrder
  <2>1. /\ OldInv' /\ order' = None /\ fills' = fills
        /\ OldBook' = OldBook \cup Added(Number, order.side, order.price, order.remaining)
        /\ Over(order.side, order.price, [resting |-> OldBook, left |-> order.remaining])
    BY <1>1, <1>11, EndOrderAdds DEF BothInv, Legacy!EndOrder
  <2>2. IsTrail(at)'
    BY <1>1, <1>3, <1>4, <1>5, <1>8, <2>1 DEF IsTrail
  <2>3. Together'
    BY <1>1, <1>3, <1>4, <1>7, <2>1, <2>2 DEF Together
  <2> QED BY <1>1, <2>1, <2>3 DEF BothInv
<1> QED BY <1>9, <1>10, <1>11 DEF RunLegacy, Legacy!Processing

\* One trade more is counted, and the places of the others stay.
LEMMA OneMoreTrade ==
  ASSUME IsSequence(out), NEW n, n = Len(out) + 1,
         Events("Trade")' = Events("Trade") \cup {n}
  PROVE  /\ Made' = Made + 1 /\ Nth(n)' = Made + 1
         /\ \A i \in Events("Trade") : Nth(i)' = Nth(i)
<1>1. /\ IsFiniteSet(Events("Trade")) /\ Made \in Nat /\ n \in Nat /\ n \notin Events("Trade")
      /\ \A i \in Events("Trade") : i \in Nat /\ i < n
  BY TradesCounted
<1>2. Cardinality(Events("Trade") \cup {n}) = Made + 1
  BY <1>1, FS_AddElement DEF Made
<1>3. {j \in Events("Trade") \cup {n} : j <= n} = Events("Trade") \cup {n}
  BY <1>1
<1>4. Nth(n)' = Cardinality({j \in Events("Trade") \cup {n} : j <= n})
  BY DEF Nth
<1>5. \A i \in Events("Trade") : Nth(i)' = Nth(i)
  <2> SUFFICES ASSUME NEW i \in Events("Trade") PROVE Nth(i)' = Nth(i)
    OBVIOUS
  <2>1. {j \in Events("Trade") \cup {n} : j <= i} = {j \in Events("Trade") : j <= i}
    BY <1>1
  <2>2. Nth(i)' = Cardinality({j \in Events("Trade") \cup {n} : j <= i})
    BY DEF Nth
  <2> QED BY <2>1, <2>2 DEF Nth
<1>6. Made' = Cardinality(Events("Trade") \cup {n})
  BY DEF Made
<1> QED BY <1>2, <1>3, <1>4, <1>5, <1>6

\* No trade: nothing changes in their places.
LEMMA SameTrades ==
  ASSUME Events("Trade")' = Events("Trade")
  PROVE  Made' = Made /\ \A i : Nth(i)' = Nth(i)
BY DEF Made, Nth

\* The new engine takes the first turn of the list: it has no other choice.
LEMMA FillKeepsTogether ==
  ASSUME BothInv, Inv', order = None, UNCHANGED <<legacyVars, sent, placed>>,
         Matching, FillOf(Maker, Min({taker.remaining, Maker.remaining}))
  PROVE  Together'
<1> USE DEF BothInv
<1>1. PICK o \in orders, fill \in Nat :
        /\ o = Maker /\ fill = Min({taker.remaining, o.remaining})
        /\ FillOf(o, fill) /\ o \in Orders /\ taker # None
  BY MakerFacts
<1>2. /\ taker' # None /\ taker'.account = taker.account /\ taker'.kind = taker.kind
      /\ taker'.side = taker.side /\ taker'.remaining = taker.remaining - fill
      /\ pc = "match" /\ pc' = "match"
  BY <1>1, FillOfOrders DEF FillOf
<1>3. /\ order' = None /\ fills' = fills /\ books' = books /\ sent' = sent
      /\ placed' = placed /\ OldBook' = OldBook /\ Number' = Number
  BY DEF legacyVars, OldBook, Number
<1>4. PICK n, trade :
        /\ n = Len(out) + 1
        /\ trade = Trade(taker.side, o.id, o.price, fill, o.remaining - fill)
        /\ IsSequence(out) /\ IsSequence(out')
        /\ \A i \in DOMAIN out : out'[i] = out[i]
        /\ Events("Trade")' = Events("Trade") \cup {n} /\ out'[n] = trade
  BY <1>1, FillOfEvents DEF NewInv
<1>5. /\ Made' = Made + 1 /\ Nth(n)' = Made + 1
      /\ \A i \in Events("Trade") : Nth(i)' = Nth(i)
  BY <1>4, OneMoreTrade
<1>6. Made \in Nat /\ IsSequence(fills) /\ Len(fills) \in Nat /\ Made <= Len(fills)
  BY <1>4, TradesCounted DEF Together, IsSequence
<1>7. PICK at : IsTrail(at)
  BY <1>1 DEF Together
<1>8. /\ at[Made] = [resting |-> NewBook, left |-> taker.remaining]
      /\ Over(taker.side, taker.kind.price, at[Len(fills)])
      /\ OldBook = at[Len(fills)].resting \cup
                     Added(Number, taker.side, taker.kind.price, at[Len(fills)].left)
      /\ \A i \in Made + 1 .. Len(fills) :
           Turn(Number, taker.side, taker.kind.price, at[i - 1], at[i], fills[i])
  BY <1>7 DEF IsTrail
<1>9. Made + 1 \in Made + 1 .. Len(fills) /\ Made + 1 <= Len(fills)
  <2>1. Made # Len(fills)
    BY <1>2, <1>8, LoopIsOver
  <2> QED BY <1>6, <2>1
<1>10. Turn(Number, taker.side, taker.kind.price, at[Made], at[Made + 1], fills[Made + 1])
  <2>1. (Made + 1) - 1 = Made
    BY <1>6
  <2> QED BY <1>8, <1>9, <2>1
<1>11. /\ fills[Made + 1] = [maker |-> o.account, taker |-> Number, price |-> o.price,
                             qty |-> fill]
       /\ at[Made + 1] = [resting |-> NewBook', left |-> taker'.remaining]
  <2>1. at[Made].resting = NewBook /\ at[Made].left = taker.remaining
    BY <1>8
  <2>2. PICK m \in NewBook :
          /\ First(m, NewBook, taker.side, taker.kind.price)
          /\ fills[Made + 1] = [maker |-> m.id, taker |-> Number, price |-> m.price,
                                qty |-> Min({taker.remaining, m.remaining})]
          /\ at[Made + 1] = [resting |-> After(NewBook, m, m.remaining
                                                  - Min({taker.remaining, m.remaining})),
                             left    |-> taker.remaining
                                           - Min({taker.remaining, m.remaining})]
    BY <1>10, <2>1 DEF Turn
  <2>3. NewBook \in SUBSET LegacyOrders
    BY FormFacts DEF NewBook
  <2>4. m = LegacyForm(o)
    BY <1>1, <2>2, <2>3, MakerIsFirst, FirstIsOne
  <2>5. m.id = o.account /\ m.price = o.price /\ m.remaining = o.remaining
    BY <2>4, FormFacts
  <2>6. NewBook' = After(NewBook, m, o.remaining - fill)
    BY <1>1, <2>4, FillChangesBook
  <2> QED BY <1>1, <1>2, <2>2, <2>5, <2>6
<1>12. IsTrail(at)'
  <2>1. \A i \in (Made + 1) + 1 .. Len(fills) : i \in Made + 1 .. Len(fills)
    BY <1>6
  <2> QED BY <1>2, <1>3, <1>5, <1>8, <1>11, <2>1 DEF IsTrail
<1>13. placed[o.id] = o.account
  BY <1>1 DEF NewInv, Known, Phases
<1>14. (\A i \in Events("Trade") : fills[Nth(i)] = AsFill(out[i]))'
  <2> SUFFICES ASSUME NEW i, i \in Events("Trade")'
               PROVE  (fills[Nth(i)] = AsFill(out[i]))'
    OBVIOUS
  <2>1. CASE i \in Events("Trade")
    <3>1. out'[i] = out[i] /\ Nth(i)' = Nth(i)
      BY <1>4, <1>5, <2>1 DEF Events
    <3>2. fills[Nth(i)] = AsFill(out[i])
      BY <2>1 DEF Together
    <3> QED BY <1>3, <3>1, <3>2 DEF AsFill
  <2>2. CASE i = n
    <3>1. trade.maker_id = o.id /\ trade.price = o.price /\ trade.qty = fill
      BY <1>4 DEF Trade
    <3> QED BY <1>3, <1>4, <1>5, <1>11, <1>13, <2>2, <3>1 DEF AsFill, Number
  <2> QED BY <1>4, <2>1, <2>2
<1> QED BY <1>2, <1>3, <1>5, <1>6, <1>9, <1>12, <1>14 DEF Together

\* The new engine is done: no turn is left in the list.
LEMMA EndKeepsTogether ==
  ASSUME BothInv, order = None, UNCHANGED <<legacyVars, sent, placed>>,
         pc = "match", ~Matching, taker # None, NEW e, e.event # "Trade", Return(<<e>>),
         NewBook' = NewBook \cup Added(Number, taker.side, taker.kind.price, taker.remaining)
  PROVE  Together'
<1> USE DEF BothInv
<1>1. taker' = None /\ pc' = "done" /\ out' = out \o <<e>> /\ IsSequence(out)
  BY DEF Return, NewInv
<1>2. /\ order' = None /\ fills' = fills /\ books' = books /\ sent' = sent
      /\ placed' = placed /\ OldBook' = OldBook /\ Number' = Number
  BY DEF legacyVars, OldBook, Number
<1>3. Events("Trade")' = Events("Trade") /\ \A i \in DOMAIN out : out'[i] = out[i]
  BY <1>1, OtherEvents, OneMoreEvent
<1>4. Made' = Made /\ \A i : Nth(i)' = Nth(i)
  BY <1>3, SameTrades
<1>5. Made \in Nat /\ IsSequence(fills) /\ Len(fills) \in Nat /\ Made <= Len(fills)
  BY <1>1, TradesCounted DEF Together, IsSequence
<1>6. PICK at : IsTrail(at)
  BY DEF Together
<1>7. /\ at[Made] = [resting |-> NewBook, left |-> taker.remaining]
      /\ OldBook = at[Len(fills)].resting \cup
                     Added(Number, taker.side, taker.kind.price, at[Len(fills)].left)
      /\ \A i \in Made + 1 .. Len(fills) :
           Turn(Number, taker.side, taker.kind.price, at[i - 1], at[i], fills[i])
  BY <1>6 DEF IsTrail
<1>8. Made = Len(fills)
  <2> SUFFICES ASSUME Made # Len(fills) PROVE FALSE
    OBVIOUS
  <2>1. Made + 1 \in Made + 1 .. Len(fills) /\ (Made + 1) - 1 = Made
    BY <1>5
  <2>2. Turn(Number, taker.side, taker.kind.price, at[Made], at[Made + 1], fills[Made + 1])
    BY <1>7, <2>1
  <2> QED BY <1>7, <2>2, LoopIsOver
<1>9. OldBook = NewBook'
  BY <1>7, <1>8
<1>10. (\A i \in Events("Trade") : fills[Nth(i)] = AsFill(out[i]))'
  <2> SUFFICES ASSUME NEW i, i \in Events("Trade")'
               PROVE  (fills[Nth(i)] = AsFill(out[i]))'
    OBVIOUS
  <2>1. out'[i] = out[i] /\ Nth(i)' = Nth(i)
    BY <1>3, <1>4 DEF Events
  <2>2. fills[Nth(i)] = AsFill(out[i])
    BY <1>3 DEF Together
  <2> QED BY <1>2, <2>1, <2>2 DEF AsFill
<1> QED BY <1>1, <1>2, <1>4, <1>5, <1>8, <1>9, <1>10 DEF Together

\* A step of the new engine.
LEMMA RunKeepsBoth ==
  ASSUME BothInv, RunReference
  PROVE  BothInv'
<1>1. /\ order = None /\ Running /\ UNCHANGED <<legacyVars, sent, placed>>
      /\ UNCHANGED <<sent, placed>>
  BY DEF RunReference
<1>2. Inv'
  BY <1>1, NextKeepsInv DEF BothInv, NewInv, Next
<1>3. NewInv'
  BY <1>1, <1>2, RunKeepsNewInv DEF BothInv
<1>4. /\ order' = order /\ books' = books /\ prices' = prices /\ fills' = fills
      /\ sent' = sent /\ placed' = placed
  BY <1>1 DEF legacyVars
<1>5. OldInv'
  <2>1. Legacy!Price' = Legacy!Price /\ Past' = Past /\ Number' = Number
    BY <1>4 DEF Legacy!Price, Past, Number
  <2> QED BY <1>4, <2>1 DEF BothInv, OldInv, LevelsOK, ToVisit
<1>6. /\ taker # None /\ pc \in {"submit", "match"}
      /\ \/ pc = "submit" /\ pc' = "match" /\ UNCHANGED <<book, taker, out>>
         \/ /\ Matching
            /\ FillOf(Maker, Min({taker.remaining, Maker.remaining}))
         \/ /\ pc = "match" /\ ~Matching /\ taker.remaining = 0
            /\ UNCHANGED book /\ Return(<<Filled>>)
         \/ /\ pc = "match" /\ ~Matching /\ taker.remaining > 0
            /\ \E o : Come(o)
  BY <1>1, NewSteps DEF BothInv
<1>7. CASE pc = "submit" /\ pc' = "match" /\ UNCHANGED <<book, taker, out>>
  <2>1. /\ taker' = taker /\ out' = out /\ NewBook' = NewBook /\ OldBook' = OldBook
        /\ Number' = Number /\ Events("Trade")' = Events("Trade")
    BY <1>4, <1>7 DEF book, NewBook, OldBook, Number, Events
  <2>2. Made' = Made /\ \A i : Nth(i)' = Nth(i)
    BY <2>1, SameTrades
  <2>3. PICK at : IsTrail(at)
    BY <1>6 DEF BothInv, Together
  <2>4. IsTrail(at)'
    BY <1>4, <2>1, <2>2, <2>3 DEF IsTrail
  <2>5. (\A i \in Events("Trade") : fills[Nth(i)] = AsFill(out[i]))'
    <3> SUFFICES ASSUME NEW i, i \in Events("Trade")'
                 PROVE  (fills[Nth(i)] = AsFill(out[i]))'
      OBVIOUS
    <3>1. fills[Nth(i)] = AsFill(out[i])
      BY <2>1 DEF BothInv, Together
    <3> QED BY <1>4, <2>1, <2>2, <3>1 DEF AsFill
  <2>6. Together'
    BY <1>1, <1>4, <1>6, <1>7, <2>1, <2>2, <2>4, <2>5 DEF BothInv, Together
  <2> QED BY <1>3, <1>5, <2>6 DEF BothInv
<1>8. CASE /\ Matching
           /\ FillOf(Maker, Min({taker.remaining, Maker.remaining}))
  BY <1>1, <1>2, <1>3, <1>5, <1>8, FillKeepsTogether DEF BothInv
<1>9. CASE /\ pc = "match" /\ ~Matching /\ taker.remaining = 0
           /\ UNCHANGED book /\ Return(<<Filled>>)
  <2>1. NewBook' = NewBook
           \cup Added(Number, taker.side, taker.kind.price, taker.remaining)
    BY <1>9 DEF NewBook, Added, book
  <2>2. PICK e : e = Filled /\ e.event # "Trade"
    <3>1. Filled.event # "Trade"
      BY DEF Filled
    <3> QED BY <3>1
  <2> QED BY <1>1, <1>3, <1>5, <1>6, <1>9, <2>1, <2>2, EndKeepsTogether DEF BothInv
<1>10. CASE /\ pc = "match" /\ ~Matching /\ taker.remaining > 0
            /\ \E o : Come(o)
  <2>1. PICK o : Come(o)
    BY <1>10
  <2>2. /\ orders' = orders \cup {o} /\ Return(<<Rested(o.id, taker.remaining)>>)
        /\ o.account = Number /\ o.side = taker.side /\ o.price = taker.kind.price
        /\ o.remaining = taker.remaining
    BY <1>6, <2>1 DEF Come, Insert, BothInv, NewInv, Phases
  <2>3. PICK e : e = Rested(o.id, taker.remaining) /\ e.event # "Trade"
    <3>1. Rested(o.id, taker.remaining).event # "Trade"
      BY DEF Rested
    <3> QED BY <3>1
  <2>4. NewBook' = NewBook \cup {LegacyForm(o)}
    BY <2>2 DEF NewBook
  <2>5. Added(Number, taker.side, taker.kind.price, taker.remaining) = {LegacyForm(o)}
    BY <1>10, <2>2 DEF Added, LegacyForm
  <2> QED BY <1>1, <1>3, <1>5, <1>6, <1>10, <2>2, <2>3, <2>4, <2>5, EndKeepsTogether DEF BothInv
<1> QED BY <1>6, <1>7, <1>8, <1>9, <1>10

\* The events are read between two orders.
LEMMA ReadKeepsBoth ==
  ASSUME BothInv, ReadEvents
  PROVE  BothInv'
<1>1. /\ order = None /\ pc = "done" /\ pc' = "ready" /\ out' = <<>>
      /\ orders' = orders /\ taker' = taker /\ sent' = sent
      /\ order' = order /\ books' = books /\ prices' = prices /\ fills' = fills
  BY DEF ReadEvents, Drain, book, legacyVars
<1>2. NewInv'
  BY ReadKeepsNewInv DEF BothInv
<1>3. OldInv'
  <2>1. Legacy!Price' = Legacy!Price /\ Past' = Past /\ Number' = Number
    BY <1>1 DEF Legacy!Price, Past, Number
  <2> QED BY <1>1, <2>1 DEF BothInv, OldInv, LevelsOK, ToVisit
<1>4. taker = None
  BY <1>1 DEF BothInv, NewInv, Inv, ControlTypeOK
<1>5. OldBook' = NewBook'
  BY <1>1, <1>4 DEF BothInv, Together, OldBook, NewBook
<1>6. Events("Trade")' = {} /\ Made' = 0
  BY <1>1, FS_EmptySet DEF Events, Made
<1>7. Together'
  <2>1. IsSequence(fills) /\ Len(fills) \in Nat
    BY DEF BothInv, Together, IsSequence
  <2> QED BY <1>1, <1>4, <1>5, <1>6, <2>1 DEF Together
<1> QED BY <1>2, <1>3, <1>7 DEF BothInv

LEMMA BothInitInv == BothInit => BothInv
<1> SUFFICES ASSUME BothInit PROVE BothInv
  OBVIOUS
<1>1. /\ Init /\ sent = 0 /\ placed = <<>> /\ order = None /\ prices = {} /\ fills = <<>>
      /\ books = [side \in {"Buy", "Sell"} |-> <<>>]
      /\ generations = [s \in Slots |-> 0] /\ retired = 0 /\ orders = {}
      /\ pc = "ready" /\ taker = None /\ out = <<>>
  BY DEF BothInit, Init, Legacy!Init
<1>2. Inv
  BY <1>1, InitInv
<1>3. /\ Events("Trade") = {} /\ Events("Rested") = {} /\ Made = 0
      /\ IsSequence(out) /\ IsSequence(fills) /\ Len(fills) = 0 /\ DOMAIN placed = {}
  <2>1. <<>> \in Seq({}) /\ Len(<<>>) = 0 /\ DOMAIN <<>> = {}
    OBVIOUS
  <2> QED BY <1>1, <2>1, NoTrades DEF Events, IsSequence
<1>4. NewInv
  <2>1. Capacity \in Nat \ {0}
    BY ConfigValid
  <2> QED BY <1>1, <1>2, <1>3, <2>1 DEF NewInv, Numbered, NeverRetires, Phases, Known, Settled
<1>5. LevelsOK
  <2>1. \A side \in Sides : books[side] = <<>> /\ DOMAIN books[side] = {}
    BY <1>1 DEF Sides
  <2>2. Shaped(books)
    BY <1>1, <2>1 DEF Shaped, Sides
  <2> QED BY <2>1, <2>2 DEF LevelsOK
<1>6. OldInv
  BY <1>1, <1>5 DEF OldInv, ToVisit
<1>7. OldBook = {} /\ NewBook = {}
  <2>1. \A side \in Sides : DOMAIN books[side] = {}
    BY <1>1 DEF Sides
  <2> QED BY <1>1, <2>1 DEF OldBook, NewBook, HeldIn, LegacyOrders
<1>8. Together
  BY <1>1, <1>3, <1>7 DEF Together
<1> QED BY <1>4, <1>6, <1>8 DEF BothInv

\* The inductive invariant of the two engines.
THEOREM BothInvHolds == BothSpec => []BothInv
<1>1. ASSUME BothInv, [BothNext]_bothVars PROVE BothInv'
  <2>1. CASE BothNext
    BY <1>1, <2>1, SendKeepsBoth, LegacyKeepsBoth, RunKeepsBoth, ReadKeepsBoth DEF BothNext
  <2>2. CASE UNCHANGED bothVars
    <3>1. /\ UNCHANGED vars /\ sent' = sent /\ placed' = placed /\ orders' = orders
          /\ taker' = taker /\ pc' = pc /\ out' = out
          /\ order' = order /\ books' = books /\ prices' = prices /\ fills' = fills
      BY <2>2 DEF bothVars, legacyVars, vars
    <3>2. NewInv'
      BY <1>1, <3>1, LegacyKeepsNewInv DEF BothInv
    <3>3. Legacy!Price' = Legacy!Price /\ Past' = Past /\ Number' = Number
          /\ OldBook' = OldBook /\ NewBook' = NewBook /\ Events("Trade")' = Events("Trade")
      BY <3>1 DEF Legacy!Price, Past, Number, OldBook, NewBook, Events
    <3>4. OldInv'
      BY <1>1, <3>1, <3>3 DEF BothInv, OldInv, LevelsOK, ToVisit
    <3>5. Made' = Made /\ \A i : Nth(i)' = Nth(i)
      BY <3>3, SameTrades
    <3>6. (\A i \in Events("Trade") : fills[Nth(i)] = AsFill(out[i]))'
      <4> SUFFICES ASSUME NEW i, i \in Events("Trade")'
                   PROVE  (fills[Nth(i)] = AsFill(out[i]))'
        OBVIOUS
      <4>1. fills[Nth(i)] = AsFill(out[i])
        BY <1>1, <3>3 DEF BothInv, Together
      <4> QED BY <3>1, <3>5, <4>1 DEF AsFill
    <3>7. taker # None => (\E at : IsTrail(at))'
      <4> SUFFICES ASSUME taker # None PROVE (\E at : IsTrail(at))'
        OBVIOUS
      <4>1. PICK at : IsTrail(at)
        BY <1>1 DEF BothInv, Together
      <4>2. IsTrail(at)'
        BY <3>1, <3>3, <3>5, <4>1 DEF IsTrail
      <4> QED BY <4>2
    <3>8. Together'
      BY <1>1, <3>1, <3>3, <3>5, <3>6, <3>7 DEF BothInv, Together
    <3> QED BY <3>2, <3>4, <3>8 DEF BothInv
  <2> QED BY <1>1, <2>1, <2>2
<1> QED BY <1>1, BothInitInv, PTL DEF BothSpec

----------------------------------------------------------------------------
(***************************************************************************)
(* Like for like                                                           *)
(***************************************************************************)
\* Whatever GTC orders are sent, at prices and in quantities that the
\* configuration allows, each makes the same trades in both engines: as many,
\* with the same makers at the same prices, in the same order.
THEOREM FillsAreTheSame == BothSpec => []SameFills
<1>1. BothInv => SameFills
  <2> SUFFICES ASSUME BothInv, pc = "done" PROVE Made = Len(fills)
        /\ \A i \in Events("Trade") : fills[Nth(i)] = AsFill(out[i])
    BY DEF SameFills, BothDone, Made
  <2> QED BY DEF BothInv, Together
<1> QED BY <1>1, BothInvHolds, PTL

\* An order rests in the new engine if it is in its level of the original one.
LEMMA SameOrders ==
  ASSUME BothInv, BothDone, NEW side \in Sides, NEW p
  PROVE  /\ p \in DOMAIN books[side] =>
              /\ QueueOK(books[side][p], side, p, sent) /\ books[side][p] # <<>>
              /\ \A e : In(e, books[side][p]) =>
                   \E o \in RestingAt(side, p) : e = LegacyForm(o)
         /\ \A o \in RestingAt(side, p) :
              p \in DOMAIN books[side] /\ In(LegacyForm(o), books[side][p])
<1>1. OldBook = NewBook /\ order = None
  BY DEF BothInv, BothDone, Together, NewInv, Inv, ControlTypeOK
<1>2. ASSUME p \in DOMAIN books[side]
      PROVE  QueueOK(books[side][p], side, p, sent) /\ books[side][p] # <<>>
  BY <1>1, <1>2 DEF BothInv, OldInv, LevelsOK, Past
<1>3. ASSUME p \in DOMAIN books[side], NEW e, In(e, books[side][p])
      PROVE  \E o \in RestingAt(side, p) : e = LegacyForm(o)
  <2>1. e \in LegacyOrders /\ e.side = side /\ e.price = p
    BY <1>2, <1>3 DEF QueueOK, In
  <2>2. e \in NewBook
    BY <1>1, <1>3, <2>1 DEF OldBook, HeldIn
  <2>3. PICK o \in orders : e = LegacyForm(o)
    BY <2>2 DEF NewBook
  <2>4. o.side = side /\ o.price = p
    BY <2>1, <2>3 DEF LegacyForm
  <2> QED BY <2>3, <2>4 DEF RestingAt, OrdersOn
<1>4. ASSUME NEW o \in RestingAt(side, p)
      PROVE  p \in DOMAIN books[side] /\ In(LegacyForm(o), books[side][p])
  <2>1. o \in orders /\ o.side = side /\ o.price = p
    BY DEF RestingAt, OrdersOn
  <2>2. LegacyForm(o) \in OldBook
    BY <1>1, <2>1 DEF NewBook
  <2>3. LegacyForm(o).side = side /\ LegacyForm(o).price = p
    BY <2>1 DEF LegacyForm
  <2> QED BY <2>2, <2>3 DEF OldBook, HeldIn
<1> QED BY <1>2, <1>3, <1>4

\* ... and leaves the same book in both: the same prices, and at each of them
\* the same orders in the same order, so that the next order finds as much work
\* in the one as in the other.
THEOREM BooksAreTheSame == BothSpec => []SameBook
<1>1. BothInv => SameBook
  <2> SUFFICES ASSUME BothInv, BothDone, NEW side \in Sides
               PROVE  /\ DOMAIN books[side] = {o.price : o \in OrdersOn(side)}
                      /\ \A p \in DOMAIN books[side] :
                           QueueOf(books[side][p], RestingAt(side, p))
    BY DEF SameBook
  <2>1. ASSUME NEW p \in DOMAIN books[side] PROVE \E o \in OrdersOn(side) : p = o.price
    <3>1. QueueOK(books[side][p], side, p, sent) /\ books[side][p] # <<>>
      BY <2>1, SameOrders
    <3>2. PICK e : In(e, books[side][p])
      <4>1. 1 \in DOMAIN books[side][p]
        BY <3>1, FrontGone
      <4> QED BY <4>1 DEF In
    <3>3. PICK o \in RestingAt(side, p) : e = LegacyForm(o)
      BY SMTT(30), <2>1, <3>2, SameOrders
    <3> QED BY <3>3 DEF RestingAt
  <2>2. ASSUME NEW o \in OrdersOn(side) PROVE o.price \in DOMAIN books[side]
    <3>1. o \in RestingAt(side, o.price)
      BY DEF RestingAt
    <3> QED BY <3>1, SameOrders
  <2>3. DOMAIN books[side] = {o.price : o \in OrdersOn(side)}
    BY <2>1, <2>2
  <2>4. ASSUME NEW p \in DOMAIN books[side]
        PROVE  QueueOf(books[side][p], RestingAt(side, p))
    <3> DEFINE queue == books[side][p]
    <3>1. /\ QueueOK(queue, side, p, sent)
          /\ \A e : In(e, queue) => \E o \in RestingAt(side, p) : e = LegacyForm(o)
          /\ \A o \in RestingAt(side, p) : In(LegacyForm(o), queue)
      BY <2>4, SameOrders
    <3> HIDE DEF queue
    <3>2. {queue[i] : i \in DOMAIN queue} = {LegacyForm(o) : o \in RestingAt(side, p)}
      BY <3>1 DEF In
    <3>3. ASSUME NEW i \in DOMAIN queue, NEW j \in DOMAIN queue, i < j
          PROVE  \E o, q \in RestingAt(side, p) :
                   /\ o.seq < q.seq
                   /\ queue[i] = LegacyForm(o) /\ queue[j] = LegacyForm(q)
      <4>1. PICK o \in RestingAt(side, p) : queue[i] = LegacyForm(o)
        BY <3>1 DEF In
      <4>2. PICK q \in RestingAt(side, p) : queue[j] = LegacyForm(q)
        BY <3>1 DEF In
      <4>3. queue[i].id < queue[j].id
        BY <3>1, <3>3 DEF QueueOK
      <4>4. o \in orders /\ q \in orders /\ o.account < q.account
        BY <4>1, <4>2, <4>3 DEF LegacyForm, RestingAt, OrdersOn
      <4>5. /\ o.account \in Nat /\ q.account \in Nat /\ o.seq \in Nat /\ q.seq \in Nat
        BY <4>4, SentFacts DEF BothInv
      <4>6. ~(q.seq < o.seq) /\ q.seq # o.seq
        <5>1. q.seq < o.seq => q.account < o.account
          BY <4>4 DEF BothInv, NewInv, Numbered
        <5>2. q.seq = o.seq => q = o
          BY <4>4 DEF BothInv, NewInv, Inv, BookInv, SeqsDistinct
        <5> QED BY <4>4, <4>5, <5>1, <5>2
      <4> QED BY <4>1, <4>2, <4>5, <4>6
    <3> QED BY <3>2, <3>3 DEF QueueOf, queue
  <2> QED BY <2>3, <2>4
<1> QED BY <1>1, BothInvHolds, PTL
=============================================================================
