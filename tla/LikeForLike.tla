----------------------------- MODULE LikeForLike -----------------------------
(***************************************************************************)
(* compare_with_legacy() of src/bin/latency/main.rs: the same stream of    *)
(* GTC orders, each of an account of its own, is given to the original     *)
(* engine and to the new one.  The benchmark compares their times, which   *)
(* says something only if they do the same work; it never looks.           *)
(*                                                                         *)
(* The new engine is Reference here, which FastBook implements.  Accounts  *)
(* are numbers, as in the benchmark: order i is sent by account i.  An     *)
(* order goes through the original engine first and then through the new.  *)
(***************************************************************************)
EXTENDS Reference

VARIABLES
  books, order, prices, fills,  \* the original engine
  sent,                         \* how many orders have been sent
  placed                        \* id -> the number of the order that got it

Legacy == INSTANCE LegacyBook WITH NoOrder <- None

legacyVars == <<books, order, prices, fills>>
bothVars == <<vars, legacyVars, sent, placed>>

\* The benchmark's engine has a slot more than it gets orders, and gtc_flow()
\* makes orders that the configuration allows.
ASSUME RoomForAll ==
  Accounts = 0 .. Capacity - 2 /\ 2 * (Capacity - 1) <= GenerationLimit

ASSUME FlowAllowed ==
  InputPrices \subseteq MinTick .. MaxTick /\ InputQtys \subseteq 1 .. MaxOrderQty

\* What the original engine keeps of an order.
LegacyOrders == [id : Nat, side : Sides, price : Nat, remaining : Nat]

ASSUME NoneIsNoOrder == None \notin LegacyOrders

BothInit ==
  /\ Init
  /\ Legacy!Init
  /\ sent = 0
  /\ placed = <<>>

SendOrder ==
  /\ sent \in Accounts
  /\ \E side \in Sides, price \in InputPrices, qty \in InputQtys :
       /\ Legacy!ProcessOrder(sent, side, price, qty)
       /\ NewOrder(sent, side, qty, [type |-> "Gtc", price |-> price])
  /\ sent' = sent + 1
  /\ UNCHANGED placed

RunLegacy == Legacy!Processing /\ UNCHANGED <<vars, sent, placed>>

RunReference ==
  /\ order = None
  /\ Running
  /\ UNCHANGED <<legacyVars, sent, placed>>

\* The events are read: an id that has come to rest is the order just sent.
ReadEvents ==
  /\ order = None
  /\ Drain
  /\ placed' = [id \in DOMAIN placed \cup {out[i].id : i \in Events("Rested")} |->
                  IF id \in DOMAIN placed THEN placed[id] ELSE sent - 1]
  /\ UNCHANGED <<legacyVars, sent>>

BothNext == SendOrder \/ RunLegacy \/ RunReference \/ ReadEvents

BothSpec == BothInit /\ [][BothNext]_bothVars

----------------------------------------------------------------------------
BothDone == pc = "done" /\ order = None

AsFill(trade) ==
  [maker |-> placed[trade.maker_id], taker |-> sent - 1,
   price |-> trade.price, qty |-> trade.qty]

\* The place of the trade at out[i] among the trades.
Nth(i) == Cardinality({j \in Events("Trade") : j <= i})

\* "Like-for-like": for every order the two engines make the same trades, with
\* the same makers at the same prices, in the same order.
SameFills ==
  BothDone =>
    /\ Len(fills) = Cardinality(Events("Trade"))
    /\ \A i \in Events("Trade") : fills[Nth(i)] = AsFill(out[i])

RestingAt(side, price) == {o \in OrdersOn(side) : o.price = price}

LegacyForm(o) ==
  [id |-> o.account, side |-> o.side, price |-> o.price,
   remaining |-> o.remaining]

\* A queue of the original engine holds just these orders, by arrival.
QueueOf(queue, resting) ==
  /\ {queue[i] : i \in DOMAIN queue} = {LegacyForm(o) : o \in resting}
  /\ \A i, j \in DOMAIN queue : i < j =>
       \E o, q \in resting : /\ o.seq < q.seq
                             /\ queue[i] = LegacyForm(o) /\ queue[j] = LegacyForm(q)

\* The books they end with are the same, so that the next order finds as much
\* work in both: a level for each price that has orders and no other, and in it
\* the orders by arrival.  No order was refused, cancelled for self-trade or
\* left without a slot by the new engine, which the original cannot do.
SameBook ==
  BothDone =>
    \A side \in Sides :
      /\ DOMAIN books[side] = {o.price : o \in OrdersOn(side)}
      /\ \A p \in DOMAIN books[side] : QueueOf(books[side][p], RestingAt(side, p))
=============================================================================
