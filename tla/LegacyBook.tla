----------------------------- MODULE LegacyBook -----------------------------
(***************************************************************************)
(* The original engine of src/bin/latency/legacy.rs, kept as the baseline  *)
(* of the benchmark: per side a map from a price to a queue of orders.     *)
(*                                                                         *)
(* process_order() runs to its end before the next call; the model has one *)
(* step per turn of the inner loop of match_buy() or match_sell(), one per *)
(* price that is left behind, and one for the code after the loops.  The   *)
(* two functions differ in the side they look at and the order of prices.  *)
(* The symbol and the timestamps are left out: there is one book, and      *)
(* nothing reads them.                                                     *)
(***************************************************************************)
EXTENDS Integers, Sequences, FiniteSetsExt

CONSTANT NoOrder   \* no order is being processed

VARIABLES
  books,   \* side -> price -> queue of orders, bids and asks
  order,   \* the order in process_order(), NoOrder outside it
  prices,  \* matchable_prices, a set: those not yet left behind
  fills    \* the fills of the current or last order

legacyVars == <<books, order, prices, fills>>

Init ==
  /\ books = [side \in {"Buy", "Sell"} |-> <<>>]
  /\ order = NoOrder
  /\ prices = {}
  /\ fills = <<>>

OtherSide(side) == IF side = "Buy" THEN "Sell" ELSE "Buy"

\* The levels of the other side that the order may trade with.
MatchablePrices(side, price) ==
  {p \in DOMAIN books[OtherSide(side)] :
     IF side = "Buy" THEN p <= price ELSE p >= price}

ProcessOrder(id, side, price, qty) ==
  /\ order = NoOrder
  /\ order' = [id |-> id, side |-> side, price |-> price, remaining |-> qty]
  /\ prices' = MatchablePrices(side, price)
  /\ fills' = <<>>
  /\ UNCHANGED books

Makers == books[OtherSide(order.side)]

\* The next price: the lowest ask for a buy order, the highest bid for a sell.
Price == IF order.side = "Buy" THEN Min(prices) ELSE Max(prices)

Queue == Makers[Price]

\* The inner loop is at a maker.
AtMaker ==
  /\ order # NoOrder
  /\ prices # {} /\ order.remaining > 0
  /\ Queue # <<>>

MatchFront ==
  /\ AtMaker
  /\ LET maker == Head(Queue)
         qty   == Min({order.remaining, maker.remaining})
         left  == maker.remaining - qty
         queue == IF left = 0 THEN Tail(Queue)
                  ELSE [Queue EXCEPT ![1].remaining = left]
     IN  /\ order' = [order EXCEPT !.remaining = @ - qty]
         /\ books' = [books EXCEPT ![OtherSide(order.side)][Price] = queue]
         /\ fills' = Append(fills, [maker |-> maker.id, taker |-> order.id,
                                    price |-> maker.price, qty |-> qty])
  /\ UNCHANGED prices

\* Mutant: an emptied level stays in the map.
LeaveLevel ==
  /\ order # NoOrder
  /\ prices # {} /\ (order.remaining = 0 \/ Queue = <<>>)
  /\ prices' = IF order.remaining = 0 THEN {} ELSE prices \ {Price}
  /\ UNCHANGED <<books, order, fills>>

\* The inner loop is over: the level goes if it is empty, and the outer loop
\* ends if the order is filled.
LeavePrice ==
  /\ order # NoOrder
  /\ prices # {} /\ (order.remaining = 0 \/ Queue = <<>>)
  /\ books' =
       IF Queue # <<>> THEN books
       ELSE [books EXCEPT ![OtherSide(order.side)] =
               [p \in DOMAIN Makers \ {Price} |-> Makers[p]]]
  /\ prices' = IF order.remaining = 0 THEN {} ELSE prices \ {Price}
  /\ UNCHANGED <<order, fills>>

QueueAt(levels, price) ==
  IF price \in DOMAIN levels THEN levels[price] ELSE <<>>

\* Mutant: an order goes to the front of its queue.
AddOrderInFront(levels, o) ==
  [p \in DOMAIN levels \cup {o.price} |->
     IF p = o.price THEN <<o>> \o QueueAt(levels, p) ELSE levels[p]]

AddOrder(levels, o) ==
  [p \in DOMAIN levels \cup {o.price} |->
     IF p = o.price THEN Append(QueueAt(levels, p), o) ELSE levels[p]]

\* match_order() has returned: what is left of the order is added.
EndOrder ==
  /\ order # NoOrder
  /\ prices = {}
  /\ books' = IF order.remaining = 0 THEN books
              ELSE [books EXCEPT ![order.side] = AddOrder(@, order)]
  /\ order' = NoOrder
  /\ UNCHANGED <<prices, fills>>

Processing == MatchFront \/ LeavePrice \/ EndOrder
=============================================================================
