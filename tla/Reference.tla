----------------------------- MODULE Reference -----------------------------
(***************************************************************************)
(* The executable specification of src/reference.rs: resting orders in one *)
(* unordered collection, the best one found by price and then by sequence  *)
(* number.                                                                 *)
(*                                                                         *)
(* process() runs a command to its end on one thread.  The model has one   *)
(* step per call of submit(), per iteration of its matching loop and per   *)
(* way out of it, so that the invariants are checked at every turn of the  *)
(* loop, not between commands only.  pc is where process() is:             *)
(*   "ready"   not running; the next command may come                      *)
(*   "submit"  about to run submit() for the order in taker                *)
(*   "match"   at the head of the loop in submit()                         *)
(*   "done"    returned; the caller has not yet emptied the sink           *)
(***************************************************************************)
EXTENDS EngineTypes, FiniteSets, SequencesExt

VARIABLES
  generations,  \* slot -> generation: odd = live, even = free or retired
  free,         \* the free slots, a stack
  retired,      \* number of slots that will never be used again
  orders,       \* the resting orders
  next_seq,     \* the next arrival number
  pc,
  taker,        \* arguments and locals of submit(), None outside it
  out           \* the events of the current command

book == <<generations, free, retired, orders, next_seq>>
vars == <<generations, free, retired, orders, next_seq, pc, taker, out>>

Init ==
  /\ generations = [s \in Slots |-> 0]
  /\ free = [i \in 1 .. Capacity |-> Capacity - i]
  /\ retired = 0
  /\ orders = {}
  /\ next_seq = 0
  /\ pc = "ready"
  /\ taker = None
  /\ out = <<>>

----------------------------------------------------------------------------
\* Slots and generations

\* Mutant: looks at the generation the slot has, not at the next live one.
WillRetireLate(slot) == generations[slot] > GenerationLimit

WillRetire(slot) == generations[slot] + 2 > GenerationLimit

\* Mutant: a slot that is used again goes back a generation, not forward.
ReleaseWithoutBump(slot) ==
  \/ /\ WillRetire(slot)
     /\ generations' = [generations EXCEPT ![slot] = @ - 1]
     /\ retired' = retired + 1
     /\ UNCHANGED free
  \/ /\ ~WillRetire(slot)
     /\ generations' = [generations EXCEPT ![slot] = @ - 1]
     /\ free' = Append(free, slot)
     /\ UNCHANGED retired

Release(slot) ==
  \/ /\ WillRetire(slot)
     /\ generations' = [generations EXCEPT ![slot] = @ - 1]
     /\ retired' = retired + 1
     /\ UNCHANGED free
  \/ /\ ~WillRetire(slot)
     /\ generations' = [generations EXCEPT ![slot] = @ + 1]
     /\ free' = Append(free, slot)
     /\ UNCHANGED retired

RemoveOrder(order) ==
  /\ orders' = orders \ {order}
  /\ Release(SlotOf(order.id))
  /\ UNCHANGED next_seq

\* Write through the reference to a resting order.
Update(order, updated) ==
  /\ orders' = (orders \ {order}) \cup {updated}
  /\ UNCHANGED <<generations, free, retired, next_seq>>

\* Mutant: two orders get the same sequence number.
InsertWithoutSeq(order, slot) ==
  /\ free' = Front(free)
  /\ generations' = [generations EXCEPT ![slot] = @ + 1]
  /\ orders' = orders \cup {order}
  /\ UNCHANGED <<next_seq, retired>>

\* alloc() and the push that always follows it.
Insert(order, slot) ==
  /\ free' = Front(free)
  /\ generations' = [generations EXCEPT ![slot] = @ + 1]
  /\ orders' = orders \cup {order}
  /\ next_seq' = next_seq + 1
  /\ UNCHANGED retired

----------------------------------------------------------------------------
\* Looking orders up

OrdersOn(side) == {o \in orders : o.side = side}

\* Mutant: the oldest order first, whatever its price.
OlderThan(o, p) == o.seq < p.seq

\* o is matched before p: a better price, or the same one and earlier.
Before(o, p) ==
  \/ o.price # p.price /\ Crosses(o.side, o.price, p.price)
  \/ o.price = p.price /\ o.seq < p.seq

Best(side) ==
  CHOOSE o \in OrdersOn(side) : \A p \in OrdersOn(side) \ {o} : Before(o, p)

Marketable(side, limit) ==
  LET makers == OrdersOn(Opposite(side))
  IN  makers # {} /\ Crosses(side, limit, Best(Opposite(side)).price)

\* lookup(): the order with this id, if account owns it.
Owned(account, id) == {o \in orders : o.id = id /\ o.account = account}

----------------------------------------------------------------------------
\* Ways to leave process() and to call submit()

Return(events) ==
  /\ pc' = "done"
  /\ taker' = None
  /\ out' = out \o events

Reject(reason) == Return(<<Rejected(reason)>>) /\ UNCHANGED book

CallSubmit(account, side, qty, kind) ==
  /\ pc' = "submit"
  /\ taker' = [account |-> account, side |-> side, kind |-> kind,
               qty |-> qty, remaining |-> qty]

----------------------------------------------------------------------------
\* Commands

NewOrder(account, side, qty, kind) ==
  LET badPrice == kind.price # None /\ ~PriceOk(kind.price)
  IN  /\ pc = "ready"
      /\ \/ badPrice /\ Reject("InvalidPrice")
         \/ ~badPrice /\ ~QtyOk(qty) /\ Reject("InvalidQty")
         \/ /\ ~badPrice /\ QtyOk(qty)
            /\ CallSubmit(account, side, qty, kind)
            /\ UNCHANGED <<book, out>>

Cancel(account, id) ==
  /\ pc = "ready"
  /\ \/ Owned(account, id) = {} /\ Reject("UnknownOrStaleId")
     \/ \E o \in Owned(account, id) :
          /\ RemoveOrder(o)
          /\ Return(<<Cancelled(id, o.remaining, "User")>>)

\* Mutant: reports the new total as what remains.
ReduceToReportingTotal(o, total) ==
  /\ Update(o, [o EXCEPT !.remaining = total - o.filled])
  /\ Return(<<Reduced(o.id, o.filled, total)>>)

\* The order keeps its place with a smaller remainder.
ReduceTo(o, total) ==
  /\ Update(o, [o EXCEPT !.remaining = total - o.filled])
  /\ Return(<<Reduced(o.id, o.filled, total - o.filled)>>)

\* Mutant: no case for a total below what has been filled.
ReduceOwnedUnchecked(o, total) ==
  \/ total > o.filled + o.remaining /\ Reject("InvalidChange")
  \/ total <= o.filled + o.remaining /\ ReduceTo(o, total)

\* The rest of reduce(), for the order o it found.
ReduceOwned(o, total) ==
  \/ /\ total <= o.filled
     /\ RemoveOrder(o)
     /\ Return(<<Cancelled(o.id, o.remaining, "ReduceToZero")>>)
  \/ total > o.filled + o.remaining /\ Reject("InvalidChange")
  \/ /\ o.filled < total /\ total <= o.filled + o.remaining
     /\ ReduceTo(o, total)

Reduce(account, id, total) ==
  /\ pc = "ready"
  /\ \/ Owned(account, id) = {} /\ Reject("UnknownOrStaleId")
     \/ \E o \in Owned(account, id) : ReduceOwned(o, total)

\* The static checks and the lookup of replace().
ReplaceRefused(account, id, price, total) ==
  \/ ~PriceOk(price) /\ Reject("InvalidPrice")
  \/ PriceOk(price) /\ total > MaxOrderQty /\ Reject("InvalidQty")
  \/ /\ PriceOk(price) /\ total <= MaxOrderQty
     /\ Owned(account, id) = {}
     /\ Reject("UnknownOrStaleId")

\* Mutant: a full book is left to submit() to find out.
ReplaceRefusalWithoutFull(o, price, post_only) ==
  IF post_only /\ Marketable(o.side, price) THEN "PostOnlyWouldCross" ELSE None

\* Why the order cannot be replaced, None if it can: submit() must not refuse
\* what is left of it once the old order is gone.
ReplaceRefusal(o, price, post_only) ==
  IF post_only /\ Marketable(o.side, price) THEN "PostOnlyWouldCross"
  ELSE IF free = <<>> /\ WillRetire(SlotOf(o.id)) THEN "BookFull"
  ELSE None

\* The rest of replace(), for the order o it found.
ReplaceOwned(o, price, total, post_only) ==
  LET refusal   == ReplaceRefusal(o, price, post_only)
      cancelOld == <<Cancelled(o.id, o.remaining, "Replaced")>>
      kind      == [type |-> IF post_only THEN "PostOnly" ELSE "Gtc",
                    price |-> price]
  IN  \/ /\ total <= o.filled
         /\ RemoveOrder(o)
         /\ Return(cancelOld)
      \/ total > o.filled /\ refusal # None /\ Reject(refusal)
      \/ /\ total > o.filled /\ refusal = None
         /\ RemoveOrder(o)
         /\ out' = cancelOld
         /\ CallSubmit(o.account, o.side, total - o.filled, kind)

Replace(account, id, price, total, post_only) ==
  /\ pc = "ready"
  /\ \/ ReplaceRefused(account, id, price, total)
     \/ /\ PriceOk(price) /\ total <= MaxOrderQty
        /\ \E o \in Owned(account, id) :
             ReplaceOwned(o, price, total, post_only)

----------------------------------------------------------------------------
\* submit()

Limit == LimitOf(taker.side, taker.kind)

\* Mutant: only a post-only order is refused when the book is full.
SubmitRefusalOfPostOnly ==
  IF taker.kind.type # "PostOnly" THEN None
  ELSE IF Marketable(taker.side, Limit) THEN "PostOnlyWouldCross"
  ELSE IF free = <<>> THEN "BookFull"
  ELSE None

\* Why submit() refuses the order before it touches the book, or None.
SubmitRefusal ==
  LET crosses == Marketable(taker.side, Limit)
  IN  IF taker.kind.type = "PostOnly" /\ crosses THEN "PostOnlyWouldCross"
      ELSE IF Rests(taker.kind) /\ ~crosses /\ free = <<>> THEN "BookFull"
      ELSE None

Submit ==
  /\ pc = "submit"
  /\ \/ SubmitRefusal # None /\ Reject(SubmitRefusal)
     \/ /\ SubmitRefusal = None
        /\ pc' = "match"
        /\ UNCHANGED <<book, taker, out>>

\* The loop goes on: there is a maker left that the taker can trade with.
Matching ==
  /\ pc = "match"
  /\ taker.remaining > 0
  /\ Marketable(taker.side, Limit)

Maker == Best(Opposite(taker.side))

Fill ==
  /\ Matching
  /\ Maker.account # taker.account
  /\ LET fill  == Min({taker.remaining, Maker.remaining})
         left  == Maker.remaining - fill
         trade == Trade(taker.side, Maker.id, Maker.price, fill, left)
     IN  /\ taker' = [taker EXCEPT !.remaining = @ - fill]
         /\ \/ /\ left = 0
               /\ RemoveOrder(Maker)
               /\ out' = out \o <<trade, MakerFilled(Maker.id)>>
            \/ /\ left > 0
               /\ Update(Maker, [Maker EXCEPT !.remaining = left,
                                              !.filled = @ + fill])
               /\ out' = Append(out, trade)
         /\ UNCHANGED pc

\* Mutant: reports the whole order as cancelled, what has traded included.
SelfTradeOfAll ==
  /\ Matching
  /\ Maker.account = taker.account
  /\ Return(<<Cancelled(None, taker.qty, "SelfTrade")>>)
  /\ UNCHANGED book

SelfTrade ==
  /\ Matching
  /\ Maker.account = taker.account
  /\ Return(<<Cancelled(None, taker.remaining, "SelfTrade")>>)
  /\ UNCHANGED book

Rest ==
  LET slot == Last(free)
      id   == OrderId(slot, generations[slot] + 1)
  IN  /\ free # <<>>
      /\ Insert([id |-> id, account |-> taker.account, side |-> taker.side,
                 price |-> Limit, remaining |-> taker.remaining, filled |-> 0,
                 seq |-> next_seq], slot)
      /\ Return(<<Rested(id, taker.remaining)>>)

\* After the loop: filled, not allowed to rest, rested, or out of slots.
Finish ==
  /\ pc = "match"
  /\ ~Matching
  /\ \/ taker.remaining = 0 /\ Return(<<Filled>>) /\ UNCHANGED book
     \/ /\ taker.remaining > 0 /\ ~Rests(taker.kind)
        /\ Return(<<Cancelled(None, taker.remaining, "Unfilled")>>)
        /\ UNCHANGED book
     \/ taker.remaining > 0 /\ Rests(taker.kind) /\ Rest
     \/ /\ taker.remaining > 0 /\ Rests(taker.kind) /\ free = <<>>
        /\ Return(<<Cancelled(None, taker.remaining, "CapacityExhausted")>>)
        /\ UNCHANGED book

\* The caller reads the events and clears the sink for the next command.
Drain ==
  /\ pc = "done"
  /\ pc' = "ready"
  /\ out' = <<>>
  /\ UNCHANGED <<book, taker>>

----------------------------------------------------------------------------
Command ==
  \E account \in Accounts :
    \/ \E side \in Sides, qty \in InputQtys, kind \in InputKinds :
         NewOrder(account, side, qty, kind)
    \/ \E id \in InputIds :
         \/ Cancel(account, id)
         \/ \E total \in InputQtys :
              \/ Reduce(account, id, total)
              \/ \E price \in InputPrices, post_only \in BOOLEAN :
                   Replace(account, id, price, total, post_only)

Running == Submit \/ Fill \/ SelfTrade \/ Finish

Next == Command \/ Running \/ Drain

Spec == Init /\ [][Next]_vars
----------------------------------------------------------------------------
(***************************************************************************)
(* Properties.  The letters are the ids of docs/invariants.md.             *)
(***************************************************************************)
Orders == [id : Slots \X Nat, account : Accounts, side : Sides, price : Nat,
           remaining : Nat, filled : Nat, seq : Nat]

Takers == [account : Accounts, side : Sides, kind : Kinds,
           qty : Nat, remaining : Nat]

ASSUME NoneIsNoTaker == None \notin Takers

BookTypeOK ==
  /\ generations \in [Slots -> Nat]
  /\ free \in Seq(Slots)
  /\ retired \in Nat
  /\ orders \subseteq Orders
  /\ next_seq \in Nat

ControlTypeOK ==
  /\ pc \in {"ready", "submit", "match", "done"}
  /\ pc \in {"submit", "match"} => taker \in Takers
  /\ pc \in {"ready", "done"} => taker = None

\* The state has the types of struct Reference and of submit()'s locals; a
\* taker exists exactly while submit() runs.
TypeOK == BookTypeOK /\ ControlTypeOK

LiveSlots == {SlotOf(o.id) : o \in orders}

SlotsCounted == Cardinality(orders) + Len(free) + retired = Capacity

OrdersHoldSlots ==
  \A o \in orders :
    /\ GenerationOf(o.id) = generations[SlotOf(o.id)]
    /\ GenerationOf(o.id) % 2 = 1
    /\ \A p \in orders : SlotOf(o.id) = SlotOf(p.id) => o = p

OddSlotsAreLive == \A s \in Slots : generations[s] % 2 = 1 => s \in LiveSlots

FreeSlotsAreFree ==
  \A i \in DOMAIN free :
    /\ generations[free[i]] % 2 = 0
    /\ free[i] \notin LiveSlots
    /\ \A j \in DOMAIN free : free[i] = free[j] => i = j

GenerationsBounded == \A s \in Slots : generations[s] <= GenerationLimit

\* S1, S2, S3, S4: every slot is live, free or retired and is counted once; a
\* resting order holds its slot alone, at the slot's generation; just the live
\* slots have odd generations; the free stack holds distinct slots, at even
\* generations, none of them live; and no generation passes the limit.
SlotAccounting ==
  /\ SlotsCounted
  /\ OrdersHoldSlots
  /\ OddSlotsAreLive
  /\ FreeSlotsAreFree
  /\ GenerationsBounded

\* N1, N2: whatever sequence of trades, reductions and replacements an order
\* has been through, it rests at a valid price with something left to trade,
\* and its filled and remaining quantities never add up to more than the
\* largest order.  (This is why the u32 sums of the code cannot overflow.)
OrdersValid ==
  \A o \in orders :
    /\ PriceOk(o.price)
    /\ o.remaining > 0
    /\ o.filled + o.remaining <= MaxOrderQty

\* L6: no resting buy order meets a resting sell order, between commands and
\* at every event inside one.
BookNotCrossed ==
  \A b, s \in orders :
    b.side = "Buy" /\ s.side = "Sell" => b.price < s.price

Events(type) == {i \in DOMAIN out : out[i].event = type}

Cancels(reason) == {i \in Events("Cancelled") : out[i].reason = reason}

\* M3, M7: every trade of a command trades something, the trades go from the
\* best price to worse ones, and each but the last has used its maker up.
TradesInOrder ==
  /\ \A i \in Events("Trade") : out[i].qty > 0
  /\ \A i, j \in Events("Trade") :
       i < j => /\ Crosses(out[i].taker_side, out[j].price, out[i].price)
                /\ out[i].maker_remaining = 0

\* E5, O3: a rejection is the only event of its
\* command.  A replacement is refused before the old order is cancelled or not
\* at all: the submit() that follows the cancellation never rejects.
RejectIsAlone == Events("Rejected") # {} => Len(out) = 1

\* docs/decisions/011-memory.md: a remainder is thrown away for lack of a slot
\* only if the command filled makers and the slots of all of them retired; and
\* never the remainder of a replacement, which has its old slot or another.
CapacityExhaustedIsRare ==
  Cancels("CapacityExhausted") # {} =>
    /\ Events("MakerFilled") # {}
    /\ \A i \in Events("MakerFilled") :
         generations[SlotOf(out[i].id)] < GenerationOf(out[i].id)
    /\ Cancels("Replaced") = {}

\* The quantity traded by a list of events.
Traded(events) ==
  SumFunction([i \in DOMAIN events |->
                 IF events[i].event = "Trade" THEN events[i].qty ELSE 0])

\* What its last event says became of the taker's remainder.
Remainder(event) == IF event.event \in {"Rested", "Cancelled"} THEN event.qty ELSE 0

\* E1: when submit() returns, the quantities of its trades and of its last
\* event add up to the quantity it was called with, or it has rejected.
TakerConserved ==
  [][taker # None /\ taker' = None =>
       \/ Last(out').event = "Rejected"
       \/ Traded(out') + Remainder(Last(out')) = taker.qty]_vars

NewEvents == {out'[i] : i \in {j \in DOMAIN out' : j > Len(out)}}

Ids(resting) == {o.id : o \in resting}

\* The event e says how much is left of the order o.
Tells(e, o) ==
  \/ e = Rested(o.id, o.remaining)
  \/ e = Reduced(o.id, o.filled, o.remaining)
  \/ e.event = "Trade" /\ e.maker_id = o.id /\ e.maker_remaining = o.remaining

\* The events of a step, by what they say of the book.
NewEventsOf(type) == {e \in NewEvents : e.event = type}

Entered == NewEventsOf("Rested")

Ended ==
  NewEventsOf("MakerFilled") \cup {e \in NewEventsOf("Cancelled") : e.id # None}

Reports ==
  Entered \cup NewEventsOf("Reduced")
         \cup {e \in NewEventsOf("Trade") : e.maker_remaining > 0}

TellTheBook ==
  /\ Ids(orders') \ Ids(orders) = Ids(Entered)
  /\ Ids(orders) \ Ids(orders') = Ids(Ended)
  /\ \A e \in Reports : \E o \in orders' : Tells(e, o)
  /\ \A o \in orders' \ orders : \E e \in Reports : Tells(e, o)

\* E2, E4: the events alone tell which orders rest and how much is left of
\* each: an id enters with Rested, leaves with MakerFilled or a cancellation
\* that names it; no event tells a quantity that is not the order's; and an
\* order changes only with an event that tells what is left of it.
EventsTellTheBook == [][TellTheBook]_vars

\* p is the order o, perhaps after a fill or a reduction.
InPlaceOf(p, o) ==
  /\ p.id = o.id /\ p.account = o.account
  /\ p.side = o.side /\ p.price = o.price /\ p.seq = o.seq
  /\ p.remaining + p.filled <= o.remaining + o.filled
  /\ p.filled > o.filled => p.remaining + p.filled = o.remaining + o.filled

KeepPlaces ==
  \A p \in orders' :
    IF p.id \in Ids(orders) THEN \E o \in orders : InPlaceOf(p, o)
                            ELSE \A o \in orders : o.seq < p.seq

\* O2, 007: while an order rests its owner, side, price and place in the queue
\* are fixed, and what is left of it only shrinks, by what its filled quantity
\* grows or by a reduction, never by both at once; a new order queues last.
RestingOrdersKeepTheirPlace == [][KeepPlaces]_vars

----------------------------------------------------------------------------
IsFree(slot) == \E i \in DOMAIN free : free[i] = slot

\* The highest generation the slot has had; a retired slot went back by one,
\* see release().
LastUsed(slot) ==
  IF IsFree(slot) \/ slot \in LiveSlots THEN generations[slot]
                                        ELSE generations[slot] + 1

\* An id was issued if its slot has reached its generation.
Status(id) ==
  IF id \in Ids(orders) THEN "live"
  ELSE IF GenerationOf(id) <= LastUsed(SlotOf(id)) THEN "done" ELSE "unissued"

LiveGenerations == {g \in 1 .. GenerationLimit : g % 2 = 1}

Statuses == [id \in Slots \X LiveGenerations |-> Status(id)]

Lifecycle == INSTANCE OrderLifecycle WITH status <- Statuses

\* S4: the engine's ids live the life docs/decisions/002-order-ids.md promises.
IdsNeverReused == Lifecycle!Spec
=============================================================================
