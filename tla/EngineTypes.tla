---------------------------- MODULE EngineTypes ----------------------------
(***************************************************************************)
(* The configuration, commands and events of src/types.rs, shared by both  *)
(* engines.                                                                *)
(*                                                                         *)
(* Abstracted: the request number and the timestamp of an envelope, which  *)
(* every event only copies; and the packing of an OrderId into one u64,    *)
(* which is a bijection between u64 and the pairs <<slot, generation>>     *)
(* used here.                                                              *)
(***************************************************************************)
EXTENDS Integers, Sequences

CONSTANTS
  MinTick, MaxTick,     \* Config: the valid prices are MinTick .. MaxTick
  MaxOrderQty,          \* Config: the largest order
  Capacity,             \* Config: number of slots
  GenerationLimit,      \* Config: the last generation a slot may reach
  Accounts,             \* the accounts the gateway sends commands for
  InputPrices,          \* the prices and quantities commands carry,
  InputQtys,            \*   valid and invalid ones
  InputTypes,           \* the kinds of order they carry
  None                  \* Option::None

\* Config::validate, which both constructors call before anything else.
ASSUME ConfigValid ==
  /\ MinTick \in Nat \ {0}
  /\ MaxTick \in Nat /\ MinTick <= MaxTick
  /\ MaxOrderQty \in Nat \ {0}
  /\ Capacity \in Nat \ {0}
  /\ GenerationLimit \in Nat \ {0}

RejectReasons == {"InvalidPrice", "InvalidQty", "PostOnlyWouldCross",
                  "BookFull", "UnknownOrStaleId", "InvalidChange"}

\* Price and Qty are unsigned; None is no price and no reason.
ASSUME InputsValid ==
  /\ InputPrices \subseteq Nat
  /\ InputQtys \subseteq Nat
  /\ None \notin InputPrices
  /\ None \notin RejectReasons
  /\ InputTypes \subseteq {"Gtc", "Ioc", "PostOnly", "Market"}

Slots == 0 .. Capacity - 1

\* What a gateway may send as an id: any slot, one of them out of range, any
\* generation, live, free or stale.
InputIds == (0 .. Capacity) \X (0 .. GenerationLimit)

\* An Option<OrderId> that is None names no order.
ASSUME NoneIsNoId == None \notin InputIds

OrderId(slot, generation) == <<slot, generation>>
SlotOf(id) == id[1]
GenerationOf(id) == id[2]

----------------------------------------------------------------------------
Sides == {"Buy", "Sell"}

Opposite(side) == IF side = "Buy" THEN "Sell" ELSE "Buy"

\* Mutant: an order at exactly the limit does not trade.
CrossesStrictly(side, limit, resting) ==
  IF side = "Buy" THEN resting < limit ELSE resting > limit

Crosses(side, limit, resting) ==
  IF side = "Buy" THEN resting <= limit ELSE resting >= limit

\* OrderKind with its time in force: Limit/Gtc, Limit/Ioc, Market, PostOnly.
Kinds == [type : {"Gtc", "Ioc", "PostOnly"}, price : InputPrices]
           \cup [type : {"Market"}, price : InputPrices \cup {None}]

InputKinds == {kind \in Kinds : kind.type \in InputTypes}

PriceOk(p) == MinTick <= p /\ p <= MaxTick

\* Mutant: the upper bound is not checked.
QtyPositive(q) == 1 <= q

QtyOk(q) == 1 <= q /\ q <= MaxOrderQty

LimitOf(side, kind) ==
  IF kind.price # None THEN kind.price
  ELSE IF side = "Buy" THEN MaxTick ELSE MinTick

Rests(kind) == kind.type \in {"Gtc", "PostOnly"}

----------------------------------------------------------------------------
\* Envelopes: a command with the account that sends it.
NewCommand(account, side, qty, kind) ==
  [cmd |-> "New", account |-> account, side |-> side, qty |-> qty,
   kind |-> kind]

CancelCommand(account, id) ==
  [cmd |-> "Cancel", account |-> account, id |-> id]

ReduceCommand(account, id, total) ==
  [cmd |-> "Reduce", account |-> account, id |-> id, total |-> total]

ReplaceCommand(account, id, price, total, post_only) ==
  [cmd |-> "Replace", account |-> account, id |-> id, price |-> price,
   total |-> total, post_only |-> post_only]

----------------------------------------------------------------------------
Rejected(reason) == [event |-> "Rejected", reason |-> reason]

Trade(side, id, price, qty, left) ==
  [event |-> "Trade", taker_side |-> side, maker_id |-> id, price |-> price,
   qty |-> qty, maker_remaining |-> left]

MakerFilled(id) == [event |-> "MakerFilled", id |-> id]

Rested(id, qty) == [event |-> "Rested", id |-> id, qty |-> qty]

Filled == [event |-> "Filled"]

Cancelled(id, qty, reason) ==
  [event |-> "Cancelled", id |-> id, qty |-> qty, reason |-> reason]

Reduced(id, filled, remaining) ==
  [event |-> "Reduced", id |-> id, filled |-> filled, remaining |-> remaining]
============================================================================
