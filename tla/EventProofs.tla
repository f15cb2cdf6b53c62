---------------------------- MODULE EventProofs ----------------------------
(***************************************************************************)
(* Theorems about the events of one command of the reference engine.       *)
(***************************************************************************)
EXTENDS ReferenceProofs

(***************************************************************************)
(* The inductive invariant, on top of Inv: what may have been emitted when *)
(* submit() is about to run and at each turn of its loop.                  *)
(***************************************************************************)
InSubmit == pc \in {"submit", "match"}

\* A command that has emitted something and calls submit() has removed an
\* order, and what the order leaves behind is enough not to be refused.
RejectInv ==
  /\ pc = "ready" => out = <<>>
  /\ InSubmit => Events("Rejected") = {}
  /\ pc = "submit" /\ out # <<>> => SubmitRefusal = None

\* While submit() runs, an empty free stack means that each maker filled so
\* far has retired its slot, and that no order was replaced; and an order that
\* may rest was let in only if it has a maker to fill.
CapacityInv ==
  /\ InSubmit =>
       /\ Cancels("CapacityExhausted") = {}
       /\ \A i \in Events("MakerFilled") : out[i].id \in Slots \X Nat
       /\ pc = "submit" => Events("MakerFilled") = {}
       /\ free = <<>> =>
            /\ Cancels("Replaced") = {}
            /\ \A i \in Events("MakerFilled") :
                 generations[SlotOf(out[i].id)] < GenerationOf(out[i].id)
  /\ pc = "match" /\ Rests(taker.kind) /\ taker.remaining > 0 /\ free = <<>> =>
       Events("MakerFilled") # {} \/ Marketable(taker.side, Limit)

\* While the loop runs, what has traded was at least as good as what is left,
\* and every maker but the last has been used up.
TradesInv ==
  /\ pc = "submit" => Events("Trade") = {}
  /\ pc = "match" =>
       \A i \in Events("Trade") :
         /\ out[i].taker_side = taker.side
         /\ out[i].price \in Nat
         /\ taker.remaining > 0 => out[i].maker_remaining = 0
         /\ \A o \in OrdersOn(Opposite(taker.side)) :
              Crosses(taker.side, o.price, out[i].price)

EventProperties == RejectIsAlone /\ CapacityExhaustedIsRare /\ TradesInOrder

EventInv ==
  IsSequence(out) /\ RejectInv /\ CapacityInv /\ TradesInv /\ EventProperties

----------------------------------------------------------------------------
(***************************************************************************)
(* How out grows                                                           *)
(***************************************************************************)
\* One more event at the end: the events of a type are the old ones, and the
\* new one if it has the type.
LEMMA OneMoreEvent ==
  ASSUME IsSequence(out), NEW e, out' = out \o <<e>>
  PROVE  /\ IsSequence(out') /\ Len(out') = Len(out) + 1 /\ Len(out) \in Nat
         /\ DOMAIN out = 1 .. Len(out)
         /\ \A i \in DOMAIN out : i \in DOMAIN out' /\ out'[i] = out[i]
         /\ Len(out) + 1 \in DOMAIN out' /\ out'[Len(out) + 1] = e
         /\ \A i \in DOMAIN out' : i \in DOMAIN out \/ i = Len(out) + 1
         /\ \A type : Events(type)' =
                        Events(type) \cup (IF e.event = type THEN {Len(out) + 1} ELSE {})
         /\ \A reason : Cancels(reason)' =
              Cancels(reason) \cup (IF e.event = "Cancelled" /\ e.reason = reason
                                   THEN {Len(out) + 1} ELSE {})
<1>1. /\ IsSequence(out') /\ Len(out') = Len(out) + 1 /\ Len(out) \in Nat
      /\ DOMAIN out = 1 .. Len(out)
      /\ \A i \in DOMAIN out : i \in DOMAIN out' /\ out'[i] = out[i]
      /\ Len(out) + 1 \in DOMAIN out' /\ out'[Len(out) + 1] = e
      /\ \A i \in DOMAIN out' : i \in DOMAIN out \/ i = Len(out) + 1
  BY Singleton, EmitFacts
<1>2. ASSUME NEW type
      PROVE  Events(type)' =
               Events(type) \cup (IF e.event = type THEN {Len(out) + 1} ELSE {})
  BY <1>1 DEF Events
<1>3. ASSUME NEW reason
      PROVE  Cancels(reason)' =
               Cancels(reason) \cup (IF e.event = "Cancelled" /\ e.reason = reason
                                    THEN {Len(out) + 1} ELSE {})
  <2>1. \A i \in Events("Cancelled") : i \in DOMAIN out /\ out'[i] = out[i]
    BY <1>1 DEF Events
  <2>2. Cancels(reason)' = {i \in Events("Cancelled")' : out'[i].reason = reason}
    BY DEF Cancels
  <2> QED BY <1>1, <1>2, <2>1, <2>2 DEF Cancels
<1> QED BY <1>1, <1>2, <1>3

\* An event of another type, or for another reason, leaves a selection alone.
LEMMA OtherEvents ==
  ASSUME IsSequence(out), NEW e, out' = out \o <<e>>
  PROVE  /\ \A type : e.event # type => Events(type)' = Events(type)
         /\ \A reason : e.event # "Cancelled" \/ e.reason # reason =>
                         Cancels(reason)' = Cancels(reason)
<1>1. /\ \A type : Events(type)' =
                      Events(type) \cup (IF e.event = type THEN {Len(out) + 1} ELSE {})
      /\ \A reason : Cancels(reason)' =
            Cancels(reason) \cup (IF e.event = "Cancelled" /\ e.reason = reason
                                 THEN {Len(out) + 1} ELSE {})
  BY OneMoreEvent
<1>2. ASSUME NEW type, e.event # type PROVE Events(type)' = Events(type)
  BY <1>1, <1>2
<1>3. ASSUME NEW reason, e.event # "Cancelled" \/ e.reason # reason
      PROVE  Cancels(reason)' = Cancels(reason)
  BY <1>1, <1>3
<1> QED BY <1>2, <1>3

\* The first event of a command.
LEMMA FirstEvent ==
  ASSUME out = <<>>, NEW e, out' = out \o <<e>>
  PROVE  /\ IsSequence(out') /\ Len(out') = 1
         /\ \A i \in DOMAIN out' : i = 1 /\ out'[i] = e
         /\ out' = <<e>>
  BY Singleton

----------------------------------------------------------------------------
(***************************************************************************)
(* The ways a command can end                                              *)
(***************************************************************************)

\* A command that emits one event, which is not about a lack of slots.
LEMMA SingleEventKeepsInv ==
  ASSUME out = <<>>, NEW e, Return(<<e>>),
         e.event \in {"Rejected", "Cancelled", "Reduced"},
         e.event = "Cancelled" => e.reason # "CapacityExhausted"
  PROVE  EventInv'
<1>1. /\ pc' = "done" /\ IsSequence(out') /\ Len(out') = 1
      /\ \A i \in DOMAIN out' : out'[i] = e
  BY FirstEvent DEF Return
<1>2. Events("Trade")' = {} /\ Cancels("CapacityExhausted")' = {}
  BY <1>1 DEF Events, Cancels
<1> QED BY <1>1, <1>2 DEF EventInv, RejectInv, CapacityInv, TradesInv, InSubmit,
                          EventProperties, RejectIsAlone,
                          CapacityExhaustedIsRare, TradesInOrder

\* A command that ends in the loop or after it with an event of its own.
LEMMA LastEventKeepsInv ==
  ASSUME EventInv, pc = "match", NEW e, Return(<<e>>),
         e.event \in {"Filled", "Cancelled", "Rested"},
         e.event = "Cancelled" => e.reason # "CapacityExhausted"
  PROVE  EventInv'
<1>1. /\ pc' = "done" /\ out' = out \o <<e>>
      /\ IsSequence(out) /\ Events("Rejected") = {}
      /\ Cancels("CapacityExhausted") = {}
      /\ TradesInOrder
  BY DEF Return, EventInv, RejectInv, CapacityInv, InSubmit, EventProperties
<1>2. /\ IsSequence(out')
      /\ Events("Rejected")' = {}
      /\ Events("Trade")' = Events("Trade")
      /\ \A i \in Events("Trade") : out'[i] = out[i]
  <2>1. IsSequence(out') /\ \A i \in DOMAIN out : out'[i] = out[i]
    BY <1>1, OneMoreEvent
  <2>2. \A type : e.event # type => Events(type)' = Events(type)
    BY <1>1, OtherEvents
  <2>3. e.event # "Rejected" /\ e.event # "Trade"
    OBVIOUS
  <2> QED BY <1>1, <2>1, <2>2, <2>3 DEF Events
<1>3. Cancels("CapacityExhausted")' = {}
  BY <1>1, OtherEvents
<1>4. TradesInOrder'
  BY <1>1, <1>2 DEF TradesInOrder
<1> QED BY <1>1, <1>2, <1>3, <1>4
        DEF EventInv, RejectInv, CapacityInv, TradesInv, InSubmit,
            EventProperties, RejectIsAlone, CapacityExhaustedIsRare

\* A remainder that is thrown away for lack of a slot: the loop has filled a
\* maker, for the order was let into a full book only to do so, and no maker
\* has given its slot back.
LEMMA CapacityExhaustedKeepsInv ==
  ASSUME Inv, EventInv, pc = "match", ~Matching, taker.remaining > 0,
         Rests(taker.kind), free = <<>>, UNCHANGED book, NEW qty,
         Return(<<Cancelled(None, qty, "CapacityExhausted")>>)
  PROVE  EventInv'
<1>0. PICK e : e = Cancelled(None, qty, "CapacityExhausted")
  OBVIOUS
<1>1. /\ pc' = "done" /\ out' = out \o <<e>> /\ generations' = generations
      /\ e.event = "Cancelled" /\ e.reason = "CapacityExhausted"
  BY <1>0 DEF Return, Cancelled, book
<1>2. /\ IsSequence(out) /\ Events("Rejected") = {} /\ TradesInOrder
      /\ Cancels("Replaced") = {}
      /\ Events("MakerFilled") # {}
      /\ \A i \in Events("MakerFilled") :
           generations[SlotOf(out[i].id)] < GenerationOf(out[i].id)
  BY DEF EventInv, RejectInv, CapacityInv, InSubmit, EventProperties, Matching
<1>3. /\ IsSequence(out')
      /\ Events("Rejected")' = {}
      /\ Events("Trade")' = Events("Trade")
      /\ Events("MakerFilled")' = Events("MakerFilled")
      /\ \A i \in DOMAIN out : out'[i] = out[i]
  <2>1. IsSequence(out') /\ \A i \in DOMAIN out : out'[i] = out[i]
    BY <1>1, <1>2, OneMoreEvent
  <2>2. \A type : e.event # type => Events(type)' = Events(type)
    BY <1>1, <1>2, OtherEvents
  <2>3. e.event # "Rejected" /\ e.event # "Trade" /\ e.event # "MakerFilled"
    BY <1>1
  <2> QED BY <1>2, <2>1, <2>2, <2>3
<1>4. Cancels("Replaced")' = {}
  BY <1>1, <1>2, OtherEvents
<1>5. CapacityExhaustedIsRare'
  BY <1>1, <1>2, <1>3, <1>4 DEF CapacityExhaustedIsRare, Events
<1>6. TradesInOrder'
  BY <1>2, <1>3 DEF TradesInOrder, Events
<1> QED BY <1>1, <1>3, <1>5, <1>6
        DEF EventInv, RejectInv, CapacityInv, TradesInv, InSubmit,
            EventProperties, RejectIsAlone

----------------------------------------------------------------------------
(***************************************************************************)
(* The ways into the loop                                                  *)
(***************************************************************************)

\* Nothing has been emitted.
LEMMA NoEventsInv ==
  ASSUME out' = <<>>, pc' # "match"
  PROVE  EventInv'
<1>1. IsSequence(out') /\ DOMAIN out' = {}
  BY DEF IsSequence
<1>2. \A type : Events(type)' = {}
  BY <1>1 DEF Events
<1>3. \A reason : Cancels(reason)' = {}
  BY <1>2 DEF Cancels
<1> QED BY <1>1, <1>2, <1>3
        DEF EventInv, RejectInv, CapacityInv, TradesInv, InSubmit,
            EventProperties, RejectIsAlone, CapacityExhaustedIsRare,
            TradesInOrder

\* Whether a limit is marketable depends on the other side of the book only.
LEMMA SameMakersSameMarket ==
  ASSUME NEW side, NEW limit,
         OrdersOn(Opposite(side))' = OrdersOn(Opposite(side))
  PROVE  Marketable(side, limit)' = Marketable(side, limit)
  BY DEF Marketable, Best

\* replace() calls submit() for an order that submit() does not refuse: there
\* is a slot for it, and what replace() found on the other side is still there.
LEMMA CallFromReplaceKeepsInv ==
  ASSUME Inv, NEW o \in orders, NEW price \in InputPrices, PriceOk(price),
         NEW post_only \in BOOLEAN, NEW qty, NEW left,
         ReplaceRefusal(o, price, post_only) = None, RemoveOrder(o),
         out' = <<Cancelled(o.id, left, "Replaced")>>,
         CallSubmit(o.account, o.side, qty,
                    [type  |-> IF post_only THEN "PostOnly" ELSE "Gtc",
                     price |-> price])
  PROVE  EventInv'
<1>0. PICK e : e = Cancelled(o.id, left, "Replaced")
  OBVIOUS
<1>1. /\ IsSequence(out') /\ DOMAIN out' = {1} /\ out'[1] = e
      /\ e.event = "Cancelled" /\ e.reason = "Replaced"
  BY <1>0, Singleton DEF Cancelled
<1>2. \A type : type # "Cancelled" => Events(type)' = {}
  BY <1>1 DEF Events
<1>3. Cancels("CapacityExhausted")' = {}
  BY <1>1 DEF Events, Cancels
<1>4. PICK side \in Sides : side = o.side
  BY OrderFacts DEF Inv, Orders
<1>5. PICK kind : /\ kind = [type  |-> IF post_only THEN "PostOnly" ELSE "Gtc",
                             price |-> price]
                  /\ kind.price = price
                  /\ kind.type = IF post_only THEN "PostOnly" ELSE "Gtc"
  OBVIOUS
<1>6. /\ pc' = "submit" /\ taker'.side = side /\ taker'.kind = kind
  BY <1>4, <1>5 DEF CallSubmit
<1>7. price # None /\ None # "PostOnlyWouldCross" /\ None # "BookFull"
  BY InputsValid DEF RejectReasons
<1>8. Limit' = price
  BY <1>5, <1>6, <1>7 DEF Limit, LimitOf
<1>9. Marketable(side, price)' = Marketable(side, price)
  <2>1. OrdersOn(Opposite(side))' = OrdersOn(Opposite(side))
    BY <1>4 DEF RemoveOrder, OrdersOn, Opposite, Sides
  <2> QED BY <2>1, SameMakersSameMarket
<1>10. /\ ~(post_only /\ Marketable(side, price))
       /\ ~(free = <<>> /\ WillRetire(SlotOf(o.id)))
  BY <1>4, <1>7 DEF ReplaceRefusal
<1>11. free' # <<>>
  <2>1. free \in Seq(Slots)
    BY DEF Inv, BookInv, BookTypeOK
  <2>2. \/ free' = free /\ WillRetire(SlotOf(o.id))
        \/ free' = Append(free, SlotOf(o.id))
    BY DEF RemoveOrder, Release
  <2>3. SlotOf(o.id) \in Slots
    BY OrderFacts DEF Inv
  <2>4. Append(free, SlotOf(o.id)) # <<>>
    BY <2>1, <2>3
  <2> QED BY <1>10, <2>2, <2>4
<1>12. SubmitRefusal' = None
  <2>1. Marketable(taker.side, Limit)' = Marketable(side, price)'
    BY <1>6, <1>8 DEF Marketable, OrdersOn, Best
  <2> QED BY <1>5, <1>6, <1>9, <1>10, <1>11, <2>1 DEF SubmitRefusal
<1> QED BY <1>1, <1>2, <1>3, <1>6, <1>11, <1>12
        DEF EventInv, RejectInv, CapacityInv, TradesInv, InSubmit,
            EventProperties, RejectIsAlone, CapacityExhaustedIsRare,
            TradesInOrder

\* submit() refuses, or begins its loop with the events it was called with.
LEMMA SubmitKeepsEventInv ==
  ASSUME Inv, EventInv, Submit
  PROVE  EventInv'
<1>1. CASE SubmitRefusal # None /\ Reject(SubmitRefusal)
  <2>1. out = <<>>
    BY <1>1 DEF Submit, EventInv, RejectInv
  <2>2. PICK e : e = Rejected(SubmitRefusal)
    OBVIOUS
  <2>3. e.event = "Rejected"
    BY <2>2 DEF Rejected
  <2>4. Return(<<e>>)
    BY <1>1, <2>2 DEF Reject
  <2> QED BY <2>1, <2>3, <2>4, SingleEventKeepsInv
<1>2. CASE /\ pc = "submit" /\ SubmitRefusal = None
           /\ pc' = "match" /\ UNCHANGED <<book, taker, out>>
  <2>1. /\ out' = out /\ taker' = taker /\ orders' = orders /\ free' = free
        /\ generations' = generations
    BY <1>2 DEF book
  <2>2. /\ \A type : Events(type)' = Events(type)
        /\ \A reason : Cancels(reason)' = Cancels(reason)
        /\ Marketable(taker.side, Limit)' = Marketable(taker.side, Limit)
    BY <2>1 DEF Events, Cancels, Marketable, Best, OrdersOn, Limit
  <2>3. /\ IsSequence(out) /\ Events("Rejected") = {} /\ Events("Trade") = {}
        /\ Cancels("CapacityExhausted") = {} /\ Events("MakerFilled") = {}
        /\ free = <<>> => Cancels("Replaced") = {}
    BY <1>2 DEF EventInv, RejectInv, CapacityInv, TradesInv, InSubmit
  <2>4. Rests(taker.kind) /\ free = <<>> => Marketable(taker.side, Limit)
    BY <1>2, InputsValid DEF SubmitRefusal, RejectReasons
  <2> QED BY <1>2, <2>1, <2>2, <2>3, <2>4
          DEF EventInv, RejectInv, CapacityInv, TradesInv, InSubmit,
              EventProperties, RejectIsAlone, CapacityExhaustedIsRare,
              TradesInOrder
<1> QED BY <1>1, <1>2 DEF Submit

----------------------------------------------------------------------------
(***************************************************************************)
(* One turn of the loop                                                    *)
(***************************************************************************)

\* What a fill adds to the events: a trade, and the end of its maker if the
\* maker is used up.
LEMMA FillEvents ==
  ASSUME IsSequence(out), NEW e, NEW f, NEW ends \in BOOLEAN,
         e.event = "Trade", f.event = "MakerFilled",
         out' = IF ends THEN out \o <<e, f>> ELSE Append(out, e)
  PROVE  /\ IsSequence(out') /\ Len(out) \in Nat /\ DOMAIN out = 1 .. Len(out)
         /\ \A i \in DOMAIN out : out'[i] = out[i]
         /\ Events("Trade")' = Events("Trade") \cup {Len(out) + 1}
         /\ out'[Len(out) + 1] = e
         /\ Events("Rejected")' = Events("Rejected")
         /\ Events("Rested")' = Events("Rested")
         /\ Events("MakerFilled") \subseteq Events("MakerFilled")'
         /\ \A i \in Events("MakerFilled")' :
              \/ i \in Events("MakerFilled")
              \/ ends /\ out'[i] = f
         /\ ends => Events("MakerFilled")' # {}
         /\ \A reason : Cancels(reason)' = Cancels(reason)
<1>1. PICK t : /\ out' = out \o t /\ IsSequence(t) /\ t[1] = e
               /\ \/ DOMAIN t = {1}
                  \/ DOMAIN t = {1, 2} /\ t[2] = f /\ ends
               /\ ends => DOMAIN t = {1, 2} /\ t[2] = f
  <2>1. CASE ends
    <3>1. <<e, f>> \in Seq({e, f})
      OBVIOUS
    <3>2. DOMAIN <<e, f>> = {1, 2} /\ <<e, f>>[1] = e /\ <<e, f>>[2] = f
      OBVIOUS
    <3>3. IsSequence(<<e, f>>)
      BY <3>1 DEF IsSequence
    <3> QED BY <2>1, <3>2, <3>3
  <2>2. CASE ~ends
    <3>1. PICK S : out \in Seq(S)
      BY DEF IsSequence
    <3>2. out \in Seq(S \cup {e})
      BY <3>1
    <3>3. Append(out, e) = out \o <<e>>
      BY <3>2, AppendIsConcat
    <3> QED BY <2>2, <3>3, Singleton
  <2> QED BY <2>1, <2>2
<1>2. /\ IsSequence(out') /\ Len(out) \in Nat /\ DOMAIN out = 1 .. Len(out)
      /\ \A i \in DOMAIN out : i \in DOMAIN out' /\ out'[i] = out[i]
      /\ \A k \in DOMAIN t : Len(out) + k \in DOMAIN out' /\ out'[Len(out) + k] = t[k]
      /\ \A i \in DOMAIN out' : i \in DOMAIN out \/ \E k \in DOMAIN t : i = Len(out) + k
  <2>1. IsSequence(out) /\ IsSequence(t)
    BY <1>1
  <2>2. /\ IsSequence(out \o t) /\ Len(out) \in Nat /\ DOMAIN out = 1 .. Len(out)
        /\ \A i \in DOMAIN out : i \in DOMAIN (out \o t) /\ (out \o t)[i] = out[i]
        /\ \A k \in DOMAIN t : /\ Len(out) + k \in DOMAIN (out \o t)
                               /\ (out \o t)[Len(out) + k] = t[k]
        /\ \A i \in DOMAIN (out \o t) :
             i \in DOMAIN out \/ \E k \in DOMAIN t : i = Len(out) + k
    BY ONLY SMTT(30), <2>1, EmitFacts
  <2>3. out' = out \o t
    BY <1>1
  <2> QED BY ONLY <2>2, <2>3
<1>3. Len(out) + 1 \in DOMAIN out' /\ out'[Len(out) + 1] = e
  BY <1>1, <1>2
<1>4. \A i \in DOMAIN out' :
        \/ i \in DOMAIN out /\ out'[i] = out[i]
        \/ i = Len(out) + 1 /\ out'[i] = e
        \/ ends /\ out'[i] = f
  BY <1>1, <1>2
<1>5. ends => \E i \in DOMAIN out' : out'[i] = f
  BY <1>1, <1>2
<1>6. Events("Trade")' = Events("Trade") \cup {Len(out) + 1}
  BY <1>2, <1>3, <1>4 DEF Events
<1>7. /\ Events("Rejected")' = Events("Rejected")
      /\ Events("Rested")' = Events("Rested")
      /\ Events("Cancelled")' = Events("Cancelled")
  BY SMTT(30), <1>2, <1>4 DEF Events
<1>8. /\ Events("MakerFilled") \subseteq Events("MakerFilled")'
      /\ \A i \in Events("MakerFilled")' :
           \/ i \in Events("MakerFilled")
           \/ ends /\ out'[i] = f
      /\ ends => Events("MakerFilled")' # {}
  BY <1>2, <1>4, <1>5 DEF Events
<1>9. \A reason : Cancels(reason)' = Cancels(reason)
  BY <1>2, <1>7 DEF Cancels, Events
<1> QED BY <1>2, <1>3, <1>6, <1>7, <1>8, <1>9

\* A fill adds a trade, no worse than the next, and perhaps the end of its maker.
LEMMA FillKeepsEventInv ==
  ASSUME Inv, EventInv, Fill
  PROVE  EventInv'
<1>1. Matching /\ pc = "match" /\ pc' = "match"
  BY DEF Fill, Matching
<1>2. PICK m \in orders, q \in Nat \ {0}, left \in Nat, t \in Nat \ {0} :
        /\ m = Maker /\ q = Min({taker.remaining, Maker.remaining})
        /\ left = m.remaining - q /\ t = taker.remaining
        /\ t - q \in Nat /\ (t = q \/ left = 0)
        /\ m \in Orders /\ m.side = Opposite(taker.side)
        /\ \A r \in OrdersOn(Opposite(taker.side)) \ {m} : Before(m, r)
  <2>1. PICK m \in orders, t \in Nat \ {0}, k \in Nat \ {0} :
          /\ m = Maker /\ t = taker.remaining /\ k = m.remaining
          /\ m \in Orders /\ m.side = Opposite(taker.side)
          /\ \A r \in OrdersOn(Opposite(taker.side)) \ {m} : Before(m, r)
    BY <1>1, MakerRests
  <2>2. PICK q \in Nat \ {0} : /\ q = Min({taker.remaining, Maker.remaining})
                               /\ t - q \in Nat /\ k - q \in Nat /\ (t = q \/ k = q)
    BY <1>1, <2>1, FillQuantity
  <2>3. PICK left \in Nat : left = k - q /\ (t = q \/ left = 0)
    BY <2>2
  <2> QED BY <2>1, <2>2, <2>3
<1>3. PICK e, f : /\ e = Trade(taker.side, m.id, m.price, q, left)
                  /\ f = MakerFilled(m.id)
  OBVIOUS
<1>4. /\ e.event = "Trade" /\ e.taker_side = taker.side /\ e.price = m.price
      /\ e.qty = q /\ e.maker_remaining = left
      /\ f.event = "MakerFilled" /\ f.id = m.id
  BY <1>3 DEF Trade, MakerFilled
<1>5. PICK p : /\ taker' = [taker EXCEPT !.remaining = t - q]
               /\ p.price = m.price /\ p.side = m.side
               /\ \/ left = 0 /\ RemoveOrder(m)
                  \/ left > 0 /\ Update(m, p)
               /\ out' = IF left = 0 THEN out \o <<e, f>> ELSE Append(out, e)
  <2> DEFINE p == [Maker EXCEPT !.remaining = left, !.filled = @ + q]
  <2>1. p.price = m.price /\ p.side = m.side
    BY <1>2 DEF Orders
  <2>2. /\ taker' = [taker EXCEPT !.remaining = t - q]
        /\ \/ left = 0 /\ RemoveOrder(m)
           \/ left > 0 /\ Update(m, p)
        /\ out' = IF left = 0 THEN out \o <<e, f>> ELSE Append(out, e)
    BY <1>2, <1>3 DEF Fill
  <2> HIDE DEF p
  <2> QED BY <2>1, <2>2
<1>6. taker \in Takers /\ m.price \in Nat /\ taker.side \in Sides
  BY <1>1, <1>2, LimitIsValid DEF Inv, Orders, Takers
<1>7. PICK side \in Sides : /\ side = taker.side /\ taker'.side = side
                           /\ taker'.remaining = t - q
  BY <1>5, <1>6 DEF Takers
<1>8. PICK n \in Nat :
         /\ IsSequence(out') /\ n = Len(out) + 1 /\ DOMAIN out = 1 .. n - 1
         /\ \A i \in DOMAIN out : out'[i] = out[i]
         /\ Events("Trade")' = Events("Trade") \cup {n} /\ out'[n] = e
         /\ Events("Rejected")' = Events("Rejected")
         /\ \A i \in Events("MakerFilled")' :
              \/ i \in Events("MakerFilled")
              \/ left = 0 /\ out'[i] = f
         /\ left = 0 => Events("MakerFilled")' # {}
         /\ \A reason : Cancels(reason)' = Cancels(reason)
  <2>1. PICK ends \in BOOLEAN : ends <=> left = 0
    OBVIOUS
  <2>2. IsSequence(out) /\ out' = IF ends THEN out \o <<e, f>> ELSE Append(out, e)
    BY <1>5, <2>1 DEF EventInv
  <2>3. /\ IsSequence(out') /\ Len(out) \in Nat /\ DOMAIN out = 1 .. Len(out)
        /\ \A i \in DOMAIN out : out'[i] = out[i]
        /\ Events("Trade")' = Events("Trade") \cup {Len(out) + 1}
        /\ out'[Len(out) + 1] = e
        /\ Events("Rejected")' = Events("Rejected")
        /\ \A i \in Events("MakerFilled")' :
             \/ i \in Events("MakerFilled")
             \/ ends /\ out'[i] = f
        /\ ends => Events("MakerFilled")' # {}
        /\ \A reason : Cancels(reason)' = Cancels(reason)
    BY ONLY <2>2, <1>4, ends \in BOOLEAN, FillEvents
  <2>4. PICK n \in Nat : n = Len(out) + 1 /\ DOMAIN out = 1 .. n - 1
    <3>1. PICK k \in Nat : k = Len(out)
      BY <2>3
    <3>2. k + 1 \in Nat /\ (k + 1) - 1 = k
      OBVIOUS
    <3> QED BY <2>3, <3>1, <3>2
  <2> QED BY <2>1, <2>3, <2>4
<1>9. /\ Events("Rejected") = {} /\ Cancels("CapacityExhausted") = {}
      /\ \A i \in Events("MakerFilled") : out[i].id \in Slots \X Nat
      /\ free = <<>> =>
           /\ Cancels("Replaced") = {}
           /\ \A i \in Events("MakerFilled") :
                generations[SlotOf(out[i].id)] < GenerationOf(out[i].id)
  BY <1>1 DEF EventInv, RejectInv, CapacityInv, InSubmit
<1>10. \A i \in Events("Trade") :
         /\ i \in 1 .. n - 1 /\ out'[i] = out[i]
         /\ out[i].taker_side = taker.side /\ out[i].price \in Nat
         /\ out[i].maker_remaining = 0 /\ out[i].qty > 0
         /\ \A o \in OrdersOn(Opposite(taker.side)) :
              Crosses(taker.side, o.price, out[i].price)
  BY <1>1, <1>2, <1>8 DEF Events, EventInv, TradesInv, EventProperties, TradesInOrder
<1>11. RejectInv' /\ RejectIsAlone' /\ CapacityExhaustedIsRare'
  BY <1>1, <1>8, <1>9 DEF RejectInv, RejectIsAlone, CapacityExhaustedIsRare
<1>12. TradesInOrder'
  <2>1. \A i \in Events("Trade")' : out'[i].qty > 0
    BY <1>2, <1>4, <1>8, <1>10
  <2>2. m \in OrdersOn(Opposite(taker.side))
    BY <1>2 DEF OrdersOn
  <2>3. ASSUME NEW i \in Events("Trade")', NEW j \in Events("Trade")', i < j
        PROVE  /\ Crosses(out'[i].taker_side, out'[j].price, out'[i].price)
               /\ out'[i].maker_remaining = 0
    <3>1. CASE i \in Events("Trade") /\ j \in Events("Trade")
      BY <2>3, <3>1, <1>10 DEF EventInv, EventProperties, TradesInOrder
    <3>2. CASE i \in Events("Trade") /\ j = n
      BY <2>2, <3>2, <1>4, <1>8, <1>10
    <3>3. CASE i = n
      BY <2>3, <3>3, <1>8, <1>10
    <3> QED BY <3>1, <3>2, <3>3, <1>8
  <2> QED BY <2>1, <2>3 DEF TradesInOrder
<1>13. TradesInv'
  <2>1. \A o \in OrdersOn(Opposite(side))' :
          \E r \in OrdersOn(Opposite(side)) : r.price = o.price
    <3>1. CASE RemoveOrder(m)
      BY <3>1 DEF RemoveOrder, OrdersOn
    <3>2. CASE Update(m, p)
      BY <1>2, <1>5, <1>7, <3>2 DEF Update, OrdersOn
    <3> QED BY <1>5, <3>1, <3>2
  <2>2. \A r \in OrdersOn(Opposite(side)) : Crosses(side, r.price, m.price)
    <3> SUFFICES ASSUME NEW r \in OrdersOn(Opposite(side))
                 PROVE  Crosses(side, r.price, m.price)
      OBVIOUS
    <3>1. r.price \in Nat
      BY OrderFacts DEF OrdersOn, Inv, Orders
    <3>2. r.price = m.price \/ Crosses(Opposite(side), m.price, r.price)
      BY <1>2, <1>7 DEF Before
    <3> QED BY <1>6, <3>1, <3>2 DEF Crosses, Opposite, Sides
  <2>3. taker'.remaining > 0 => left = 0
    BY <1>2, <1>7
  <2>4. ASSUME NEW i \in Events("Trade")'
        PROVE  /\ out'[i].taker_side = side
               /\ out'[i].price \in Nat
               /\ taker'.remaining > 0 => out'[i].maker_remaining = 0
               /\ \A o \in OrdersOn(Opposite(side))' :
                    Crosses(side, o.price, out'[i].price)
    <3>1. CASE i \in Events("Trade")
      BY <3>1, <2>1, <1>7, <1>10
    <3>2. CASE i = n
      BY <3>2, <2>1, <2>2, <2>3, <1>4, <1>6, <1>7, <1>8
    <3> QED BY <3>1, <3>2, <1>8
  <2> QED BY <1>1, <1>7, <2>4 DEF TradesInv
<1>14. CapacityInv'
  <2>1. \A i \in Events("MakerFilled") : i \in DOMAIN out /\ out'[i] = out[i]
    BY <1>8 DEF Events
  <2>2. m.id \in Slots \X Nat
    BY <1>2 DEF Orders
  <2>3. \A i \in Events("MakerFilled")' : out'[i].id \in Slots \X Nat
    BY <2>1, <2>2, <1>4, <1>8, <1>9
  <2>4. PICK s \in Slots, g \in Nat :
          /\ s = SlotOf(m.id) /\ g = generations[s] /\ GenerationOf(m.id) = g
          /\ generations \in [Slots -> Nat] /\ free \in Seq(Slots)
    BY OrderFacts DEF Inv, BookInv, BookTypeOK, SlotAccounting, OrdersHoldSlots
  <2>5. ASSUME free' = <<>>, NEW i \in Events("MakerFilled")'
        PROVE  free = <<>> /\ generations'[SlotOf(out'[i].id)] < GenerationOf(out'[i].id)
    <3>1. CASE left > 0 /\ Update(m, p)
      <4>1. free' = free /\ generations' = generations
        BY <3>1 DEF Update
      <4>2. i \in Events("MakerFilled")
        BY <3>1, <1>5, <1>8
      <4> QED BY <4>1, <4>2, <2>1, <2>5, <1>9
    <3>2. CASE RemoveOrder(m)
      <4>1. Append(free, s) # <<>>
        BY <2>4
      <4>2. free' = free /\ generations' = [generations EXCEPT ![s] = g - 1]
        BY <2>4, <2>5, <3>2, <4>1 DEF RemoveOrder, Release
      <4>3. generations'[s] = g - 1 /\ g - 1 < g
        BY <2>4, <4>2
      <4>4. CASE out'[i] = f
        BY <1>4, <2>4, <2>5, <4>2, <4>3, <4>4
      <4>5. CASE i \in Events("MakerFilled")
        <5>1. PICK u \in Slots, k \in Nat : out[i].id = <<u, k>>
          BY <1>9, <4>5
        <5>2. generations[u] < k
          BY <1>9, <2>5, <4>2, <4>5, <5>1 DEF SlotOf, GenerationOf
        <5>3. generations'[u] < k
          <6>1. CASE u = s
            BY <2>4, <4>3, <5>2, <6>1
          <6>2. CASE u # s
            BY <2>4, <4>2, <5>2, <6>2
          <6> QED BY <6>1, <6>2
        <5> QED BY <2>1, <2>5, <4>2, <4>5, <5>1, <5>3 DEF SlotOf, GenerationOf
      <4> QED BY <1>8, <4>4, <4>5
    <3> QED BY <1>5, <3>1, <3>2
  <2>6. free' = <<>> => Cancels("Replaced")' = {}
    <3>1. ASSUME free' = <<>> PROVE free = <<>>
      <4>1. Append(free, s) # <<>>
        BY <2>4
      <4> QED BY <1>5, <2>4, <3>1, <4>1 DEF RemoveOrder, Release, Update
    <3> QED BY <1>8, <1>9, <3>1
  <2>7. taker'.remaining > 0 => Events("MakerFilled")' # {}
    BY <1>2, <1>5, <1>7, <1>8
  <2> QED BY <1>1, <1>8, <1>9, <2>3, <2>5, <2>6, <2>7 DEF CapacityInv, InSubmit
<1> QED BY <1>8, <1>11, <1>12, <1>13, <1>14 DEF EventInv, EventProperties

----------------------------------------------------------------------------
(***************************************************************************)
(* Every step keeps EventInv, and the theorems                             *)
(***************************************************************************)
LEMMA CancelKeepsEventInv ==
  ASSUME EventInv, NEW account, NEW id, Cancel(account, id)
  PROVE  EventInv'
<1>1. out = <<>>
  BY DEF Cancel, EventInv, RejectInv
<1>2. PICK e : /\ Return(<<e>>)
               /\ \/ e = Rejected("UnknownOrStaleId")
                  \/ \E o : e = Cancelled(id, o.remaining, "User")
  BY DEF Cancel, Reject
<1>3. /\ e.event \in {"Rejected", "Cancelled", "Reduced"}
      /\ e.event = "Cancelled" => e.reason # "CapacityExhausted"
  BY <1>2 DEF Rejected, Cancelled
<1> QED BY <1>1, <1>2, <1>3, SingleEventKeepsInv

\* reduce() emits one event.
LEMMA ReduceKeepsEventInv ==
  ASSUME EventInv, NEW account, NEW id, NEW total, Reduce(account, id, total)
  PROVE  EventInv'
<1>1. out = <<>>
  BY DEF Reduce, EventInv, RejectInv
<1>2. PICK e : /\ Return(<<e>>)
               /\ \/ \E reason : e = Rejected(reason)
                  \/ \E o : e = Cancelled(o.id, o.remaining, "ReduceToZero")
                  \/ \E o : e = Reduced(o.id, o.filled, total - o.filled)
  BY DEF Reduce, ReduceOwned, ReduceTo, Reject
<1>3. /\ e.event \in {"Rejected", "Cancelled", "Reduced"}
      /\ e.event = "Cancelled" => e.reason # "CapacityExhausted"
  BY <1>2 DEF Rejected, Cancelled, Reduced
<1> QED BY <1>1, <1>2, <1>3, SingleEventKeepsInv

\* replace() refuses, cancels, or cancels and calls submit().
LEMMA ReplaceKeepsEventInv ==
  ASSUME Inv, EventInv, NEW account, NEW id, NEW price \in InputPrices,
         NEW total, NEW post_only \in BOOLEAN,
         Replace(account, id, price, total, post_only)
  PROVE  EventInv'
<1>1. out = <<>>
  BY DEF Replace, EventInv, RejectInv
<1>2. ASSUME NEW e, Return(<<e>>),
             \/ \E reason : e = Rejected(reason)
             \/ \E o : e = Cancelled(o.id, o.remaining, "Replaced")
      PROVE  EventInv'
  <2>1. /\ e.event \in {"Rejected", "Cancelled", "Reduced"}
        /\ e.event = "Cancelled" => e.reason # "CapacityExhausted"
    BY <1>2 DEF Rejected, Cancelled
  <2> QED BY <1>1, <1>2, <2>1, SingleEventKeepsInv
<1>3. CASE \E reason : Reject(reason)
  BY <1>2, <1>3 DEF Reject
<1>4. ASSUME PriceOk(price), NEW o \in Owned(account, id),
             ReplaceOwned(o, price, total, post_only)
      PROVE  EventInv'
  <2>1. o \in orders
    BY DEF Owned
  <2>2. CASE \E reason : Reject(reason)
    BY <1>3, <2>2
  <2>3. CASE Return(<<Cancelled(o.id, o.remaining, "Replaced")>>)
    BY <1>2, <2>3
  <2>4. CASE /\ ReplaceRefusal(o, price, post_only) = None /\ RemoveOrder(o)
             /\ out' = <<Cancelled(o.id, o.remaining, "Replaced")>>
             /\ CallSubmit(o.account, o.side, total - o.filled,
                           [type  |-> IF post_only THEN "PostOnly" ELSE "Gtc",
                            price |-> price])
    BY <1>4, <2>1, <2>4, CallFromReplaceKeepsInv
  <2> QED BY <1>4, <2>2, <2>3, <2>4 DEF ReplaceOwned
<1> QED BY <1>3, <1>4 DEF Replace, ReplaceRefused

\* new_order() refuses, or calls submit() with nothing emitted.
LEMMA NewOrderKeepsEventInv ==
  ASSUME EventInv, NEW account, NEW side, NEW qty, NEW kind,
         NewOrder(account, side, qty, kind)
  PROVE  EventInv'
<1>1. out = <<>>
  BY DEF NewOrder, EventInv, RejectInv
<1>2. ASSUME NEW reason, Reject(reason) PROVE EventInv'
  <2>1. PICK e : e = Rejected(reason)
    OBVIOUS
  <2>2. e.event = "Rejected"
    BY <2>1 DEF Rejected
  <2>3. Return(<<e>>)
    BY <1>2, <2>1 DEF Reject
  <2> QED BY <1>1, <2>2, <2>3, SingleEventKeepsInv
<1>3. CASE CallSubmit(account, side, qty, kind) /\ UNCHANGED out
  BY <1>1, <1>3, NoEventsInv DEF CallSubmit
<1> QED BY <1>2, <1>3 DEF NewOrder

\* The loop ends in a self-trade or runs out, with one more event.
LEMMA LeaveLoopKeepsEventInv ==
  ASSUME Inv, EventInv, SelfTrade \/ Finish
  PROVE  EventInv'
<1>1. ASSUME NEW e, pc = "match", Return(<<e>>),
             \/ e = Filled
             \/ \E qty : e = Cancelled(None, qty, "SelfTrade")
             \/ \E qty : e = Cancelled(None, qty, "Unfilled")
             \/ \E id, qty : e = Rested(id, qty)
      PROVE  EventInv'
  <2>1. /\ e.event \in {"Filled", "Cancelled", "Rested"}
        /\ e.event = "Cancelled" => e.reason # "CapacityExhausted"
    BY <1>1 DEF Filled, Cancelled, Rested
  <2> QED BY <1>1, <2>1, LastEventKeepsInv
<1>2. CASE SelfTrade
  BY <1>1, <1>2 DEF SelfTrade, Matching
<1>3. CASE Finish
  <2>1. CASE \/ Return(<<Filled>>)
             \/ Return(<<Cancelled(None, taker.remaining, "Unfilled")>>)
    BY <1>1, <1>3, <2>1 DEF Finish
  <2>2. CASE Rest
    BY <1>1, <1>3, <2>2 DEF Finish, Rest
  <2>3. CASE /\ taker.remaining > 0 /\ Rests(taker.kind) /\ free = <<>>
             /\ Return(<<Cancelled(None, taker.remaining, "CapacityExhausted")>>)
             /\ UNCHANGED book
    BY <1>3, <2>3, CapacityExhaustedKeepsInv DEF Finish
  <2> QED BY <1>3, <2>1, <2>2, <2>3 DEF Finish
<1> QED BY <1>2, <1>3

\* A step that changes nothing.
LEMMA StutterKeepsEventInv ==
  ASSUME EventInv, UNCHANGED vars
  PROVE  EventInv'
<1>1. /\ pc' = pc /\ out' = out /\ taker' = taker /\ orders' = orders
      /\ free' = free /\ generations' = generations
  BY DEF vars
<1>2. /\ \A type : Events(type)' = Events(type)
      /\ \A reason : Cancels(reason)' = Cancels(reason)
      /\ \A side : OrdersOn(side)' = OrdersOn(side)
      /\ Marketable(taker.side, Limit)' = Marketable(taker.side, Limit)
  BY <1>1 DEF Events, Cancels, Marketable, Best, OrdersOn, Limit
<1>3. SubmitRefusal' = SubmitRefusal
  BY <1>1, <1>2 DEF SubmitRefusal
<1>4. EventProperties'
  BY <1>1, <1>2 DEF EventInv, EventProperties, RejectIsAlone,
                    CapacityExhaustedIsRare, TradesInOrder
<1>5. RejectInv' /\ CapacityInv'
  BY <1>1, <1>2, <1>3 DEF EventInv, RejectInv, CapacityInv, InSubmit
<1>6. TradesInv'
  BY <1>1 DEF EventInv, TradesInv, Events, OrdersOn
<1> QED BY <1>1, <1>4, <1>5, <1>6 DEF EventInv

\* Every step keeps the invariant.
LEMMA NextKeepsEventInv ==
  ASSUME Inv, EventInv, [Next]_vars
  PROVE  EventInv'
<1>1. CASE Command
  BY <1>1, CancelKeepsEventInv, ReduceKeepsEventInv, ReplaceKeepsEventInv,
     NewOrderKeepsEventInv DEF Command
<1>2. CASE Drain
  BY <1>2, NoEventsInv DEF Drain
<1> QED BY <1>1, <1>2, SubmitKeepsEventInv, FillKeepsEventInv,
           LeaveLoopKeepsEventInv, StutterKeepsEventInv DEF Next, Running

\* The engine starts without events.
LEMMA InitEventInv == Init => EventInv
<1> SUFFICES ASSUME Init PROVE EventInv
  OBVIOUS
<1>1. out = <<>> /\ pc = "ready" /\ IsSequence(out) /\ DOMAIN out = {}
  BY DEF Init, IsSequence
<1>2. \A type : Events(type) = {}
  BY <1>1 DEF Events
<1>3. Cancels("CapacityExhausted") = {}
  BY <1>2 DEF Cancels
<1> QED BY <1>1, <1>2, <1>3
        DEF EventInv, RejectInv, CapacityInv, TradesInv, InSubmit,
            EventProperties, RejectIsAlone, CapacityExhaustedIsRare,
            TradesInOrder

\* The invariant about the events of a command holds in every reachable state.
LEMMA EventInvHolds == Spec => []EventInv
<1>1. Init => EventInv
  BY InitEventInv
<1>2. Inv /\ EventInv /\ [Next]_vars => EventInv'
  BY NextKeepsEventInv
<1>3. Spec => []Inv
  BY InvHolds
<1> QED BY <1>1, <1>2, <1>3, PTL DEF Spec

\* E5, O3: whatever the configuration and the commands, a command that is
\* refused does nothing else: no event comes before or after the rejection.
THEOREM RefusalsAreAlone == Spec => []RejectIsAlone
<1>1. EventInv => RejectIsAlone
  BY DEF EventInv, EventProperties
<1> QED BY <1>1, EventInvHolds, PTL

\* 011: a remainder is thrown away for lack of a slot only when the slots of
\* all the makers it filled have retired, and a replacement's never is.
THEOREM CapacityIsRarelyExhausted == Spec => []CapacityExhaustedIsRare
<1>1. EventInv => CapacityExhaustedIsRare
  BY DEF EventInv, EventProperties
<1> QED BY <1>1, EventInvHolds, PTL

\* M3, M7: an order trades at the best prices first, and uses up each maker
\* before it takes the next.
THEOREM TradesFromTheBest == Spec => []TradesInOrder
<1>1. EventInv => TradesInOrder
  BY DEF EventInv, EventProperties
<1> QED BY <1>1, EventInvHolds, PTL

----------------------------------------------------------------------------
(***************************************************************************)
(* E1: no quantity is lost                                                 *)
(***************************************************************************)
\* What each event of a list says was traded.
TradedIn(events) ==
  [i \in DOMAIN events |-> IF events[i].event = "Trade" THEN events[i].qty ELSE 0]

QuantitiesValid(events) ==
  \A i \in DOMAIN events : events[i].event = "Trade" => events[i].qty \in Nat

\* While submit() runs, what has traded and what is left of the taker are what
\* it was called with.
ConservationInv ==
  InSubmit => /\ QuantitiesValid(out)
              /\ Traded(out) + taker.remaining = taker.qty

\* One more event adds what it says was traded.
LEMMA TradedGrows ==
  ASSUME NEW s, IsSequence(s), QuantitiesValid(s), NEW e,
         e.event = "Trade" => e.qty \in Nat
  PROVE  /\ QuantitiesValid(s \o <<e>>)
         /\ Traded(s) \in Nat
         /\ Traded(s \o <<e>>) = Traded(s) + (IF e.event = "Trade" THEN e.qty ELSE 0)
<1> DEFINE t == s \o <<e>>
           f == TradedIn(s)
           g == TradedIn(t)
           q == IF e.event = "Trade" THEN e.qty ELSE 0
<1>1. PICK n \in Nat : /\ DOMAIN s = 1 .. n /\ DOMAIN t = 1 .. n + 1
                       /\ \A i \in 1 .. n : t[i] = s[i]
                       /\ t[n + 1] = e
  <2>1. IsSequence(<<e>>) /\ DOMAIN <<e>> = {1} /\ <<e>>[1] = e /\ Len(<<e>>) = 1
    BY Singleton
  <2>2. /\ IsSequence(t)
        /\ Len(s) \in Nat /\ Len(<<e>>) \in Nat
        /\ Len(t) = Len(s) + Len(<<e>>)
        /\ DOMAIN s = 1 .. Len(s) /\ DOMAIN <<e>> = 1 .. Len(<<e>>)
        /\ DOMAIN t = 1 .. Len(s) + Len(<<e>>)
        /\ \A i \in DOMAIN s : i \in DOMAIN t /\ t[i] = s[i]
        /\ \A k \in DOMAIN <<e>> : /\ Len(s) + k \in DOMAIN t
                                   /\ t[Len(s) + k] = <<e>>[k]
    BY <2>1, EmitFacts
  <2> HIDE DEF t
  <2> QED BY <2>1, <2>2
<1> HIDE DEF t
<1>2. /\ 1 .. n + 1 = (1 .. n) \cup {n + 1} /\ (1 .. n + 1) \ {n + 1} = 1 .. n
      /\ n + 1 \in 1 .. n + 1 /\ n + 1 \notin 1 .. n
      /\ IsFiniteSet(1 .. n) /\ IsFiniteSet(1 .. n + 1)
  <2>1. n + 1 \in Nat
    OBVIOUS
  <2>2. IsFiniteSet(1 .. n) /\ IsFiniteSet(1 .. n + 1)
    BY <2>1, FS_Interval
  <2> QED BY <2>1, <2>2
<1>3. q \in Nat
  OBVIOUS
<1>4. /\ \A i \in 1 .. n : f[i] \in Nat /\ g[i] = f[i]
      /\ g[n + 1] = q
      /\ DOMAIN f = 1 .. n /\ DOMAIN g = 1 .. n + 1
  BY <1>1, <1>2 DEF TradedIn, QuantitiesValid
<1>5. QuantitiesValid(t)
  BY <1>1, <1>2 DEF QuantitiesValid
<1>6. Traded(s) = SumFunctionOnSet(f, 1 .. n) /\ Traded(t) = SumFunctionOnSet(g, 1 .. n + 1)
  BY <1>4 DEF Traded, TradedIn, SumFunction
<1> HIDE DEF f, g, q
<1>7. /\ SumFunctionOnSet(f, 1 .. n) \in Nat
      /\ SumFunctionOnSet(g, 1 .. n) = SumFunctionOnSet(f, 1 .. n)
  BY <1>2, <1>4, SumOfNaturals, SumOfSameValues
<1>8. SumFunctionOnSet(g, 1 .. n + 1) = g[n + 1] + SumFunctionOnSet(g, 1 .. n)
  <2>1. \A i \in 1 .. n + 1 : g[i] \in Int
    BY <1>2, <1>3, <1>4
  <2> QED BY <1>2, <2>1, SumWithout
<1>9. Traded(t) = Traded(s) + q
  BY <1>3, <1>4, <1>6, <1>7, <1>8
<1> QED BY <1>5, <1>6, <1>7, <1>9 DEF t, q

LEMMA Pair ==
  ASSUME NEW e, NEW f
  PROVE  <<e>> \o <<f>> = <<e, f>>
<1>1. <<e>> \in Seq({e, f}) /\ f \in {e, f}
  OBVIOUS
<1>2. Append(<<e>>, f) = <<e>> \o <<f>>
  BY <1>1, AppendIsConcat
<1>3. Append(<<e>>, f) = <<e, f>>
  <2>1. /\ <<e, f>> \in Seq({e, f}) /\ Len(<<e, f>>) = 2
        /\ <<e, f>>[1] = e /\ <<e, f>>[2] = f
    OBVIOUS
  <2>2. /\ Append(<<e>>, f) \in Seq({e, f}) /\ Len(Append(<<e>>, f)) = 2
        /\ Append(<<e>>, f)[1] = e /\ Append(<<e>>, f)[2] = f
    BY <1>1
  <2>3. \A i \in 1 .. 2 : i = 1 \/ i = 2
    OBVIOUS
  <2> QED BY <2>1, <2>2, <2>3, SeqEqual
<1> QED BY <1>2, <1>3

\* No trades, nothing traded.
LEMMA NothingTraded ==
  ASSUME NEW s, IsSequence(s), \A i \in DOMAIN s : s[i].event # "Trade"
  PROVE  QuantitiesValid(s) /\ Traded(s) = 0
<1>1. PICK n \in Nat : DOMAIN s = 1 .. n
  <2>1. PICK S : s \in Seq(S)
    BY DEF IsSequence
  <2> QED BY <2>1, LenProperties
<1>2. IsFiniteSet(1 .. n)
  BY FS_Interval
<1> DEFINE f == TradedIn(s)
<1>3. DOMAIN f = 1 .. n /\ \A i \in 1 .. n : f[i] \in Nat /\ f[i] = 0
  BY <1>1 DEF TradedIn
<1>4. Traded(s) = SumFunctionOnSet(f, 1 .. n)
  BY <1>3 DEF Traded, TradedIn, SumFunction
<1> HIDE DEF f
<1>5. SumFunctionOnSet(f, 1 .. n) = 0
  BY <1>2, <1>3, SumOfNaturals
<1> QED BY <1>4, <1>5 DEF QuantitiesValid

\* submit() is called with all of the taker left and nothing traded.
LEMMA CallConserves ==
  ASSUME NEW account, NEW side, NEW qty \in Nat, NEW kind,
         CallSubmit(account, side, qty, kind),
         IsSequence(out'), \A i \in DOMAIN out' : out'[i].event # "Trade"
  PROVE  ConservationInv'
<1>1. taker'.remaining = qty /\ taker'.qty = qty
  BY DEF CallSubmit
<1>2. QuantitiesValid(out') /\ Traded(out') = 0
  BY NothingTraded
<1> QED BY <1>1, <1>2 DEF ConservationInv

\* A fill gives to the trades what it takes from the taker.
LEMMA FillConserves ==
  ASSUME Inv, EventInv, ConservationInv, Fill
  PROVE  ConservationInv'
<1>1. Matching /\ pc = "match" /\ IsSequence(out)
  BY DEF Fill, Matching, EventInv
<1>2. PICK q \in Nat, t \in Nat :
        /\ q = Min({taker.remaining, Maker.remaining})
        /\ t = taker.remaining /\ t - q \in Nat
  <2>1. taker.remaining \in Nat
    BY <1>1 DEF Inv, ControlTypeOK, Takers
  <2> QED BY <1>1, <2>1, FillQuantity
<1>3. PICK e, f, left : /\ e = Trade(taker.side, Maker.id, Maker.price, q, left)
                        /\ left = Maker.remaining - q
                        /\ f = MakerFilled(Maker.id)
  OBVIOUS
<1>4. e.event = "Trade" /\ e.qty = q /\ f.event = "MakerFilled"
  BY <1>3 DEF Trade, MakerFilled
<1>5. /\ taker' = [taker EXCEPT !.remaining = t - q]
      /\ out' = out \o <<e, f>> \/ out' = Append(out, e)
  BY <1>2, <1>3 DEF Fill
<1>6. PICK total \in Nat : total = taker.qty /\ taker'.qty = total /\ taker'.remaining = t - q
  <2>1. taker \in Takers
    BY <1>1 DEF Inv, ControlTypeOK
  <2> QED BY <1>2, <1>5, <2>1 DEF Takers
<1>7. QuantitiesValid(out) /\ Traded(out) + t = total
  BY <1>1, <1>2, <1>6 DEF ConservationInv, InSubmit
<1> DEFINE one == out \o <<e>>
           two == one \o <<f>>
<1>8. /\ QuantitiesValid(one) /\ Traded(out) \in Nat /\ Traded(one) = Traded(out) + q
  BY <1>1, <1>4, <1>7, TradedGrows
<1>9. IsSequence(one)
  BY <1>1, Singleton, EmitFacts
<1>10. QuantitiesValid(two) /\ Traded(two) = Traded(one)
  <2> HIDE DEF one
  <2>1. /\ QuantitiesValid(two) /\ Traded(one) \in Nat /\ Traded(two) = Traded(one) + 0
    BY <1>4, <1>8, <1>9, TradedGrows
  <2> QED BY <2>1
<1>11. out' = one \/ out' = two
  <2>1. PICK S : out \in Seq(S)
    BY <1>1 DEF IsSequence
  <2>2. /\ out \in Seq(S \cup {e, f})
        /\ <<e>> \in Seq(S \cup {e, f}) /\ <<f>> \in Seq(S \cup {e, f})
    BY <2>1
  <2>3. Append(out, e) = one
    BY <2>2, AppendIsConcat
  <2>4. two = out \o (<<e>> \o <<f>>)
    BY <2>2, ConcatAssociative
  <2>5. <<e>> \o <<f>> = <<e, f>>
    BY Pair
  <2> QED BY <1>5, <2>3, <2>4, <2>5
<1>12. QuantitiesValid(out') /\ Traded(out') = Traded(out) + q
  BY <1>8, <1>10, <1>11
<1>13. Traded(out') + (t - q) = total
  BY <1>7, <1>8, <1>12
<1> QED BY <1>6, <1>12, <1>13 DEF ConservationInv

\* What the action property asks of a step.
Conserved ==
  taker # None /\ taker' = None =>
    \/ Last(out').event = "Rejected"
    \/ Traded(out') + Remainder(Last(out')) = taker.qty

\* submit() returns with an event that says what became of the rest.
LEMMA LastEventConserves ==
  ASSUME Inv, EventInv, ConservationInv, InSubmit, NEW e, Return(<<e>>),
         e.event # "Trade",
         e.event # "Rejected" => Remainder(e) = taker.remaining
  PROVE  ConservationInv' /\ Conserved
<1>1. pc' = "done" /\ out' = out \o <<e>> /\ IsSequence(out)
  BY DEF Return, EventInv
<1>2. ConservationInv'
  BY <1>1 DEF ConservationInv, InSubmit
<1>3. Last(out') = e
  <2>1. /\ Len(out') = Len(out) + 1 /\ out'[Len(out) + 1] = e
    BY <1>1, OneMoreEvent
  <2> QED BY <2>1 DEF Last
<1>4. /\ QuantitiesValid(out) /\ Traded(out) + taker.remaining = taker.qty
      /\ taker.remaining \in Nat
  BY DEF ConservationInv, Inv, ControlTypeOK, InSubmit, Takers
<1>5. Traded(out) \in Nat /\ Traded(out') = Traded(out) + 0
  BY <1>1, <1>4, TradedGrows
<1>6. Traded(out') = Traded(out)
  BY <1>5
<1> QED BY <1>2, <1>3, <1>4, <1>6 DEF Conserved

\* A command begins with nothing traded, if it comes to submit() at all.
LEMMA CommandConserves ==
  ASSUME Inv, EventInv, ConservationInv, Command
  PROVE  ConservationInv' /\ Conserved
<1>1. pc = "ready"
  BY DEF Command, NewOrder, Cancel, Reduce, Replace, ReplaceRefused, Reject
<1>2. out = <<>> /\ taker = None
  BY <1>1 DEF EventInv, RejectInv, Inv, ControlTypeOK
<1>3. CASE \E events : Return(events)
  BY <1>2, <1>3 DEF Return, ConservationInv, InSubmit, Conserved
<1>4. CASE \E reason : Reject(reason)
  BY <1>3, <1>4 DEF Reject
<1>5. ASSUME NEW account \in Accounts, NEW side \in Sides, NEW qty \in InputQtys,
             NEW kind \in InputKinds, NewOrder(account, side, qty, kind)
      PROVE  ConservationInv'
  <2>1. CASE CallSubmit(account, side, qty, kind) /\ UNCHANGED out
    <3>1. out' = <<>> /\ IsSequence(out') /\ DOMAIN out' = {} /\ qty \in Nat
      BY <1>2, <2>1, InputsValid DEF IsSequence
    <3> QED BY <2>1, <3>1, CallConserves
  <2> QED BY <1>4, <1>5, <2>1 DEF NewOrder
<1>6. ASSUME NEW account \in Accounts, NEW id \in InputIds, NEW total \in InputQtys,
             NEW price \in InputPrices, NEW post_only \in BOOLEAN,
             Replace(account, id, price, total, post_only)
      PROVE  ConservationInv'
  <2>1. ASSUME NEW o \in Owned(account, id), ReplaceOwned(o, price, total, post_only)
        PROVE  ConservationInv'
    <3>1. PICK f \in Nat, n \in Nat : f = o.filled /\ n = total
      <4>1. o \in orders
        BY DEF Owned
      <4> QED BY <4>1, InputsValid, OrderFacts DEF Inv, Orders
    <3>0. PICK e : e = Cancelled(o.id, o.remaining, "Replaced")
      OBVIOUS
    <3>2. e = Cancelled(o.id, o.remaining, "Replaced") /\ e.event = "Cancelled"
      BY <3>0 DEF Cancelled
    <3>3. ASSUME n > f, out' = <<e>>, NEW kind,
                 CallSubmit(o.account, o.side, total - o.filled, kind)
          PROVE  ConservationInv'
      <4>1. PICK qty \in Nat : qty = total - o.filled
        BY <3>1, <3>3
      <4>2. IsSequence(out') /\ \A i \in DOMAIN out' : out'[i].event # "Trade"
        BY <3>2, <3>3, Singleton
      <4> QED BY <3>3, <4>1, <4>2, CallConserves
    <3> QED BY <1>3, <1>4, <2>1, <3>1, <3>2, <3>3 DEF ReplaceOwned
  <2> QED BY <1>4, <1>6, <2>1 DEF Replace, ReplaceRefused
<1>7. CASE \E account, id : Cancel(account, id)
  BY <1>3, <1>4, <1>7 DEF Cancel
<1>8. CASE \E account, id, total : Reduce(account, id, total)
  BY <1>3, <1>4, <1>8 DEF Reduce, ReduceOwned, ReduceTo
<1>9. ConservationInv'
  BY <1>5, <1>6, <1>7, <1>8 DEF Command
<1> QED BY <1>2, <1>9 DEF Conserved

\* Every step conserves the quantity of the taker.
LEMMA NextConserves ==
  ASSUME Inv, EventInv, ConservationInv, [Next]_vars
  PROVE  ConservationInv' /\ Conserved
<1>1. CASE Submit
  <2>1. CASE Reject(SubmitRefusal)
    <3>1. PICK e : e = Rejected(SubmitRefusal)
      OBVIOUS
    <3>2. e.event = "Rejected"
      BY <3>1 DEF Rejected
    <3> QED BY <1>1, <2>1, <3>1, <3>2, LastEventConserves DEF Submit, Reject, InSubmit
  <2>2. CASE pc = "submit" /\ pc' = "match" /\ UNCHANGED <<book, taker, out>>
    BY <2>2 DEF ConservationInv, InSubmit, Conserved
  <2> QED BY <1>1, <2>1, <2>2 DEF Submit
<1>2. CASE Fill
  <2>1. taker' # None
    <3>2. pc' = "match"
      BY <1>2 DEF Fill, Matching
    <3>3. Inv'
      BY <1>2, FillKeepsInv
    <3>4. taker' \in Takers
      BY <3>2, <3>3 DEF Inv, ControlTypeOK
    <3> QED BY <3>4, NoneIsNoTaker
  <2> QED BY <1>2, <2>1, FillConserves DEF Conserved
<1>3. ASSUME pc = "match", NEW e, Return(<<e>>),
             \/ e = Filled /\ taker.remaining = 0
             \/ \E reason : e = Cancelled(None, taker.remaining, reason)
             \/ \E id : e = Rested(id, taker.remaining)
      PROVE  ConservationInv' /\ Conserved
  <2>1. e.event # "Trade" /\ Remainder(e) = taker.remaining
    BY <1>3 DEF Filled, Cancelled, Rested, Remainder
  <2> QED BY <1>3, <2>1, LastEventConserves DEF InSubmit
<1>4. CASE SelfTrade
  BY <1>3, <1>4 DEF SelfTrade, Matching
<1>5. CASE Finish
  BY <1>3, <1>5 DEF Finish, Rest
<1>6. CASE Drain
  BY <1>6 DEF Drain, Conserved, ConservationInv, InSubmit
<1>7. CASE UNCHANGED vars
  BY <1>7 DEF vars, Conserved, ConservationInv, InSubmit
<1> QED BY <1>1, <1>2, <1>4, <1>5, <1>6, <1>7, CommandConserves DEF Next, Running

\* E1: when submit() returns, the quantities of its trades and of its last
\* event add up to the quantity it was called with, or it has rejected.
THEOREM NoQuantityLost == Spec => TakerConserved
<1>1. Init => ConservationInv
  BY DEF Init, ConservationInv, InSubmit
<1>2. Inv /\ EventInv /\ ConservationInv /\ [Next]_vars => ConservationInv'
  BY NextConserves
<1>3. Inv /\ EventInv /\ ConservationInv /\ [Next]_vars => [Conserved]_vars
  BY NextConserves
<1>4. Spec => [](Inv /\ EventInv)
  BY InvHolds, EventInvHolds, PTL
<1> QED BY <1>1, <1>2, <1>3, <1>4, PTL DEF Spec, TakerConserved, Conserved

----------------------------------------------------------------------------
(***************************************************************************)
(* The events alone tell the book: a theorem about every step of the       *)
(* reference engine.  The book is written in three ways only (an order     *)
(* goes, is changed in place, or comes), so the proof has one lemma for    *)
(* each way, and one for a step that leaves the book alone, each saying    *)
(* which events go with it; every action is shown to be one of these.      *)
(***************************************************************************)
(***************************************************************************)
(* The new events of a step                                                *)
(***************************************************************************)
\* A step that emits one event.
LEMMA OneNewEvent ==
  ASSUME IsSequence(out), NEW e, out' = out \o <<e>>
  PROVE  NewEvents = {e}
<1>1. /\ Len(out) \in Nat /\ DOMAIN out = 1 .. Len(out)
      /\ Len(out) + 1 \in DOMAIN out' /\ out'[Len(out) + 1] = e
      /\ \A i \in DOMAIN out' : i \in DOMAIN out \/ i = Len(out) + 1
  BY OneMoreEvent
<1>2. \A i \in DOMAIN out' : i > Len(out) <=> i = Len(out) + 1
  BY <1>1
<1> QED BY <1>1, <1>2 DEF NewEvents

\* A step that emits two.
LEMMA TwoNewEvents ==
  ASSUME IsSequence(out), NEW e, NEW f, out' = out \o <<e, f>>
  PROVE  NewEvents = {e, f}
<1>1. PICK t : t = <<e, f>> /\ IsSequence(t)
  <2>1. <<e, f>> \in Seq({e, f})
    OBVIOUS
  <2> QED BY <2>1 DEF IsSequence
<1>2. t[1] = e /\ t[2] = f /\ DOMAIN t = {1, 2}
  BY <1>1
<1>3. IsSequence(out) /\ IsSequence(t)
  BY <1>1
<1>4. /\ IsSequence(out \o t)
      /\ Len(out) \in Nat /\ Len(t) \in Nat
      /\ Len(out \o t) = Len(out) + Len(t)
      /\ DOMAIN out = 1 .. Len(out) /\ DOMAIN t = 1 .. Len(t)
      /\ DOMAIN (out \o t) = 1 .. Len(out) + Len(t)
      /\ \A i \in DOMAIN out : i \in DOMAIN (out \o t) /\ (out \o t)[i] = out[i]
      /\ \A k \in DOMAIN t : /\ Len(out) + k \in DOMAIN (out \o t)
                             /\ (out \o t)[Len(out) + k] = t[k]
      /\ \A i \in DOMAIN (out \o t) :
           \/ i \in DOMAIN out
           \/ \E k \in DOMAIN t : i = Len(out) + k
  BY ONLY <1>3, EmitFacts
<1>5. PICK n \in Nat :
        /\ n = Len(out) /\ DOMAIN out = 1 .. n
        /\ n + 1 \in DOMAIN out' /\ out'[n + 1] = e
        /\ n + 2 \in DOMAIN out' /\ out'[n + 2] = f
        /\ \A i \in DOMAIN out' : i \in 1 .. n \/ i = n + 1 \/ i = n + 2
  BY <1>1, <1>2, <1>4
<1>6. \A i \in DOMAIN out' : i > n <=> i = n + 1 \/ i = n + 2
  BY <1>5
<1> QED BY <1>5, <1>6 DEF NewEvents

\* A step that emits nothing, and the one that clears the sink.
LEMMA NoNewEvents ==
  ASSUME IsSequence(out), out' = out \/ out' = <<>>
  PROVE  NewEvents = {}
<1>1. Len(out) \in Nat /\ DOMAIN out = 1 .. Len(out)
  BY DEF IsSequence
<1>2. CASE out' = out
  BY <1>1, <1>2 DEF NewEvents
<1>3. CASE out' = <<>>
  BY <1>3 DEF NewEvents
<1> QED BY <1>2, <1>3

----------------------------------------------------------------------------
(***************************************************************************)
(* Orders and ids                                                          *)
(***************************************************************************)
\* An id names one order, and None names none.
LEMMA IdsOfOrders ==
  ASSUME BookInv
  PROVE  /\ \A o, p \in orders : o.id = p.id => o = p
         /\ \A o \in orders : o.id # None
<1>1. ASSUME NEW o \in orders PROVE o.id # None
  <2>1. /\ o.id \in Slots \X Nat
        /\ GenerationOf(o.id) = generations[SlotOf(o.id)]
        /\ generations[SlotOf(o.id)] <= GenerationLimit
    BY OrderFacts DEF BookInv, SlotAccounting, OrdersHoldSlots, GenerationsBounded
  <2>2. PICK s \in Slots, g \in Nat : o.id = <<s, g>> /\ g <= GenerationLimit
    BY <2>1 DEF GenerationOf
  <2>3. o.id \in InputIds
    BY <2>2, ConfigValid DEF InputIds, Slots
  <2> QED BY <2>3, NoneIsNoId
<1>2. \A o, p \in orders : o.id = p.id => o = p
  BY DEF BookInv, SlotAccounting, OrdersHoldSlots
<1> QED BY <1>1, <1>2

\* An event that says nothing of the book.
Silent(e) ==
  /\ e.event \notin {"Rested", "MakerFilled", "Reduced", "Trade"}
  /\ e.event = "Cancelled" => e.id = None

\* The book is left alone, and no event says otherwise.
LEMMA NothingToTell ==
  ASSUME orders' = orders, \A e \in NewEvents : Silent(e)
  PROVE  TellTheBook
<1>1. Entered = {} /\ Ended = {} /\ Reports = {}
  BY DEF Silent, Entered, Ended, Reports, NewEventsOf
<1> QED BY <1>1 DEF TellTheBook, Ids

\* An order goes, and one event names it as gone; there may be a trade that
\* left nothing of it.
LEMMA RemovalIsTold ==
  ASSUME BookInv, NEW o \in orders, RemoveOrder(o), NEW e \in NewEvents,
         e.id = o.id, e.event \in {"MakerFilled", "Cancelled"},
         \A f \in NewEvents :
           f = e \/ (f.event = "Trade" /\ f.maker_remaining = 0)
  PROVE  TellTheBook
<1>1. orders' = orders \ {o}
  BY DEF RemoveOrder
<1>2. /\ \A p \in orders : o.id = p.id => o = p
      /\ o.id # None
  BY IdsOfOrders
<1>3. Ids(orders') \ Ids(orders) = {} /\ Ids(orders) \ Ids(orders') = {o.id}
  BY <1>1, <1>2 DEF Ids
<1>4. Entered = {} /\ Ended = {e} /\ Reports = {}
  <2>1. \A f \in NewEvents : f.event \in {"MakerFilled", "Cancelled"} => f = e
    OBVIOUS
  <2>2. \A f \in NewEvents : /\ f.event \notin {"Rested", "Reduced"}
                             /\ f.event = "Trade" => f.maker_remaining = 0
    OBVIOUS
  <2>3. Entered = {} /\ Reports = {}
    BY <2>2 DEF Entered, Reports, NewEventsOf
  <2>4. Ended = {e}
    BY <1>2, <2>1 DEF Ended, NewEventsOf
  <2> QED BY <2>3, <2>4
<1> QED BY <1>1, <1>3, <1>4 DEF TellTheBook, Ids

\* An order is changed in place, and the one event tells what is left of it.
LEMMA UpdateIsTold ==
  ASSUME NEW o \in orders, NEW p, Update(o, p), p.id = o.id,
         NEW e, NewEvents = {e}, Tells(e, p),
         e.event = "Reduced" \/ (e.event = "Trade" /\ e.maker_remaining > 0)
  PROVE  TellTheBook
<1>1. orders' = (orders \ {o}) \cup {p}
  BY DEF Update
<1>2. Ids(orders') = Ids(orders)
  BY <1>1 DEF Ids
<1>3. Entered = {} /\ Ended = {} /\ Reports = {e}
  BY DEF Entered, Ended, Reports, NewEventsOf
<1>4. orders' \ orders \subseteq {p} /\ p \in orders'
  BY <1>1
<1> QED BY <1>2, <1>3, <1>4 DEF TellTheBook, Ids

\* An order comes with an id no order has, and the one event tells it.
LEMMA InsertIsTold ==
  ASSUME NEW o, orders' = orders \cup {o}, o.id \notin Ids(orders),
         NEW e, NewEvents = {e}, Tells(e, o), e.event = "Rested", e.id = o.id
  PROVE  TellTheBook
<1>1. Ids(orders') \ Ids(orders) = {o.id} /\ Ids(orders) \ Ids(orders') = {}
  BY DEF Ids
<1>2. Entered = {e} /\ Ended = {} /\ Reports = {e}
  BY DEF Entered, Ended, Reports, NewEventsOf
<1>3. orders' \ orders \subseteq {o} /\ o \in orders'
  OBVIOUS
<1> QED BY <1>1, <1>2, <1>3 DEF TellTheBook, Ids

----------------------------------------------------------------------------
(***************************************************************************)
(* The commands                                                            *)
(***************************************************************************)
\* A command that ends with one event.
LEMMA ReturnsOne ==
  ASSUME EventInv, NEW e, Return(<<e>>)
  PROVE  NewEvents = {e}
  BY OneNewEvent DEF EventInv, Return

\* A refusal changes nothing and says so.
LEMMA RejectTells ==
  ASSUME EventInv, NEW reason, Reject(reason)
  PROVE  TellTheBook
<1>1. PICK e : e = Rejected(reason)
  OBVIOUS
<1>2. Return(<<e>>) /\ orders' = orders
  BY <1>1 DEF Reject, book
<1>3. Silent(e)
  BY <1>1 DEF Rejected, Silent
<1>4. NewEvents = {e}
  BY <1>2, ReturnsOne
<1> QED BY <1>2, <1>3, <1>4, NothingToTell

\* A cancellation of what is left of a resting order, by its owner, by a
\* reduction to nothing or by a replacement.
LEMMA CancellationTells ==
  ASSUME Inv, EventInv, NEW o \in orders, RemoveOrder(o), NEW qty, NEW reason,
         \/ Return(<<Cancelled(o.id, qty, reason)>>)
         \/ out = <<>> /\ out' = <<Cancelled(o.id, qty, reason)>>
  PROVE  TellTheBook
<1>1. PICK e : e = Cancelled(o.id, qty, reason)
  OBVIOUS
<1>2. e.event = "Cancelled" /\ e.id = o.id
  BY <1>1 DEF Cancelled
<1>3. NewEvents = {e}
  <2>1. CASE Return(<<e>>)
    BY <2>1, ReturnsOne
  <2>2. CASE out = <<>> /\ out' = <<e>>
    <3>1. out' = out \o <<e>>
      BY <2>2, Singleton
    <3> QED BY <3>1, OneNewEvent DEF EventInv
  <2> QED BY <1>1, <2>1, <2>2
<1>4. /\ BookInv /\ e \in NewEvents /\ e.event \in {"MakerFilled", "Cancelled"}
      /\ \A f \in NewEvents : f = e
  BY <1>2, <1>3 DEF Inv
<1> QED BY ONLY <1>2, <1>4, o \in orders, RemoveOrder(o), RemovalIsTold

\* A reduction reports what is left of the order.
LEMMA ReductionTells ==
  ASSUME Inv, EventInv, NEW o \in orders, NEW total, ReduceTo(o, total)
  PROVE  TellTheBook
<1>1. PICK p : p = [o EXCEPT !.remaining = total - o.filled]
  OBVIOUS
<1>2. o \in Orders
  BY OrderFacts DEF Inv
<1>3. /\ p.id = o.id /\ p.filled = o.filled
      /\ p.remaining = total - o.filled
  BY <1>1, <1>2 DEF Orders
<1>4. PICK e : e = Reduced(p.id, p.filled, p.remaining)
  OBVIOUS
<1>5. Update(o, p) /\ Return(<<e>>)
  BY <1>1, <1>3, <1>4 DEF ReduceTo
<1>6. e.event = "Reduced" /\ Tells(e, p)
  BY <1>4 DEF Reduced, Tells
<1>7. NewEvents = {e}
  BY <1>5, ReturnsOne
<1> QED BY ONLY <1>3, <1>5, <1>6, <1>7, o \in orders, UpdateIsTold

\* Every command up to its return or its call of submit().
LEMMA CommandTells ==
  ASSUME Inv, EventInv, Command
  PROVE  TellTheBook
<1>1. pc = "ready" => out = <<>>
  BY DEF EventInv, RejectInv
<1>2. ASSUME NEW account, NEW side, NEW qty, NEW kind,
             NewOrder(account, side, qty, kind)
      PROVE  TellTheBook
  <2>1. CASE UNCHANGED <<book, out>>
    <3>1. NewEvents = {}
      BY <2>1, NoNewEvents DEF EventInv
    <3> QED BY <2>1, <3>1, NothingToTell DEF book
  <2> QED BY <1>2, <2>1, RejectTells DEF NewOrder
<1>3. ASSUME NEW account, NEW id, Cancel(account, id)
      PROVE  TellTheBook
  <2>1. ASSUME NEW o \in Owned(account, id), RemoveOrder(o),
               Return(<<Cancelled(id, o.remaining, "User")>>)
        PROVE  TellTheBook
    <3>1. o \in orders /\ o.id = id
      BY <2>1 DEF Owned
    <3> QED BY <2>1, <3>1, CancellationTells
  <2> QED BY <1>3, <2>1, RejectTells DEF Cancel
<1>4. ASSUME NEW account, NEW id, NEW total, Reduce(account, id, total)
      PROVE  TellTheBook
  <2>1. ASSUME NEW o \in Owned(account, id), ReduceOwned(o, total)
        PROVE  TellTheBook
    <3>1. o \in orders
      BY <2>1 DEF Owned
    <3> QED BY <2>1, <3>1, RejectTells, CancellationTells, ReductionTells
            DEF ReduceOwned
  <2> QED BY <1>4, <2>1, RejectTells DEF Reduce
<1>5. ASSUME NEW account, NEW id, NEW price, NEW total, NEW post_only,
             Replace(account, id, price, total, post_only)
      PROVE  TellTheBook
  <2>1. ASSUME NEW o \in Owned(account, id),
               ReplaceOwned(o, price, total, post_only), pc = "ready"
        PROVE  TellTheBook
    <3>1. o \in orders /\ out = <<>>
      BY <1>1, <2>1 DEF Owned
    <3> QED BY <2>1, <3>1, RejectTells, CancellationTells DEF ReplaceOwned
  <2> QED BY <1>5, <2>1, RejectTells DEF Replace, ReplaceRefused
<1> QED BY <1>2, <1>3, <1>4, <1>5 DEF Command

----------------------------------------------------------------------------
(***************************************************************************)
(* submit()                                                                *)
(***************************************************************************)
\* A trade reports what is left of its maker; the end of a maker is an event too.
LEMMA FillTells ==
  ASSUME Inv, EventInv, Fill
  PROVE  TellTheBook
<1>1. Matching /\ IsSequence(out)
  BY DEF Fill, EventInv
<1>2. PICK m \in orders, q, left \in Nat :
        /\ m = Maker /\ m \in Orders
        /\ q = Min({taker.remaining, Maker.remaining})
        /\ left = m.remaining - q
  <2>1. PICK m \in orders : m = Maker /\ m \in Orders
    BY <1>1, MakerRests
  <2>2. PICK q \in Nat : /\ q = Min({taker.remaining, Maker.remaining})
                         /\ m.remaining - q \in Nat
    BY <1>1, <2>1, FillQuantity
  <2>3. PICK left \in Nat : left = m.remaining - q
    BY <2>2
  <2> QED BY <2>1, <2>2, <2>3
<1>3. PICK e, f : /\ e = Trade(taker.side, m.id, m.price, q, left)
                  /\ f = MakerFilled(m.id)
  OBVIOUS
<1>4. /\ e.event = "Trade" /\ e.maker_id = m.id /\ e.maker_remaining = left
      /\ f.event = "MakerFilled" /\ f.id = m.id
  BY <1>3 DEF Trade, MakerFilled
<1>5. CASE left = 0 /\ RemoveOrder(m) /\ out' = out \o <<e, f>>
  <2>1. NewEvents = {e, f}
    BY <1>1, <1>5, TwoNewEvents
  <2>2. /\ BookInv /\ f \in NewEvents /\ f.event \in {"MakerFilled", "Cancelled"}
        /\ \A g \in NewEvents : g = f \/ (g.event = "Trade" /\ g.maker_remaining = 0)
    BY <1>4, <1>5, <2>1 DEF Inv
  <2> QED BY ONLY <1>4, <1>5, <2>2, m \in orders, RemovalIsTold
<1>6. ASSUME NEW p, p = [m EXCEPT !.remaining = left, !.filled = @ + q],
             left > 0, Update(m, p), out' = Append(out, e)
      PROVE  TellTheBook
  <2>1. p.id = m.id /\ p.remaining = left
    BY <1>2, <1>6 DEF Orders
  <2>2. out' = out \o <<e>>
    <3>1. PICK S : out \in Seq(S)
      BY <1>1 DEF IsSequence
    <3>2. out \in Seq(S \cup {e})
      BY <3>1
    <3> QED BY <1>6, <3>2, AppendIsConcat
  <2>3. NewEvents = {e}
    BY <1>1, <2>2, OneNewEvent
  <2>4. Tells(e, p)
    BY <1>4, <2>1 DEF Tells
  <2> QED BY <1>4, <1>6, <2>1, <2>3, <2>4, UpdateIsTold
<1>7. \/ left = 0 /\ RemoveOrder(m) /\ out' = out \o <<e, f>>
      \/ \E p : /\ p = [m EXCEPT !.remaining = left, !.filled = @ + q]
                /\ left > 0 /\ Update(m, p) /\ out' = Append(out, e)
  BY <1>2, <1>3 DEF Fill
<1> QED BY <1>5, <1>6, <1>7

\* The order that comes to rest is reported with its new id.
LEMMA RestTells ==
  ASSUME Inv, EventInv, Rest
  PROVE  TellTheBook
<1>1. PICK s \in Slots : /\ s = Last(free) /\ s = free[Len(free)]
                         /\ Len(free) \in DOMAIN free
  <2>1. free \in Seq(Slots) /\ free # <<>>
    BY DEF Inv, BookInv, BookTypeOK, Rest
  <2> QED BY <2>1, FrontLast
<1>2. PICK o : o = [id |-> OrderId(s, generations[s] + 1), account |-> taker.account,
                    side |-> taker.side, price |-> Limit,
                    remaining |-> taker.remaining, filled |-> 0, seq |-> next_seq]
  OBVIOUS
<1>3. PICK e : e = Rested(o.id, o.remaining)
  OBVIOUS
<1>4. Insert(o, s) /\ Return(<<e>>)
  BY <1>1, <1>2, <1>3 DEF Rest
<1>5. o.id \notin Ids(orders)
  <2>1. s \notin LiveSlots
    BY <1>1 DEF Inv, BookInv, SlotAccounting, FreeSlotsAreFree
  <2>2. SlotOf(o.id) = s
    BY <1>2 DEF SlotOf, OrderId
  <2> QED BY <2>1, <2>2 DEF LiveSlots, Ids
<1>6. e.event = "Rested" /\ e.id = o.id /\ Tells(e, o)
  BY <1>3 DEF Rested, Tells
<1>7. orders' = orders \cup {o}
  BY <1>4 DEF Insert
<1>8. NewEvents = {e}
  BY <1>4, ReturnsOne
<1> QED BY <1>5, <1>6, <1>7, <1>8, InsertIsTold

\* The taker's own endings name no order.
LEMMA TakerEndTells ==
  ASSUME EventInv, UNCHANGED book, NEW e, Return(<<e>>),
         e = Filled \/ \E qty, reason : e = Cancelled(None, qty, reason)
  PROVE  TellTheBook
<1>1. Silent(e)
  BY DEF Filled, Cancelled, Silent
<1>2. NewEvents = {e} /\ orders' = orders
  BY ReturnsOne DEF book
<1> QED BY <1>1, <1>2, NothingToTell

\* The end of submit() tells of the order that rests, or of none.
LEMMA FinishTells ==
  ASSUME Inv, EventInv, Finish
  PROVE  TellTheBook
<1>1. \/ Rest
      \/ /\ UNCHANGED book
         /\ \E e : /\ Return(<<e>>)
                   /\ e = Filled \/ \E qty, reason : e = Cancelled(None, qty, reason)
  BY DEF Finish
<1> QED BY <1>1, RestTells, TakerEndTells

\* Self-trade prevention cancels the taker and leaves the maker alone.
LEMMA SelfTradeTells ==
  ASSUME EventInv, SelfTrade
  PROVE  TellTheBook
  BY TakerEndTells DEF SelfTrade

\* A step that emits nothing and leaves the book alone.
LEMMA QuietStepTells ==
  ASSUME EventInv, UNCHANGED book, out' = out \/ out' = <<>>
  PROVE  TellTheBook
<1>1. NewEvents = {} /\ orders' = orders
  BY NoNewEvents DEF EventInv, book
<1> QED BY <1>1, NothingToTell

\* Every step is told.
LEMMA NextTells ==
  ASSUME Inv, EventInv, [Next]_vars
  PROVE  TellTheBook
<1>1. CASE Submit
  BY <1>1, RejectTells, QuietStepTells DEF Submit
<1>2. CASE Drain \/ UNCHANGED vars
  BY <1>2, QuietStepTells DEF Drain, vars, book
<1> QED BY <1>1, <1>2, CommandTells, FillTells, SelfTradeTells, FinishTells
        DEF Next, Running

\* E2, E4: who reads every event of every command knows at each moment which
\* orders rest and how much is left of each, without ever seeing the book.
THEOREM BookIsTold == Spec => EventsTellTheBook
<1>1. Inv /\ EventInv /\ [Next]_vars => [TellTheBook]_vars
  BY NextTells
<1> QED BY <1>1, InvHolds, EventInvHolds, PTL DEF Spec, EventsTellTheBook
=============================================================================
