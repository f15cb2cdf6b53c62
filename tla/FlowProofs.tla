----------------------------- MODULE FlowProofs -----------------------------
(***************************************************************************)
(* The generator's list is the book, and its index leads to it: theorems   *)
(* about Workload beside FastBook.                                         *)
(*                                                                         *)
(* The generator learns of the book from the events of a command, one by   *)
(* one, when the command is over.  In between its list is behind: of an    *)
(* order that has gone, and of one that has come to rest, there is an      *)
(* event it has not read yet.  The invariant says that this is the only    *)
(* difference between the list and the book.                               *)
(***************************************************************************)
EXTENDS RecordedFlow, FastBookProofs

\* How many of the events the generator has read.
Read == IF env = None THEN Len(out) ELSE IF seen = None THEN 0 ELSE seen

Unread == {i \in DOMAIN out : i > Read}

\* The slot s of the book b is not retired.
InUse(b, s) == Live(b, s) \/ \E i \in DOMAIN b.free : b.free[i] = s

\* The id is not one that the book b may still give out.
Spent(b, id) ==
  /\ id \in Slots \X Nat
  /\ InUse(b, SlotOf(id)) => GenerationOf(id) <= b.slots[SlotOf(id)].generation

\* The id is that of a live order in the book b.
IdLive(b, id) == \E s \in Slots : Live(b, s) /\ id = IdOf(b, s)

\* The order that the tracked t stands for is in the slot s.
StandsIn(b, t, s) ==
  LET slot == b.slots[s]
  IN  /\ Live(b, s) /\ t.id = IdOf(b, s)
      /\ t.account = slot.account /\ t.side = slot.side
      /\ slot.remaining + slot.filled <= t.qty

----------------------------------------------------------------------------
\* An order in the list is in the book, or an unread event ends it.
ListedIsLive ==
  \A t \in Flow!Tracked :
    \/ \E s \in Slots : StandsIn(book, t, s)
    \/ \E j \in Unread : Flow!Ends(out[j]) /\ out[j].id = t.id

\* An order in the book is in the list, or an unread event tells of it.
LiveIsListed ==
  \A s \in Slots : Live(book, s) =>
    \/ \E t \in Flow!Tracked : StandsIn(book, t, s)
    \/ \E j \in Unread : out[j].event = "Rested" /\ out[j].id = IdOf(book, s)

\* An unread event ends an order that is not in the book, for good.
EndsAreFinal ==
  \A j \in Unread : Flow!Ends(out[j]) =>
    Spent(book, out[j].id) /\ ~IdLive(book, out[j].id)

\* The side that observe() takes for that of an order which rests.
SideRead == IF seen = None THEN Flow!SideOf ELSE side

\* What Track() makes of the event e.
TrackedAs(e, account, sd) ==
  [id |-> e.id, account |-> account, side |-> sd, qty |-> e.qty]

\* The last event may tell of an order that rests, with an id that is new.
RestIsNew ==
  \A j \in Unread : out[j].event = "Rested" =>
    LET t == TrackedAs(out[j], env.account, SideRead)
    IN  /\ j = Len(out)
        /\ \A u \in Flow!Tracked : u.id # t.id
        /\ t \in TrackedOrders
        /\ \E s \in Slots : StandsIn(book, t, s)

\* The id of an order in the list is not given out again.
ListIsSpent == \A t \in Flow!Tracked : Spent(book, t.id)

\* The list, the book and the unread events agree.
Consistent ==
  /\ IsSequence(out)
  /\ ListIsSpent /\ ListedIsLive /\ LiveIsListed
  /\ EndsAreFinal /\ RestIsNew

\* submit() runs for the command, and for a side the generator knows.
TakerIsSender ==
  pc \in {"submit", "match"} =>
    /\ taker.account = env.account
    /\ taker.side = Flow!SideOf
    /\ env.cmd = "New" => taker.kind = env.kind
    /\ \A i \in DOMAIN out : out[i].event # "Rested"

\* A command is made when the engine is ready for it, and observed when it is
\* done.
Turns ==
  /\ env \in Commands \cup {None}
  /\ pc = "ready" => env = None /\ out = <<>>
  /\ pc \in {"submit", "match"} => env # None
  /\ seen # None => pc = "done" /\ env # None

\* No event so far, and in the loop none of the reasons to refuse the order.
NothingDone ==
  /\ out = <<>> /\ taker.remaining = env.qty
  /\ pc = "match" => SubmitRefusal = None

\* A new order has traded, or all of it is there.
NewOrderRuns ==
  pc \in {"submit", "match"} /\ env.cmd = "New" =>
    /\ env.qty >= 1
    /\ \/ NothingDone
       \/ /\ pc = "match" /\ taker.kind.type # "PostOnly"
          /\ \E i \in DOMAIN out : out[i].event = "Trade"

FlowInv ==
  /\ Turns
  /\ FlowTypeOK /\ IndexLeadsToOrders
  /\ Consistent
  /\ TakerIsSender
  /\ OnlyLiveOrdersAddressed
  /\ NewOrderRuns /\ LabelsFit

----------------------------------------------------------------------------
(***************************************************************************)
(* What the events of a step say of the book before and the book after     *)
(***************************************************************************)
\* The order in the slot s is the same in both books, with no more to it.
SameOrder(b, c, s) ==
  /\ Live(b, s) /\ Live(c, s)
  /\ c.slots[s].generation = b.slots[s].generation
  /\ c.slots[s].account = b.slots[s].account
  /\ c.slots[s].side = b.slots[s].side
  /\ c.slots[s].remaining + c.slots[s].filled
       <= b.slots[s].remaining + b.slots[s].filled

\* The events tell just of the orders that go or come between b and c.
Tells(b, c, events) ==
  /\ \A id : Spent(b, id) => Spent(c, id)
  /\ \A s \in Slots : Live(b, s) =>
       \/ SameOrder(b, c, s)
       \/ \E k \in DOMAIN events :
            Flow!Ends(events[k]) /\ events[k].id = IdOf(b, s)
  /\ \A s \in Slots : Live(c, s) =>
       \/ SameOrder(b, c, s)
       \/ /\ ~Spent(b, IdOf(c, s))
          /\ \E k \in DOMAIN events :
               events[k].event = "Rested" /\ events[k].id = IdOf(c, s)
  /\ \A k \in DOMAIN events : Flow!Ends(events[k]) =>
       Spent(b, events[k].id) /\ ~IdLive(c, events[k].id)
  /\ \A k \in DOMAIN events : events[k].event = "Rested" =>
       ~Spent(b, events[k].id)

\* An event that neither ends an order nor tells of a new one.
Quiet(e) == e.event # "Rested" /\ ~Flow!Ends(e)

\* The id of a live order is not given out again.
LEMMA LiveIsSpent ==
  ASSUME NEW b \in Shapes, NEW s \in Slots
  PROVE  /\ SlotOf(IdOf(b, s)) = s
         /\ GenerationOf(IdOf(b, s)) = b.slots[s].generation
         /\ IdOf(b, s) \in Slots \X Nat
         /\ Spent(b, IdOf(b, s))
<1>1. b.slots[s].generation \in Nat
  BY SlotFacts
<1>2. IdOf(b, s) = <<s, b.slots[s].generation>>
  BY DEF IdOf, OrderId
<1>3. /\ SlotOf(IdOf(b, s)) = s
      /\ GenerationOf(IdOf(b, s)) = b.slots[s].generation
      /\ IdOf(b, s) \in Slots \X Nat
  BY <1>1, <1>2 DEF SlotOf, GenerationOf
<1> QED BY <1>1, <1>3 DEF Spent

\* Two live orders of a book have two ids.
LEMMA IdsDiffer ==
  ASSUME NEW b, NEW c, NEW s, NEW t, IdOf(b, s) = IdOf(c, t)
  PROVE  s = t /\ b.slots[s].generation = c.slots[t].generation
BY DEF IdOf, OrderId

\* A tracked order goes on standing for an order that stays.
LEMMA GoesOnStanding ==
  ASSUME NEW b \in Shapes, NEW c \in Shapes, NEW s \in Slots, SameOrder(b, c, s),
         NEW t, t.qty \in Nat, StandsIn(b, t, s)
  PROVE  StandsIn(c, t, s)
<1>1. IdOf(c, s) = IdOf(b, s)
  BY DEF SameOrder, IdOf
<1>2. /\ b.slots[s].remaining + b.slots[s].filled \in Nat
      /\ c.slots[s].remaining + c.slots[s].filled \in Nat
  BY SlotFacts
<1> QED BY <1>1, <1>2 DEF SameOrder, StandsIn

\* A step that leaves the book alone has nothing to tell.
LEMMA SameTells ==
  ASSUME NEW b \in Shapes, NEW events, \A k \in DOMAIN events : Quiet(events[k])
  PROVE  Tells(b, b, events)
<1>1. \A s \in Slots : Live(b, s) => SameOrder(b, b, s)
  BY SlotFacts DEF SameOrder
<1> QED BY <1>1 DEF Tells, Quiet

\* Nor has one that leaves an order with less.
LEMMA AmendTells ==
  ASSUME NEW b \in Shapes, NEW c \in Shapes, NEW s \in Slots,
         NEW left \in Nat, NEW filled \in Nat, Amends(b, c, s, left, filled),
         left + filled <= b.slots[s].remaining + b.slots[s].filled,
         NEW events, \A k \in DOMAIN events : Quiet(events[k])
  PROVE  Tells(b, c, events)
<1>1. \A i \in Slots :
        /\ c.slots[i].generation = b.slots[i].generation
        /\ c.slots[i].account = b.slots[i].account
        /\ c.slots[i].side = b.slots[i].side
        /\ Live(c, i) <=> Live(b, i)
  BY DEF Amends, Live
<1>2. \A i \in Slots : c.slots[i].remaining + c.slots[i].filled
                         <= b.slots[i].remaining + b.slots[i].filled
  <2> SUFFICES ASSUME NEW i \in Slots
               PROVE  c.slots[i].remaining + c.slots[i].filled
                        <= b.slots[i].remaining + b.slots[i].filled
    OBVIOUS
  <2>1. b.slots[i].remaining + b.slots[i].filled \in Nat
    BY SlotFacts
  <2>2. CASE i = s
    BY <2>2 DEF Amends
  <2>3. CASE i # s
    BY <2>1, <2>3 DEF Amends
  <2> QED BY <2>2, <2>3
<1>3. c.free = b.free
  BY DEF Amends
<1>4. \A i \in Slots : Live(b, i) => SameOrder(b, c, i)
  BY <1>1, <1>2 DEF SameOrder
<1>5. \A id : Spent(b, id) => Spent(c, id)
  <2> SUFFICES ASSUME NEW id, Spent(b, id)
               PROVE  Spent(c, id)
    OBVIOUS
  <2>1. id \in Slots \X Nat /\ SlotOf(id) \in Slots
    BY DEF Spent, SlotOf
  <2>2. InUse(c, SlotOf(id)) <=> InUse(b, SlotOf(id))
    BY <1>1, <1>3, <2>1 DEF InUse
  <2> QED BY <1>1, <2>1, <2>2 DEF Spent
<1> QED BY <1>1, <1>4, <1>5 DEF Tells, Quiet

\* The events that take an order off the book name it.
LEMMA RemovalTells ==
  ASSUME NEW b, NEW c, Sound(b), c \in Shapes,
         NEW s \in Slots, Live(b, s), Removes(b, c, s),
         NEW events,
         \E k \in DOMAIN events :
           Flow!Ends(events[k]) /\ events[k].id = IdOf(b, s),
         \A k \in DOMAIN events :
           \/ Quiet(events[k])
           \/ /\ events[k].event # "Rested" /\ Flow!Ends(events[k])
              /\ events[k].id = IdOf(b, s)
  PROVE  Tells(b, c, events)
<1>1. b \in Shapes /\ Counted(b)
  BY DEF Sound
<1>2. \A i \in Slots : /\ Live(c, i) <=> Live(b, i) /\ i # s
                       /\ i # s => KeepsOrder(b, c, i)
  BY DEF Removes
<1>3. \A i \in Slots : i # s /\ Live(b, i) => SameOrder(b, c, i)
  <2> SUFFICES ASSUME NEW i \in Slots, i # s, Live(b, i)
               PROVE  SameOrder(b, c, i)
    OBVIOUS
  <2>1. b.slots[i].remaining + b.slots[i].filled \in Nat
    BY <1>1, SlotFacts
  <2> QED BY <1>2, <2>1 DEF SameOrder, KeepsOrder
<1>4. \A i \in Slots : Live(c, i) => SameOrder(b, c, i)
  BY <1>2, <1>3
<1>5. \A id : Spent(b, id) => Spent(c, id)
  <2> SUFFICES ASSUME NEW id, Spent(b, id), InUse(c, SlotOf(id))
               PROVE  GenerationOf(id) <= c.slots[SlotOf(id)].generation
    BY DEF Spent
  <2> DEFINE x == SlotOf(id)
             g == GenerationOf(id)
  <2>1. x \in Slots /\ g \in Nat
    BY DEF Spent, SlotOf, GenerationOf
  <2>2. b.slots[s].generation \in Nat
    BY <1>1, SlotFacts
  <2>3. \A i \in DOMAIN b.free : b.free[i] # s
    BY <1>1 DEF Counted
  <2>4. /\ c.free = b.free /\ b.slots[s].generation + 2 > GenerationLimit
        \/ /\ c.slots[s].generation = b.slots[s].generation + 1
           /\ c.free = Append(b.free, s)
    BY DEF Removes
  <2>5. b.free \in Seq(Slots)
    BY <1>1 DEF Shapes
  <2>6. \A i \in DOMAIN c.free :
          \/ c.free[i] = s
          \/ i \in DOMAIN b.free /\ c.free[i] = b.free[i]
    BY <2>4, <2>5
  <2>7. CASE x = s
    <3>1. c.free # b.free
      BY <1>2, <2>1, <2>3, <2>7 DEF InUse
    <3>2. c.slots[s].generation = b.slots[s].generation + 1
      BY <2>4, <3>1
    <3>3. g <= b.slots[s].generation
      BY <2>1, <2>7 DEF Spent, InUse
    <3> HIDE DEF x, g
    <3> QED BY <2>1, <2>2, <2>7, <3>2, <3>3 DEF x, g
  <2>8. CASE x # s
    <3>1. InUse(b, x)
      BY <1>2, <2>1, <2>6, <2>8 DEF InUse
    <3>2. c.slots[x].generation = b.slots[x].generation
      BY <1>2, <2>1, <2>8 DEF KeepsOrder
    <3> QED BY <3>1, <3>2 DEF Spent
  <2> QED BY <2>7, <2>8
<1>6. Spent(b, IdOf(b, s)) /\ ~IdLive(c, IdOf(b, s))
  <2>1. Spent(b, IdOf(b, s))
    BY <1>1, LiveIsSpent
  <2>2. \A t \in Slots : Live(c, t) => IdOf(b, s) # IdOf(c, t)
    BY <1>2, IdsDiffer
  <2> QED BY <2>1, <2>2 DEF IdLive
<1>7. \A i \in Slots : Live(b, i) =>
        \/ SameOrder(b, c, i)
        \/ \E k \in DOMAIN events :
             Flow!Ends(events[k]) /\ events[k].id = IdOf(b, i)
  BY <1>3
<1>8. \A k \in DOMAIN events : /\ events[k].event # "Rested"
                               /\ Flow!Ends(events[k]) => events[k].id = IdOf(b, s)
  BY DEF Quiet
<1> QED BY <1>4, <1>5, <1>6, <1>7, <1>8 DEF Tells

\* The event of an order that comes to rest names it, with an id that no order
\* has had.
LEMMA RestTells ==
  ASSUME NEW b, Sound(b), b.free # <<>>, taker.side \in Sides, Limit \in Ticks,
         taker.remaining \in Nat, taker.account \in Accounts,
         NEW e, e.event = "Rested", e.id = IdOf(RestedIn(b), Last(b.free))
  PROVE  /\ Tells(b, RestedIn(b), <<e>>)
         /\ ~Spent(b, e.id)
<1> DEFINE c == RestedIn(b)
           s == Last(b.free)
<1>1. b \in Shapes /\ b.free \in Seq(Slots)
  BY DEF Sound, Shapes
<1>2. /\ c.free = Front(b.free)
      /\ c.slots[s].generation = b.slots[s].generation + 1
      /\ \A i \in Slots :
           /\ i # s => /\ c.slots[i].generation = b.slots[i].generation
                       /\ c.slots[i].remaining = b.slots[i].remaining
                       /\ c.slots[i].filled = b.slots[i].filled
                       /\ c.slots[i].account = b.slots[i].account
           /\ c.slots[i].side = IF i = s THEN taker.side ELSE b.slots[i].side
  BY <1>1, RestedFields
<1>3. /\ s \in Slots /\ ~Live(b, s) /\ c \in Shapes
      /\ \A i \in Slots : Live(c, i) <=> Live(b, i) \/ i = s
  BY RestIsSound DEF Sound
<1>4. PICK n \in Nat : /\ n >= 1 /\ DOMAIN b.free = 1 .. n /\ s = b.free[n]
                       /\ DOMAIN c.free = 1 .. n - 1
                       /\ \A i \in 1 .. n - 1 : c.free[i] = b.free[i]
  <2> DEFINE free == b.free
  <2> HIDE DEF c, s, free
  <2>1. c.free = Front(free) /\ s = Last(free) /\ free \in Seq(Slots) /\ free # <<>>
    BY <1>1, <1>2 DEF s, free
  <2>2. /\ Len(free) \in Nat /\ Len(free) >= 1
        /\ Front(free) \in Seq(Slots)
        /\ Len(Front(free)) = Len(free) - 1
        /\ \A i \in 1 .. Len(free) - 1 : Front(free)[i] = free[i]
        /\ Last(free) = free[Len(free)]
    BY <2>1, FrontLast
  <2>3. DOMAIN free = 1 .. Len(free) /\ DOMAIN Front(free) = 1 .. Len(free) - 1
    BY <2>1, <2>2, LenProperties
  <2> QED BY <2>1, <2>2, <2>3 DEF free
<1> HIDE DEF c, s
<1>5. \A i \in Slots : Live(b, i) => SameOrder(b, c, i)
  <2> SUFFICES ASSUME NEW i \in Slots, Live(b, i)
               PROVE  SameOrder(b, c, i)
    OBVIOUS
  <2>1. b.slots[i].remaining + b.slots[i].filled \in Nat /\ i # s
    BY <1>1, <1>3, SlotFacts
  <2> QED BY <1>2, <1>3, <2>1 DEF SameOrder
<1>6. b.slots[s].generation \in Nat
  BY <1>1, <1>3, SlotFacts
<1>7. \A id : Spent(b, id) => Spent(c, id)
  <2> SUFFICES ASSUME NEW id, Spent(b, id), InUse(c, SlotOf(id))
               PROVE  GenerationOf(id) <= c.slots[SlotOf(id)].generation
    BY DEF Spent
  <2>1. SlotOf(id) \in Slots /\ GenerationOf(id) \in Nat
    BY DEF Spent, SlotOf, GenerationOf
  <2>2. InUse(b, SlotOf(id))
    BY <1>3, <1>4, <2>1 DEF InUse
  <2>3. GenerationOf(id) <= b.slots[SlotOf(id)].generation
    BY <2>2 DEF Spent
  <2> QED BY <1>2, <1>6, <2>1, <2>3
<1>8. ~Spent(b, IdOf(c, s))
  <2>1. /\ SlotOf(IdOf(c, s)) = s
        /\ GenerationOf(IdOf(c, s)) = b.slots[s].generation + 1
    BY <1>2, <1>3, LiveIsSpent
  <2>2. InUse(b, s)
    BY <1>4 DEF InUse
  <2> QED BY <1>6, <2>1, <2>2 DEF Spent
<1>9. DOMAIN <<e>> = {1} /\ <<e>>[1] = e
  OBVIOUS
<1>10. e.event = "Rested" /\ e.id = IdOf(c, s) /\ ~Flow!Ends(e)
  BY DEF c, s, Flow!Ends
<1> QED BY <1>3, <1>5, <1>7, <1>8, <1>9, <1>10 DEF Tells, c

----------------------------------------------------------------------------
(***************************************************************************)
(* A step of the engine                                                    *)
(***************************************************************************)
\* The events of a step tell the generator what it has to learn of it.
LEMMA StepKeeps ==
  ASSUME book \in Shapes, book' \in Shapes, FlowTypeOK, Consistent,
         seen = None, UNCHANGED flowVars,
         env # None \/ out = <<>>, env' # None,
         \A i \in DOMAIN out : out[i].event # "Rested",
         NEW events, IsSequence(events), out' = out \o events,
         Tells(book, book', events),
         \A k \in DOMAIN events : events[k].event = "Rested" =>
           LET t == TrackedAs(events[k], env'.account, SideRead')
           IN  /\ k = Len(events)
               /\ t \in TrackedOrders
               /\ \E s \in Slots : StandsIn(book', t, s)
  PROVE  Consistent'
<1>1. /\ IsSequence(out \o events)
      /\ Len(out) \in Nat /\ Len(events) \in Nat
      /\ Len(out \o events) = Len(out) + Len(events)
      /\ DOMAIN out = 1 .. Len(out) /\ DOMAIN events = 1 .. Len(events)
      /\ DOMAIN (out \o events) = 1 .. Len(out) + Len(events)
      /\ \A i \in DOMAIN out : /\ i \in DOMAIN (out \o events)
                               /\ (out \o events)[i] = out[i]
      /\ \A k \in DOMAIN events : /\ Len(out) + k \in DOMAIN (out \o events)
                                  /\ (out \o events)[Len(out) + k] = events[k]
      /\ \A i \in DOMAIN (out \o events) :
           \/ i \in DOMAIN out
           \/ \E k \in DOMAIN events : i = Len(out) + k
  <2>1. IsSequence(out) /\ IsSequence(events)
    BY DEF Consistent
  <2> QED BY ONLY <2>1, EmitFacts
<1>2. /\ IsSequence(out')
      /\ Len(out') = Len(out) + Len(events)
      /\ \A i \in DOMAIN out : i \in DOMAIN out' /\ out'[i] = out[i]
      /\ \A k \in DOMAIN events : /\ Len(out) + k \in DOMAIN out'
                                  /\ out'[Len(out) + k] = events[k]
      /\ \A i \in DOMAIN out' :
           \/ i \in DOMAIN out
           \/ \E k \in DOMAIN events : i = Len(out) + k
  BY <1>1
<1>3. Unread = DOMAIN out
  BY <1>1 DEF Unread, Read
<1>4. Unread' = DOMAIN out'
  BY <1>1 DEF Unread, Read, flowVars
<1>5. /\ Flow!Tracked' = Flow!Tracked /\ UNCHANGED seen
      /\ \A t \in Flow!Tracked : t.qty \in Nat
  <2>1. \A t \in Flow!Tracked : t \in TrackedOrders
    BY DEF Flow!Tracked, FlowTypeOK
  <2> QED BY <2>1 DEF Flow!Tracked, flowVars, TrackedOrders
<1>6. /\ \A id : Spent(book, id) => Spent(book', id)
      /\ \A s \in Slots : Live(book, s) =>
           \/ SameOrder(book, book', s)
           \/ \E k \in DOMAIN events :
                Flow!Ends(events[k]) /\ events[k].id = IdOf(book, s)
      /\ \A s \in Slots : Live(book', s) =>
           \/ SameOrder(book, book', s)
           \/ /\ ~Spent(book, IdOf(book', s))
              /\ \E k \in DOMAIN events :
                   events[k].event = "Rested" /\ events[k].id = IdOf(book', s)
      /\ \A k \in DOMAIN events : Flow!Ends(events[k]) =>
           Spent(book, events[k].id) /\ ~IdLive(book', events[k].id)
      /\ \A k \in DOMAIN events : events[k].event = "Rested" =>
           ~Spent(book, events[k].id)
  BY DEF Tells
<1>7. \A t \in Flow!Tracked, s \in Slots :
        SameOrder(book, book', s) /\ StandsIn(book, t, s) => StandsIn(book', t, s)
  BY <1>5, GoesOnStanding
<1>8. ListIsSpent'
  BY <1>5, <1>6 DEF ListIsSpent, Consistent
<1>9. ASSUME NEW t \in Flow!Tracked
      PROVE  \/ \E s \in Slots : StandsIn(book', t, s)
             \/ \E j \in DOMAIN out' : Flow!Ends(out'[j]) /\ out'[j].id = t.id
  <2>1. CASE \E j \in DOMAIN out : Flow!Ends(out[j]) /\ out[j].id = t.id
    <3>1. PICK j \in DOMAIN out : Flow!Ends(out[j]) /\ out[j].id = t.id
      BY <2>1
    <3>2. j \in DOMAIN out' /\ Flow!Ends(out'[j]) /\ out'[j].id = t.id
      BY <1>2, <3>1 DEF Flow!Ends
    <3> QED BY <3>2
  <2>2. ASSUME NEW s \in Slots, StandsIn(book, t, s),
               NEW k \in DOMAIN events,
               Flow!Ends(events[k]) /\ events[k].id = IdOf(book, s)
        PROVE  \E j \in DOMAIN out' : Flow!Ends(out'[j]) /\ out'[j].id = t.id
    <3>1. events[k].id = t.id
      BY <2>2 DEF StandsIn
    <3>2. Len(out) + k \in DOMAIN out' /\ out'[Len(out) + k] = events[k]
      BY <1>2
    <3>3. Flow!Ends(out'[Len(out) + k]) /\ out'[Len(out) + k].id = t.id
      BY <2>2, <3>1, <3>2 DEF Flow!Ends
    <3> QED BY <3>2, <3>3
  <2>3. ASSUME NEW s \in Slots, StandsIn(book, t, s)
        PROVE  \/ SameOrder(book, book', s)
               \/ \E k \in DOMAIN events :
                    Flow!Ends(events[k]) /\ events[k].id = IdOf(book, s)
    BY <1>6, <2>3 DEF StandsIn
  <2>4. \/ \E s \in Slots : StandsIn(book, t, s)
        \/ \E j \in DOMAIN out : Flow!Ends(out[j]) /\ out[j].id = t.id
    BY <1>3 DEF Consistent, ListedIsLive
  <2> QED BY <1>7, <2>1, <2>2, <2>3, <2>4
<1>10. ListedIsLive'
  BY <1>4, <1>5, <1>9 DEF ListedIsLive, Flow!Ends
<1>11. ASSUME NEW s \in Slots, Live(book', s)
       PROVE  \/ \E t \in Flow!Tracked : StandsIn(book', t, s)
              \/ \E j \in DOMAIN out' :
                   out'[j].event = "Rested" /\ out'[j].id = IdOf(book', s)
  <2>1. CASE SameOrder(book, book', s)
    <3>1. PICK t \in Flow!Tracked : StandsIn(book, t, s)
      BY <1>3, <2>1 DEF SameOrder, Consistent, LiveIsListed
    <3> QED BY <1>7, <2>1, <3>1
  <2>2. ASSUME NEW k \in DOMAIN events,
               events[k].event = "Rested" /\ events[k].id = IdOf(book', s)
        PROVE  \E j \in DOMAIN out' :
                 out'[j].event = "Rested" /\ out'[j].id = IdOf(book', s)
    BY <1>2, <2>2
  <2> QED BY <1>6, <1>11, <2>1, <2>2
<1>12. LiveIsListed'
  <2>1. \A s \in Slots : /\ Live(book, s)' <=> Live(book', s)
                         /\ IdOf(book, s)' = IdOf(book', s)
                         /\ \A t : StandsIn(book, t, s)' <=> StandsIn(book', t, s)
    BY DEF Live, IdOf, StandsIn
  <2> QED BY <1>4, <1>5, <1>11, <2>1 DEF LiveIsListed
<1>13. \A id : Spent(book, id) /\ ~IdLive(book, id) => ~IdLive(book', id)
  <2> SUFFICES ASSUME NEW id, Spent(book, id), NEW s \in Slots,
                      Live(book', s), id = IdOf(book', s)
               PROVE  IdLive(book, id)
    BY DEF IdLive
  <2>1. SameOrder(book, book', s)
    BY <1>6
  <2> QED BY <2>1 DEF SameOrder, IdLive, IdOf
<1>14. ASSUME NEW j \in DOMAIN out', Flow!Ends(out'[j])
       PROVE  Spent(book', out'[j].id) /\ ~IdLive(book', out'[j].id)
  <2>1. CASE j \in DOMAIN out
    <3>1. out'[j] = out[j] /\ Flow!Ends(out[j])
      BY <1>2, <1>14, <2>1 DEF Flow!Ends
    <3>2. Spent(book, out[j].id) /\ ~IdLive(book, out[j].id)
      BY <1>3, <2>1, <3>1 DEF Consistent, EndsAreFinal
    <3> QED BY <1>6, <1>13, <3>1, <3>2
  <2>2. ASSUME NEW k \in DOMAIN events, j = Len(out) + k
        PROVE  Spent(book', out'[j].id) /\ ~IdLive(book', out'[j].id)
    <3>1. out'[j] = events[k] /\ Flow!Ends(events[k])
      BY <1>2, <1>14, <2>2 DEF Flow!Ends
    <3> QED BY <1>6, <3>1
  <2> QED BY <1>2, <2>1, <2>2
<1>15. EndsAreFinal'
  <2>1. \A id : /\ Spent(book, id)' <=> Spent(book', id)
                /\ IdLive(book, id)' <=> IdLive(book', id)
    BY DEF Spent, InUse, Live, IdLive, IdOf
  <2> QED BY <1>4, <1>14, <2>1 DEF EndsAreFinal, Flow!Ends
<1>16. ASSUME NEW j \in DOMAIN out', out'[j].event = "Rested"
       PROVE  LET t == TrackedAs(out'[j], env'.account, SideRead')
              IN  /\ j = Len(out')
                  /\ \A u \in Flow!Tracked : u.id # t.id
                  /\ t \in TrackedOrders
                  /\ \E s \in Slots : StandsIn(book', t, s)
  <2>1. PICK k \in DOMAIN events : j = Len(out) + k
    BY <1>2, <1>16
  <2>2. out'[j] = events[k] /\ events[k].event = "Rested"
    BY <1>2, <1>16, <2>1
  <2>3. ~Spent(book, events[k].id)
    BY <1>6, <2>2
  <2>4. \A u \in Flow!Tracked : u.id # events[k].id
    BY <2>3 DEF Consistent, ListIsSpent
  <2> QED BY <1>2, <2>1, <2>2, <2>4 DEF TrackedAs
<1>17. RestIsNew'
  <2>1. \A t, s : StandsIn(book, t, s)' <=> StandsIn(book', t, s)
    BY DEF StandsIn, Live, IdOf
  <2> QED BY <1>4, <1>5, <1>16, <2>1 DEF RestIsNew
<1> QED BY <1>2, <1>8, <1>10, <1>12, <1>15, <1>17 DEF Consistent

----------------------------------------------------------------------------
(***************************************************************************)
(* The list and its index                                                  *)
(***************************************************************************)
\* Each order is listed once, and is found through the index.
LEMMA ListedOnce ==
  ASSUME live \in Seq(TrackedOrders), IndexLeadsToOrders
  PROVE  /\ Len(live) \in Nat /\ DOMAIN live = 1 .. Len(live)
         /\ \A i \in DOMAIN live : /\ live[i] \in TrackedOrders
                                   /\ live[i].id \in DOMAIN index
                                   /\ index[live[i].id] = i
         /\ \A i, j \in DOMAIN live : live[i].id = live[j].id => i = j
         /\ \A id \in DOMAIN index : /\ index[id] \in DOMAIN live
                                     /\ live[index[id]].id = id
         /\ DOMAIN index = {live[i].id : i \in DOMAIN live}
<1>1. Len(live) \in Nat /\ DOMAIN live = 1 .. Len(live)
  BY LenProperties
<1>2. /\ \A i \in DOMAIN live : live[i] \in TrackedOrders /\ index[live[i].id] = i
      /\ DOMAIN index = {live[i].id : i \in DOMAIN live}
  BY DEF IndexLeadsToOrders
<1>3. \A i \in DOMAIN live : live[i].id \in DOMAIN index
  BY <1>2
<1>4. \A id \in DOMAIN index : \E i \in DOMAIN live : live[i].id = id
  BY <1>2
<1> QED BY <1>1, <1>2, <1>3, <1>4

\* An order that has an id of its own goes to the end of the list.
LEMMA TrackKeepsIndex ==
  ASSUME live \in Seq(TrackedOrders), IndexLeadsToOrders,
         NEW t \in TrackedOrders, \A u \in Flow!Tracked : u.id # t.id,
         live' = Append(live, t),
         index' = [k \in DOMAIN index \cup {t.id} |->
                     IF k = t.id THEN Len(live) + 1 ELSE index[k]]
  PROVE  /\ live' \in Seq(TrackedOrders) /\ IndexLeadsToOrders'
         /\ Flow!Tracked' = Flow!Tracked \cup {t}
<1> DEFINE n == Len(live)
<1>1. /\ n \in Nat /\ DOMAIN live = 1 .. n
      /\ \A i \in DOMAIN live : live[i].id \in DOMAIN index /\ index[live[i].id] = i
      /\ DOMAIN index = {live[i].id : i \in DOMAIN live}
  BY ListedOnce
<1>2. /\ live' \in Seq(TrackedOrders) /\ Len(live') = n + 1
      /\ \A i \in 1 .. n : live'[i] = live[i]
      /\ live'[n + 1] = t
  BY AppendProperties
<1>3. DOMAIN live' = 1 .. n + 1
  BY <1>2, LenProperties
<1> HIDE DEF n
<1>4. \A i \in DOMAIN live' : \/ i \in DOMAIN live /\ live'[i] = live[i]
                              \/ i = n + 1 /\ live'[i] = t
  BY <1>1, <1>2, <1>3
<1>5. /\ n + 1 \in DOMAIN live' /\ live'[n + 1] = t
      /\ \A i \in DOMAIN live : i \in DOMAIN live' /\ live'[i] = live[i]
  BY <1>1, <1>2, <1>3
<1>6. \A i \in DOMAIN live : live[i].id # t.id
  BY DEF Flow!Tracked
<1>7. /\ DOMAIN index' = DOMAIN index \cup {t.id} /\ index'[t.id] = n + 1
      /\ \A k \in DOMAIN index : k # t.id => index'[k] = index[k]
  BY DEF n
<1>8. \A i \in DOMAIN live' : index'[live'[i].id] = i
  BY <1>1, <1>4, <1>6, <1>7
<1>9. DOMAIN index' = {live'[i].id : i \in DOMAIN live'}
  <2>1. \A i \in DOMAIN live' : live'[i].id \in DOMAIN index'
    BY <1>1, <1>4, <1>7
  <2>2. \A k \in DOMAIN index : \E i \in DOMAIN live : live[i].id = k
    BY <1>1
  <2>3. \A k \in DOMAIN index' : \E i \in DOMAIN live' : live'[i].id = k
    BY <1>5, <1>7, <2>2
  <2> QED BY <2>1, <2>3
<1>10. Flow!Tracked' = Flow!Tracked \cup {t}
  BY <1>4, <1>5 DEF Flow!Tracked
<1> QED BY <1>2, <1>8, <1>9, <1>10 DEF IndexLeadsToOrders

\* Where one is removed the last is put.
LEMMA SwapRemoveFacts ==
  ASSUME NEW S, NEW s \in Seq(S), NEW i \in 1 .. Len(s)
  PROVE  LET c == Flow!SwapRemove(s, i)
         IN  /\ c \in Seq(S) /\ Len(c) = Len(s) - 1
             /\ \A j \in 1 .. Len(s) - 1 :
                  c[j] = IF j = i THEN s[Len(s)] ELSE s[j]
<1> DEFINE f == Front(s)
           c == Flow!SwapRemove(s, i)
           n == Len(s)
<1>1. s # <<>> /\ n \in Nat
  OBVIOUS
<1>2. /\ f \in Seq(S) /\ Len(f) = n - 1
      /\ \A j \in 1 .. n - 1 : f[j] = s[j]
      /\ Last(s) = s[n] /\ Last(s) \in S
  BY <1>1, FrontLast
<1>3. c = IF i = n THEN f ELSE [f EXCEPT ![i] = Last(s)]
  BY DEF Flow!SwapRemove, Flow!Front, Flow!Last, Front, Last
<1>4. f \in [1 .. n - 1 -> S]
  BY <1>2, LenProperties, ElementOfSeq
<1> HIDE DEF f, c, n
<1>5. CASE i = n
  <2>1. \A j \in 1 .. n - 1 : j # i
    BY <1>1, <1>5
  <2> QED BY <1>2, <1>3, <1>5, <2>1 DEF c, n
<1>6. CASE i # n
  <2>1. i \in 1 .. n - 1
    BY <1>1, <1>6 DEF n
  <2>2. c = [f EXCEPT ![i] = Last(s)]
    BY <1>3, <1>6
  <2>3. c \in Seq(S) /\ Len(c) = n - 1
    BY <1>2, <2>1, <2>2, ExceptSeq
  <2>4. \A j \in 1 .. n - 1 : c[j] = IF j = i THEN Last(s) ELSE f[j]
    BY <1>4, <2>2
  <2> QED BY <1>2, <2>3, <2>4 DEF c, n
<1> QED BY <1>5, <1>6

\* An order that has ended leaves the list, and the one that takes its place is
\* found there.
LEMMA ForgetKeepsIndex ==
  ASSUME live \in Seq(TrackedOrders), IndexLeadsToOrders,
         NEW id \in DOMAIN index, Flow!Forget(id)
  PROVE  /\ live' \in Seq(TrackedOrders) /\ IndexLeadsToOrders'
         /\ Flow!Tracked' = {t \in Flow!Tracked : t.id # id}
         /\ DOMAIN index' \subseteq DOMAIN index
<1> DEFINE n == Len(live)
           i == index[id]
           moved == IF i <= Len(live') THEN {live'[i].id} ELSE {}
<1>1. /\ n \in Nat /\ DOMAIN live = 1 .. n
      /\ \A j \in DOMAIN live : live[j].id \in DOMAIN index /\ index[live[j].id] = j
      /\ i \in DOMAIN live /\ live[i].id = id
      /\ DOMAIN index = {live[j].id : j \in DOMAIN live}
  BY ListedOnce
<1>2. /\ live' = Flow!SwapRemove(live, i)
      /\ index' = [k \in (DOMAIN index \ {id}) \cup moved |->
                     IF k \in moved THEN i ELSE index[k]]
  BY DEF Flow!Forget
<1>3. /\ live' \in Seq(TrackedOrders) /\ Len(live') = n - 1
      /\ \A j \in 1 .. n - 1 : live'[j] = IF j = i THEN live[n] ELSE live[j]
  <2> DEFINE c == Flow!SwapRemove(live, i)
  <2> HIDE DEF i
  <2>1. i \in 1 .. Len(live)
    BY <1>1
  <2>2. /\ c \in Seq(TrackedOrders) /\ Len(c) = Len(live) - 1
        /\ \A j \in 1 .. Len(live) - 1 :
             c[j] = IF j = i THEN live[Len(live)] ELSE live[j]
    BY <2>1, SwapRemoveFacts
  <2> HIDE DEF c
  <2> QED BY <1>2, <2>2 DEF c
<1>4. DOMAIN live' = 1 .. n - 1
  BY <1>3, LenProperties
<1> HIDE DEF n, i
<1>5. \A j \in DOMAIN live' :
        \/ j = i /\ live'[j] = live[n] /\ n \in DOMAIN live /\ n # i
        \/ j # i /\ live'[j] = live[j] /\ j \in DOMAIN live /\ n # j
  BY <1>1, <1>3, <1>4
<1>6. \A j \in DOMAIN live : j # i =>
        \/ j = n /\ i \in DOMAIN live' /\ live'[i] = live[j]
        \/ j \in DOMAIN live' /\ live'[j] = live[j]
  BY <1>1, <1>3, <1>4
<1>7. \A j, k \in DOMAIN live : live[j].id = live[k].id => j = k
  BY <1>1
<1>8. moved = IF i \in DOMAIN live' THEN {live[n].id} ELSE {}
  <2>1. i <= Len(live') <=> i \in DOMAIN live'
    BY <1>1, <1>3, <1>4
  <2>2. i \in DOMAIN live' => live'[i] = live[n]
    BY <1>5
  <2> QED BY <2>1, <2>2
<1>9. \A m \in moved : m = live[n].id /\ n \in DOMAIN live /\ n # i /\ m # id
  BY <1>1, <1>5, <1>7, <1>8
<1>10. /\ DOMAIN index' = DOMAIN index \ {id}
       /\ \A k \in DOMAIN index' : index'[k] = IF k \in moved THEN i ELSE index[k]
  <2>1. moved \subseteq DOMAIN index \ {id}
    BY <1>1, <1>9
  <2> HIDE DEF moved
  <2> QED BY <1>2, <2>1
<1>11. \A j \in DOMAIN live' : live'[j].id \in DOMAIN index'
  BY <1>1, <1>5, <1>7, <1>10
<1>12. \A j \in DOMAIN live' : index'[live'[j].id] = j
  <2> SUFFICES ASSUME NEW j \in DOMAIN live'
               PROVE  index'[live'[j].id] = j
    OBVIOUS
  <2>1. index'[live'[j].id] = IF live'[j].id \in moved THEN i ELSE index[live'[j].id]
    BY <1>10, <1>11
  <2>2. CASE j = i
    BY <1>5, <1>8, <2>1, <2>2
  <2>3. CASE j # i
    <3>1. live'[j] = live[j] /\ j \in DOMAIN live /\ j # n
      BY <1>5, <2>3
    <3>2. live[j].id \notin moved
      BY <1>7, <1>9, <3>1
    <3> QED BY <1>1, <2>1, <3>1, <3>2
  <2> QED BY <2>2, <2>3
<1>13. \A k \in DOMAIN index' : \E j \in DOMAIN live' : k = live'[j].id
  <2> SUFFICES ASSUME NEW k \in DOMAIN index'
               PROVE  \E j \in DOMAIN live' : k = live'[j].id
    OBVIOUS
  <2>1. PICK j \in DOMAIN live : k = live[j].id /\ j # i
    BY <1>1, <1>10
  <2> QED BY <1>6, <2>1
<1>14. DOMAIN index' = {live'[j].id : j \in DOMAIN live'}
  BY <1>11, <1>13
<1>15. Flow!Tracked' = {t \in Flow!Tracked : t.id # id}
  <2>1. ASSUME NEW j \in DOMAIN live'
        PROVE  live'[j] \in Flow!Tracked /\ live'[j].id # id
    BY <1>1, <1>5, <1>7, <2>1 DEF Flow!Tracked
  <2>2. ASSUME NEW j \in DOMAIN live, live[j].id # id
        PROVE  \E k \in DOMAIN live' : live'[k] = live[j]
    BY <1>1, <1>6, <2>2
  <2>3. /\ Flow!Tracked' = {live'[j] : j \in DOMAIN live'}
        /\ Flow!Tracked = {live[j] : j \in DOMAIN live}
    BY DEF Flow!Tracked
  <2> QED BY <2>1, <2>2, <2>3
<1> QED BY <1>3, <1>10, <1>12, <1>14, <1>15 DEF IndexLeadsToOrders

----------------------------------------------------------------------------
(***************************************************************************)
(* observe()                                                               *)
(***************************************************************************)
\* What a command has, by its name.
LEMMA CommandFields ==
  ASSUME env \in Commands
  PROVE  /\ env.cmd = "New" => env.side \in Sides /\ env.kind \in Kinds
         /\ env.account \in Accounts
BY DEF Commands

\* The side is one, or there is none.
LEMMA SideOfType ==
  ASSUME env \in Commands, FlowTypeOK, IndexLeadsToOrders
  PROVE  Flow!SideOf \in Sides \cup {None}
<1>1. CASE env.cmd = "New"
  BY <1>1, CommandFields DEF Flow!SideOf
<1>2. CASE env.cmd # "New" /\ env.cmd = "Replace" /\ env.id \in DOMAIN index
  <2>1. live[index[env.id]] \in TrackedOrders
    BY <1>2, ListedOnce DEF FlowTypeOK
  <2>2. live[index[env.id]].side \in Sides
    BY <2>1 DEF TrackedOrders
  <2> QED BY <1>2, <2>2 DEF Flow!SideOf
<1>3. CASE env.cmd # "New" /\ ~(env.cmd = "Replace" /\ env.id \in DOMAIN index)
  BY <1>3 DEF Flow!SideOf
<1> QED BY <1>1, <1>2, <1>3

\* What is said of submit() and of the labels does not depend on the generator.
LEMMA ObserveFrame ==
  ASSUME FlowInv, pc = "done", env # None, UNCHANGED vars,
         env' = env \/ (env' = None /\ seen' = None)
  PROVE  /\ Turns' /\ TakerIsSender'
         /\ OnlyLiveOrdersAddressed'
         /\ NewOrderRuns' /\ LabelsFit'
<1>1. UNCHANGED <<book, pc, taker, out>>
  BY DEF vars
<1>2. Turns' /\ TakerIsSender' /\ NewOrderRuns'
  BY <1>1 DEF FlowInv, Turns, TakerIsSender, NewOrderRuns
<1>3. OnlyLiveOrdersAddressed'
  BY <1>1 DEF FlowInv, OnlyLiveOrdersAddressed
<1>4. LabelsFit'
  <2>1. CASE env' = env
    <3>1. Flow!Classify' = Flow!Classify
      BY <1>1, <2>1 DEF Flow!Classify
    <3> QED BY <1>1, <2>1, <3>1 DEF FlowInv, LabelsFit, Only
  <2>2. CASE env' = None
    BY <2>2 DEF LabelsFit
  <2> QED BY <2>1, <2>2
<1> QED BY <1>2, <1>3, <1>4

\* What of the book a tracked order is compared with stays, if the book does.
LEMMA SameBook ==
  ASSUME UNCHANGED book
  PROVE  /\ \A t, s : StandsIn(book, t, s)' <=> StandsIn(book, t, s)
         /\ \A s : (Live(book, s)' <=> Live(book, s)) /\ IdOf(book, s)' = IdOf(book, s)
         /\ \A id : /\ Spent(book, id)' <=> Spent(book, id)
                    /\ IdLive(book, id)' <=> IdLive(book, id)
BY DEF StandsIn, Live, IdOf, Spent, InUse, IdLive

\* observe() begins: it has read nothing, and knows the side.
LEMMA BeginKeeps ==
  ASSUME FlowInv, pc = "done", env # None, Flow!BeginObserve,
         UNCHANGED <<vars, env>>
  PROVE  FlowInv'
<1>1. /\ UNCHANGED <<book, pc, taker, out, env, live, index>>
      /\ seen = None /\ seen' = 0 /\ side' = Flow!SideOf
  BY DEF vars, Flow!BeginObserve
<1>2. /\ FlowTypeOK /\ IndexLeadsToOrders /\ Consistent /\ env \in Commands
      /\ Len(out) \in Nat
  BY DEF FlowInv, Turns, Consistent, IsSequence
<1>3. 0 # None
  BY NoneIsNoValue
<1>4. IndexLeadsToOrders' /\ FlowTypeOK'
  <2>1. side' \in Sides \cup {None}
    BY <1>1, <1>2, SideOfType
  <2> QED BY <1>1, <1>2, <1>3, <2>1 DEF FlowTypeOK, IndexLeadsToOrders
<1>5. /\ Unread' = Unread /\ SideRead' = SideRead
      /\ Flow!Tracked' = Flow!Tracked
  BY <1>1, <1>3 DEF Unread, Read, SideRead, Flow!Tracked
<1>6. Consistent'
  <2>1. ListIsSpent' /\ ListedIsLive'
    BY <1>1, <1>2, <1>5, SameBook DEF Consistent, ListIsSpent, ListedIsLive, Flow!Ends
  <2>2. LiveIsListed' /\ EndsAreFinal'
    BY <1>1, <1>2, <1>5, SameBook DEF Consistent, LiveIsListed, EndsAreFinal, Flow!Ends
  <2>3. RestIsNew'
    BY <1>1, <1>2, <1>5, SameBook DEF Consistent, RestIsNew
  <2> QED BY <1>1, <1>2, <2>1, <2>2, <2>3 DEF Consistent
<1>7. UNCHANGED vars /\ env' = env
  OBVIOUS
<1> QED BY <1>4, <1>6, <1>7, ObserveFrame DEF FlowInv

\* observe() ends: it has read everything.
LEMMA EndKeeps ==
  ASSUME FlowInv, pc = "done", env # None, Flow!EndObserve, env' = None,
         UNCHANGED vars
  PROVE  FlowInv'
<1>1. /\ UNCHANGED <<book, pc, taker, out, live, index>>
      /\ seen = Len(out) /\ seen' = None /\ side' = None
  BY DEF vars, Flow!EndObserve
<1>2. /\ FlowTypeOK /\ IndexLeadsToOrders /\ Consistent
      /\ Len(out) \in Nat /\ DOMAIN out = 1 .. Len(out)
  BY DEF FlowInv, Consistent, IsSequence
<1>3. IndexLeadsToOrders' /\ FlowTypeOK'
  BY <1>1, <1>2 DEF FlowTypeOK, IndexLeadsToOrders
<1>4. Flow!Tracked' = Flow!Tracked
  BY <1>1 DEF Flow!Tracked
<1>5. Unread = {} /\ Unread' = {}
  <2>1. Len(out) # None
    BY <1>2, NoneIsNoValue
  <2> QED BY <1>1, <1>2, <2>1 DEF Unread, Read
<1>6. Consistent'
  <2>1. ListIsSpent' /\ ListedIsLive'
    BY <1>1, <1>2, <1>4, <1>5, SameBook DEF Consistent, ListIsSpent, ListedIsLive
  <2>2. LiveIsListed' /\ EndsAreFinal' /\ RestIsNew'
    BY <1>1, <1>2, <1>4, <1>5, SameBook
    DEF Consistent, LiveIsListed, EndsAreFinal, RestIsNew
  <2> QED BY <1>1, <1>2, <2>1, <2>2 DEF Consistent
<1> QED BY <1>1, <1>3, <1>6, ObserveFrame DEF FlowInv

\* The next event is read.
LEMMA OneEventRead ==
  ASSUME FlowInv, env # None, Flow!ObserveEvent, UNCHANGED <<vars, env>>
  PROVE  /\ seen + 1 \in Unread /\ seen + 1 \in Nat
         /\ Unread = Unread' \cup {seen + 1} /\ seen + 1 \notin Unread'
         /\ seen + 1 = Len(out) => Unread' = {}
         /\ seen' = seen + 1 /\ seen' \in 0 .. Len(out) /\ seen' # None
         /\ SideRead = side /\ SideRead' = side
         /\ UNCHANGED <<book, out, env, side>>
<1>1. /\ UNCHANGED <<book, out, env, side>>
      /\ seen # None /\ seen < Len(out) /\ seen' = seen + 1
  BY DEF vars, Flow!ObserveEvent
<1>2. seen \in 0 .. Len(out) /\ Len(out) \in Nat /\ DOMAIN out = 1 .. Len(out)
  BY <1>1 DEF FlowInv, FlowTypeOK, Consistent, IsSequence
<1>3. seen + 1 \in Nat /\ seen' # None
  BY <1>1, <1>2, NoneIsNoValue
<1>4. Unread = {i \in DOMAIN out : i > seen}
  BY <1>1 DEF Unread, Read
<1>5. Unread' = {i \in DOMAIN out : i > seen + 1}
  BY <1>1, <1>3 DEF Unread, Read
<1>6. SideRead = side /\ SideRead' = side
  BY <1>1, <1>3 DEF SideRead
<1>7. /\ seen + 1 \in Unread
      /\ Unread = Unread' \cup {seen + 1} /\ seen + 1 \notin Unread'
      /\ seen + 1 = Len(out) => Unread' = {}
  <2> DEFINE n == seen
             l == Len(out)
  <2>1. n \in Nat /\ l \in Nat /\ n < l
    BY <1>1, <1>2
  <2>2. \A i : i \in Unread <=> i \in 1 .. l /\ i > n
    BY <1>2, <1>4
  <2>3. \A i : i \in Unread' <=> i \in 1 .. l /\ i > n + 1
    BY <1>1, <1>2, <1>5
  <2> HIDE DEF n, l
  <2>4. /\ n + 1 \in Unread /\ n + 1 \notin Unread'
        /\ \A i : i \in Unread <=> i \in Unread' \/ i = n + 1
    BY <2>1, <2>2, <2>3
  <2>5. n + 1 = l => Unread' = {}
    BY <2>1, <2>3
  <2>6. Unread = Unread' \cup {n + 1}
    BY <2>4
  <2> QED BY <2>4, <2>5, <2>6 DEF n, l
<1>8. seen + 1 \in 0 .. Len(out)
  BY <1>1, <1>2
<1> QED BY <1>1, <1>3, <1>6, <1>7, <1>8

\* An order that rests is put in the list.
LEMMA ReadRested ==
  ASSUME Inv, FlowInv, pc = "done", env # None, Flow!ObserveEvent,
         UNCHANGED <<vars, env>>,
         out[seen + 1].event = "Rested"
  PROVE  FlowTypeOK' /\ IndexLeadsToOrders' /\ Consistent'
<1> DEFINE e == out[seen + 1]
           t == TrackedAs(e, env.account, side)
<1>1. /\ seen + 1 \in Unread /\ seen + 1 \in Nat
      /\ Unread = Unread' \cup {seen + 1} /\ seen + 1 \notin Unread'
      /\ seen + 1 = Len(out) => Unread' = {}
      /\ seen' = seen + 1 /\ seen' \in 0 .. Len(out) /\ seen' # None
      /\ SideRead = side /\ SideRead' = side
      /\ UNCHANGED <<book, out, env, side>>
  BY OneEventRead
<1>2. FlowTypeOK /\ IndexLeadsToOrders /\ Consistent /\ book \in Shapes
  BY DEF FlowInv, Inv, Sound
<1>3. /\ seen + 1 = Len(out) /\ t \in TrackedOrders
      /\ \A u \in Flow!Tracked : u.id # t.id
      /\ \E s \in Slots : StandsIn(book, t, s)
  BY <1>1, <1>2 DEF Consistent, RestIsNew
<1>4. t.id = e.id /\ t = [id |-> e.id, account |-> env.account, side |-> side,
                          qty |-> e.qty]
  BY DEF TrackedAs
<1>5. Unread = {seen + 1} /\ Unread' = {}
  BY <1>1, <1>3
<1>6. Flow!Track(e.id, e.qty)
  BY DEF Flow!ObserveEvent, Flow!Ends
<1>7. /\ live' = Append(live, t)
      /\ index' = [k \in DOMAIN index \cup {t.id} |->
                     IF k = t.id THEN Len(live) + 1 ELSE index[k]]
  BY <1>4, <1>6 DEF Flow!Track
<1>8. ~Flow!Ends(e)
  BY DEF Flow!Ends
<1> HIDE DEF e, t
<1>9. /\ live' \in Seq(TrackedOrders) /\ IndexLeadsToOrders'
      /\ Flow!Tracked' = Flow!Tracked \cup {t}
  BY <1>2, <1>3, <1>7, TrackKeepsIndex DEF FlowTypeOK
<1>10. FlowTypeOK'
  <2>1. t.id \in Slots \X Nat
    BY <1>3 DEF TrackedOrders
  <2>2. DOMAIN index' \subseteq Slots \X Nat
    BY <1>2, <1>7, <2>1 DEF FlowTypeOK
  <2> QED BY <1>1, <1>2, <1>9, <2>2 DEF FlowTypeOK
<1>11. PICK s \in Slots : StandsIn(book, t, s)
  BY <1>3
<1>12. t.id = IdOf(book, s) /\ Spent(book, t.id)
  BY <1>2, <1>11, LiveIsSpent DEF StandsIn
<1>13. ListIsSpent'
  BY <1>1, <1>2, <1>9, <1>12, SameBook DEF Consistent, ListIsSpent
<1>14. \A u \in Flow!Tracked' : \E x \in Slots : StandsIn(book, u, x)
  BY <1>2, <1>5, <1>8, <1>9, <1>11 DEF Consistent, ListedIsLive, e
<1>15. ListedIsLive'
  BY <1>1, <1>14, SameBook DEF ListedIsLive
<1>16. \A x \in Slots : Live(book, x) =>
         \E u \in Flow!Tracked' : StandsIn(book, u, x)
  <2> SUFFICES ASSUME NEW x \in Slots, Live(book, x)
               PROVE  \E u \in Flow!Tracked' : StandsIn(book, u, x)
    OBVIOUS
  <2>1. CASE \E u \in Flow!Tracked : StandsIn(book, u, x)
    BY <1>9, <2>1
  <2>2. CASE e.id = IdOf(book, x)
    <3>1. x = s
      BY <1>4, <1>12, <2>2, IdsDiffer
    <3> QED BY <1>9, <1>11, <3>1
  <2> QED BY <1>2, <1>5, <2>1, <2>2 DEF Consistent, LiveIsListed, e
<1>17. LiveIsListed'
  BY <1>1, <1>16, SameBook DEF LiveIsListed
<1>18. EndsAreFinal' /\ RestIsNew'
  BY <1>5 DEF EndsAreFinal, RestIsNew
<1>19. IsSequence(out')
  BY <1>1, <1>2 DEF Consistent
<1> QED BY <1>9, <1>10, <1>13, <1>15, <1>17, <1>18, <1>19 DEF Consistent

\* An event ends an order, and the list is without it.
LEMMA ReadEnd ==
  ASSUME Inv, FlowInv, pc = "done", env # None, Flow!ObserveEvent,
         UNCHANGED <<vars, env>>,
         out[seen + 1].event # "Rested",
         FlowTypeOK', IndexLeadsToOrders',
         Flow!Tracked' \subseteq Flow!Tracked,
         Flow!Ends(out[seen + 1]) =>
           Flow!Tracked' = {t \in Flow!Tracked : t.id # out[seen + 1].id},
         ~Flow!Ends(out[seen + 1]) => Flow!Tracked' = Flow!Tracked
  PROVE  Consistent'
<1> DEFINE e == out[seen + 1]
<1>1. /\ seen + 1 \in Unread /\ seen + 1 \in Nat
      /\ Unread = Unread' \cup {seen + 1} /\ seen + 1 \notin Unread'
      /\ seen + 1 = Len(out) => Unread' = {}
      /\ seen' = seen + 1 /\ seen' \in 0 .. Len(out) /\ seen' # None
      /\ SideRead = side /\ SideRead' = side
      /\ UNCHANGED <<book, out, env, side>>
  BY OneEventRead
<1>2. Consistent
  BY DEF FlowInv
<1>3. /\ e.event # "Rested"
      /\ Flow!Ends(e) => Flow!Tracked' = {t \in Flow!Tracked : t.id # e.id}
      /\ ~Flow!Ends(e) => Flow!Tracked' = Flow!Tracked
  OBVIOUS
<1>4. Flow!Ends(e) => ~IdLive(book, e.id)
  BY <1>1, <1>2 DEF Consistent, EndsAreFinal
<1>5. \A j \in Unread : j \in Unread' \/ out[j] = e
  BY <1>1
<1>6. \A j \in Unread' : j \in Unread
  BY <1>1
<1> HIDE DEF e
<1>7. ListIsSpent'
  BY <1>1, <1>2, SameBook DEF Consistent, ListIsSpent
<1>8. \A t \in Flow!Tracked' :
        \/ \E s \in Slots : StandsIn(book, t, s)
        \/ \E j \in Unread' : Flow!Ends(out[j]) /\ out[j].id = t.id
  <2> SUFFICES ASSUME NEW t \in Flow!Tracked', NEW j \in Unread,
                      Flow!Ends(out[j]) /\ out[j].id = t.id
               PROVE  j \in Unread'
    BY <1>2 DEF Consistent, ListedIsLive
  <2>1. out[j] # e
    <3>1. SUFFICES ASSUME out[j] = e PROVE FALSE
      OBVIOUS
    <3>2. Flow!Ends(e) /\ e.id = t.id
      BY <3>1
    <3> QED BY <1>3, <3>2
  <2> QED BY <1>5, <2>1
<1>9. ListedIsLive'
  BY <1>1, <1>8, SameBook DEF ListedIsLive, Flow!Ends
<1>10. \A s \in Slots : Live(book, s) =>
         \/ \E t \in Flow!Tracked' : StandsIn(book, t, s)
         \/ \E j \in Unread' : out[j].event = "Rested" /\ out[j].id = IdOf(book, s)
  <2> SUFFICES ASSUME NEW s \in Slots, Live(book, s)
               PROVE  \/ \E t \in Flow!Tracked' : StandsIn(book, t, s)
                      \/ \E j \in Unread' : /\ out[j].event = "Rested"
                                            /\ out[j].id = IdOf(book, s)
    OBVIOUS
  <2>1. ASSUME NEW t \in Flow!Tracked, StandsIn(book, t, s)
        PROVE  t \in Flow!Tracked'
    <3>1. IdLive(book, t.id)
      BY <2>1 DEF StandsIn, IdLive
    <3> QED BY <1>3, <1>4, <3>1
  <2>2. ASSUME NEW j \in Unread, out[j].event = "Rested"
        PROVE  j \in Unread'
    BY <1>3, <1>5, <2>2
  <2> QED BY <1>2, <2>1, <2>2 DEF Consistent, LiveIsListed
<1>11. LiveIsListed'
  BY <1>1, <1>10, SameBook DEF LiveIsListed
<1>12. EndsAreFinal'
  BY <1>1, <1>2, <1>6, SameBook DEF Consistent, EndsAreFinal, Flow!Ends
<1>13. RestIsNew'
  BY <1>1, <1>2, <1>6, SameBook DEF Consistent, RestIsNew
<1> QED BY <1>1, <1>2, <1>7, <1>9, <1>11, <1>12, <1>13 DEF Consistent

\* observe() at one event.
LEMMA EventKeeps ==
  ASSUME Inv, FlowInv, pc = "done", env # None, Flow!ObserveEvent,
         UNCHANGED <<vars, env>>
  PROVE  FlowInv'
<1> DEFINE e == out[seen + 1]
<1>1. /\ seen' \in 0 .. Len(out) /\ seen' # None
      /\ UNCHANGED <<book, out, env, side>>
  BY OneEventRead
<1>2. FlowTypeOK /\ IndexLeadsToOrders
  BY DEF FlowInv
<1>3. FlowTypeOK' /\ IndexLeadsToOrders' /\ Consistent'
  <2>1. CASE e.event = "Rested"
    BY <2>1, ReadRested
  <2>2. ASSUME e.event # "Rested", UNCHANGED <<live, index>>,
               Flow!Ends(e) => e.id \notin DOMAIN index
        PROVE  FlowTypeOK' /\ IndexLeadsToOrders' /\ Consistent'
    <3>1. FlowTypeOK' /\ IndexLeadsToOrders' /\ Flow!Tracked' = Flow!Tracked
      BY <1>1, <1>2, <2>2 DEF FlowTypeOK, IndexLeadsToOrders, Flow!Tracked
    <3>2. \A t \in Flow!Tracked : t.id \in DOMAIN index
      BY <1>2, ListedOnce DEF FlowTypeOK, Flow!Tracked
    <3>3. Flow!Ends(e) => Flow!Tracked = {t \in Flow!Tracked : t.id # e.id}
      BY <2>2, <3>2
    <3> QED BY <2>2, <3>1, <3>3, ReadEnd
  <2>3. ASSUME e.event # "Rested", Flow!Ends(e), Flow!Forget(e.id),
               e.id \in DOMAIN index
        PROVE  FlowTypeOK' /\ IndexLeadsToOrders' /\ Consistent'
    <3> HIDE DEF e
    <3>1. /\ live' \in Seq(TrackedOrders) /\ IndexLeadsToOrders'
          /\ Flow!Tracked' = {t \in Flow!Tracked : t.id # e.id}
          /\ DOMAIN index' \subseteq DOMAIN index
      BY <1>2, <2>3, ForgetKeepsIndex DEF FlowTypeOK
    <3>2. FlowTypeOK'
      BY <1>1, <1>2, <3>1 DEF FlowTypeOK
    <3> QED BY <2>3, <3>1, <3>2, ReadEnd DEF e
  <2>4. \/ e.event = "Rested"
        \/ e.event # "Rested" /\ Flow!Ends(e) /\ Flow!Forget(e.id)
        \/ e.event # "Rested" /\ ~Flow!Ends(e) /\ UNCHANGED <<live, index>>
    BY DEF Flow!ObserveEvent, Flow!Ends
  <2>5. Flow!Forget(e.id) => e.id \in DOMAIN index \/ UNCHANGED <<live, index>>
    BY DEF Flow!Forget
  <2>6. Flow!Forget(e.id) /\ e.id \notin DOMAIN index => UNCHANGED <<live, index>>
    BY <2>5
  <2> QED BY <2>1, <2>2, <2>3, <2>4, <2>6
<1>4. UNCHANGED vars /\ env' = env
  OBVIOUS
<1> QED BY <1>3, <1>4, ObserveFrame DEF FlowInv

----------------------------------------------------------------------------
(***************************************************************************)
(* next()                                                                  *)
(***************************************************************************)
\* The command is for a tracked order, or a new one; the prices are ticks and
\* the quantities not too large.
WellMade(e) ==
  \/ \E t \in Flow!Tracked : e = CancelCommand(t.account, t.id)
  \/ \E t \in Flow!Tracked, total \in Nat : e = ReduceCommand(t.account, t.id, total)
  \/ \E t \in Flow!Tracked, price \in InputPrices, total \in 1 .. MaxOrderQty,
        post_only \in BOOLEAN :
       PriceOk(price) /\ e = ReplaceCommand(t.account, t.id, price, total, post_only)
  \/ \E account \in Accounts, sd \in Sides, qty \in 1 .. MaxOrderQty, kind \in Kinds :
       /\ kind.price # None => PriceOk(kind.price)
       /\ e = NewCommand(account, sd, qty, kind)

\* A price that is drawn is a tick, however far from the best one it starts.
LEMMA PricesDrawn ==
  ASSUME NEW s, NEW bid \in Int, NEW ask \in Int
  PROVE  /\ \A p \in Flow!Passive(s, bid, ask) : p \in InputPrices /\ PriceOk(p)
         /\ \A p \in Flow!Aggressive(s, bid, ask) : p \in InputPrices /\ PriceOk(p)
<1>1. /\ MinTick \in Nat /\ MaxTick \in Nat /\ MinTick <= MaxTick
      /\ MaxDepth \in Nat /\ MaxOver \in Nat
  BY ConfigValid, FlowFits
<1>2. ASSUME NEW p \in Int
      PROVE  Flow!Clamp(p) \in InputPrices /\ PriceOk(Flow!Clamp(p))
  <2>1. Flow!Clamp(p) \in MinTick .. MaxTick
    BY <1>1 DEF Flow!Clamp
  <2> QED BY <1>1, <2>1, FlowFits DEF PriceOk
<1>3. ASSUME NEW p \in Flow!Passive(s, bid, ask)
      PROVE  p \in InputPrices /\ PriceOk(p)
  <2>1. PICK depth \in 0 .. MaxDepth :
          p = Flow!Clamp(IF s = "Buy" THEN ask - 1 - depth ELSE bid + 1 + depth)
    BY <1>3 DEF Flow!Passive
  <2>2. (IF s = "Buy" THEN ask - 1 - depth ELSE bid + 1 + depth) \in Int
    BY <1>1
  <2> QED BY <1>2, <2>1, <2>2
<1>4. ASSUME NEW p \in Flow!Aggressive(s, bid, ask)
      PROVE  p \in InputPrices /\ PriceOk(p)
  <2>1. PICK over \in 0 .. MaxOver :
          p = Flow!Clamp(IF s = "Buy" THEN ask + over ELSE bid - over)
    BY <1>4 DEF Flow!Aggressive
  <2>2. (IF s = "Buy" THEN ask + over ELSE bid - over) \in Int
    BY <1>1
  <2> QED BY <1>2, <2>1, <2>2
<1> QED BY <1>3, <1>4

\* A new order has a quantity and a price that the engine accepts.
LEMMA OrdersDrawn ==
  ASSUME NEW s, NEW bid \in Int, NEW ask \in Int,
         NEW new \in Flow!NewOrders(s, bid, ask)
  PROVE  /\ new[1] \in 1 .. MaxOrderQty
         /\ new[2] \in Kinds
         /\ new[2].price # None => PriceOk(new[2].price)
<1> DEFINE P == Flow!Passive(s, bid, ask)
           A == Flow!Aggressive(s, bid, ask)
<1>1. \A p \in P \cup A : p \in InputPrices /\ PriceOk(p)
  BY PricesDrawn
<1>2. /\ MaxOrderQty \in Nat /\ SmallQty \in Nat /\ LargeQty \in Nat
      /\ SmallQty <= LargeQty /\ LargeQty <= MaxOrderQty
  BY ConfigValid, FlowFits
<1>3. new \in ((1 .. SmallQty) \X (Flow!Kind("Gtc", P)
                                     \cup Flow!Kind("PostOnly", P \cup A)))
               \cup ((1 .. LargeQty) \X (Flow!Kind("Gtc", A)
                                           \cup Flow!Kind("Ioc", A)
                                           \cup Flow!Kind("Market", A \cup {None})))
  BY DEF Flow!NewOrders
<1> HIDE DEF P, A
<1>4. /\ new[1] \in (1 .. SmallQty) \cup (1 .. LargeQty)
      /\ \/ \E type \in {"Gtc", "Ioc", "PostOnly"} : new[2] \in Flow!Kind(type, P \cup A)
         \/ new[2] \in Flow!Kind("Market", A \cup {None})
  BY <1>3 DEF Flow!Kind
<1>5. new[1] \in 1 .. MaxOrderQty
  BY <1>2, <1>4
<1>6. ASSUME NEW type \in {"Gtc", "Ioc", "PostOnly"}, new[2] \in Flow!Kind(type, P \cup A)
      PROVE  new[2] \in Kinds /\ (new[2].price # None => PriceOk(new[2].price))
  BY <1>1, <1>6 DEF Flow!Kind, Kinds
<1>7. ASSUME new[2] \in Flow!Kind("Market", A \cup {None})
      PROVE  new[2] \in Kinds /\ (new[2].price # None => PriceOk(new[2].price))
  BY <1>1, <1>7 DEF Flow!Kind, Kinds
<1> QED BY <1>4, <1>5, <1>6, <1>7

\* Every draw leads to such a command.
LEMMA DrawsAreWellMade ==
  ASSUME Inv, FlowInv,
         NEW e \in Flow!GeneratedCommands(Best("Buy"), Best("Sell"))
  PROVE  WellMade(e)
<1> DEFINE bid == IF Best("Buy") = None THEN FirstBid ELSE Best("Buy")
           ask == IF Best("Sell") = None THEN FirstAsk ELSE Best("Sell")
           Changed == IF Flow!crowded THEN {} ELSE Flow!Tracked
<1>1. bid \in Int /\ ask \in Int
  <2>1. book \in Shapes /\ "Buy" \in Sides /\ "Sell" \in Sides
    BY DEF Inv, Sound, Sides
  <2>2. /\ Best("Buy") # None => Best("Buy") \in Ticks
        /\ Best("Sell") # None => Best("Sell") \in Ticks
    BY <2>1, BestTick
  <2>3. Ticks \subseteq Int
    BY DEF Ticks
  <2>4. FirstBid \in Int /\ FirstAsk \in Int
    BY FlowFits
  <2> QED BY <2>2, <2>3, <2>4
<1>2. \A t \in Flow!Tracked : t \in TrackedOrders
  BY DEF FlowInv, FlowTypeOK, Flow!Tracked
<1> DEFINE
      Cancels  == {Flow!CancelCommand(o.account, o.id) : o \in Flow!Tracked}
      ReducesOf(o) == {Flow!ReduceCommand(o.account, o.id, total) :
                         total \in 1 .. o.qty}
      ReplacesOf(o) == {Flow!ReplaceCommand(o.account, o.id, price, total, post_only) :
                          price \in Flow!Passive(o.side, bid, ask),
                          total \in 1 .. SmallQty, post_only \in BOOLEAN}
      NewOf(s) == {Flow!NewCommand(account, s, new[1], new[2]) :
                     account \in Accounts, new \in Flow!NewOrders(s, bid, ask)}
<1>3. e \in Cancels \cup (UNION {ReducesOf(o) : o \in Changed})
                   \cup (UNION {ReplacesOf(o) : o \in Changed})
                   \cup (UNION {NewOf(s) : s \in Flow!Sides})
  BY DEF Flow!GeneratedCommands
<1> HIDE DEF bid, ask
<1>4. CASE \E o \in Flow!Tracked : e = Flow!CancelCommand(o.account, o.id)
  BY <1>4 DEF WellMade, CancelCommand, Flow!CancelCommand
<1>5. CASE \E o \in Flow!Tracked : \E total \in 1 .. o.qty :
             e = Flow!ReduceCommand(o.account, o.id, total)
  <2>1. PICK o \in Flow!Tracked : \E total \in 1 .. o.qty :
          e = Flow!ReduceCommand(o.account, o.id, total)
    BY <1>5
  <2>2. PICK total \in 1 .. o.qty : e = Flow!ReduceCommand(o.account, o.id, total)
    BY <2>1
  <2>3. total \in Nat
    BY <1>2 DEF TrackedOrders
  <2> QED BY <2>2, <2>3 DEF WellMade, ReduceCommand, Flow!ReduceCommand
<1>6. CASE \E o \in Flow!Tracked :
             \E price \in Flow!Passive(o.side, bid, ask), total \in 1 .. SmallQty,
                post_only \in BOOLEAN :
               e = Flow!ReplaceCommand(o.account, o.id, price, total, post_only)
  <2>1. PICK o \in Flow!Tracked :
          \E price \in Flow!Passive(o.side, bid, ask), total \in 1 .. SmallQty,
             post_only \in BOOLEAN :
            e = Flow!ReplaceCommand(o.account, o.id, price, total, post_only)
    BY <1>6
  <2>2. PICK price \in Flow!Passive(o.side, bid, ask), total \in 1 .. SmallQty,
             post_only \in BOOLEAN :
          e = Flow!ReplaceCommand(o.account, o.id, price, total, post_only)
    BY <2>1
  <2>3. price \in InputPrices /\ PriceOk(price)
    BY <1>1, PricesDrawn
  <2>4. total \in 1 .. MaxOrderQty
    BY ConfigValid, FlowFits
  <2>5. e = ReplaceCommand(o.account, o.id, price, total, post_only)
    BY <2>2 DEF ReplaceCommand, Flow!ReplaceCommand
  <2> QED BY <2>3, <2>4, <2>5 DEF WellMade
<1>7. CASE \E s \in Sides :
             \E account \in Accounts, new \in Flow!NewOrders(s, bid, ask) :
               e = Flow!NewCommand(account, s, new[1], new[2])
  <2>1. PICK s \in Sides :
          \E account \in Accounts, new \in Flow!NewOrders(s, bid, ask) :
            e = Flow!NewCommand(account, s, new[1], new[2])
    BY <1>7
  <2>2. PICK account \in Accounts, new \in Flow!NewOrders(s, bid, ask) :
          e = Flow!NewCommand(account, s, new[1], new[2])
    BY <2>1
  <2>3. /\ new[1] \in 1 .. MaxOrderQty
        /\ new[2] \in Kinds
        /\ new[2].price # None => PriceOk(new[2].price)
    BY <1>1, OrdersDrawn
  <2>4. e = NewCommand(account, s, new[1], new[2])
    BY <2>2 DEF NewCommand, Flow!NewCommand
  <2> QED BY <2>3, <2>4 DEF WellMade
<1>8. Changed \subseteq Flow!Tracked /\ Flow!Sides = Sides
  BY DEF Sides, Flow!Sides
<1> HIDE DEF Changed
<1>9. \/ e \in Cancels
      \/ \E o \in Flow!Tracked : e \in ReducesOf(o)
      \/ \E o \in Flow!Tracked : e \in ReplacesOf(o)
      \/ \E s \in Sides : e \in NewOf(s)
  <2> HIDE DEF Cancels, ReducesOf, ReplacesOf, NewOf
  <2>1. CASE e \in UNION {ReducesOf(o) : o \in Changed}
    <3>1. PICK S \in {ReducesOf(o) : o \in Changed} : e \in S
      BY <2>1
    <3>2. PICK o \in Changed : S = ReducesOf(o)
      BY <3>1
    <3> QED BY <1>8, <3>1, <3>2
  <2>2. CASE e \in UNION {ReplacesOf(o) : o \in Changed}
    <3>1. PICK S \in {ReplacesOf(o) : o \in Changed} : e \in S
      BY <2>2
    <3>2. PICK o \in Changed : S = ReplacesOf(o)
      BY <3>1
    <3> QED BY <1>8, <3>1, <3>2
  <2>3. CASE e \in UNION {NewOf(s) : s \in Flow!Sides}
    <3>1. PICK S \in {NewOf(s) : s \in Flow!Sides} : e \in S
      BY <2>3
    <3>2. PICK s \in Flow!Sides : S = NewOf(s)
      BY <3>1
    <3> QED BY <1>8, <3>1, <3>2
  <2>4. \/ e \in Cancels
        \/ e \in UNION {ReducesOf(o) : o \in Changed}
        \/ e \in UNION {ReplacesOf(o) : o \in Changed}
        \/ e \in UNION {NewOf(s) : s \in Flow!Sides}
    BY <1>3, Zenon
  <2> QED BY <2>1, <2>2, <2>3, <2>4
<1> QED BY <1>4, <1>5, <1>6, <1>7, <1>9

----------------------------------------------------------------------------
(***************************************************************************)
(* The engine, seen from the generator                                     *)
(***************************************************************************)
Allowed == {"BookFull", "PostOnlyWouldCross", "InvalidChange"}

\* While the engine runs, nothing has been observed and nothing rests.
LEMMA Unobserved ==
  ASSUME FlowInv, pc \in {"ready", "submit", "match"}
  PROVE  /\ seen = None /\ (env # None \/ out = <<>>)
         /\ \A i \in DOMAIN out : out[i].event # "Rested"
         /\ FlowTypeOK /\ IndexLeadsToOrders /\ Consistent
         /\ IsSequence(out)
<1>1. Turns /\ TakerIsSender /\ FlowTypeOK /\ IndexLeadsToOrders /\ Consistent
  BY DEF FlowInv
<1>2. CASE pc = "ready"
  BY <1>1, <1>2 DEF Turns, Consistent
<1>3. CASE pc \in {"submit", "match"}
  BY <1>1, <1>3 DEF Turns, TakerIsSender, Consistent
<1> QED BY <1>2, <1>3

\* A step of the engine after which nothing new rests.
LEMMA EngineStep ==
  ASSUME Inv, Inv', FlowInv, pc \in {"ready", "submit", "match"},
         UNCHANGED flowVars, env' # None,
         NEW events, IsSequence(events), out' = out \o events,
         Tells(book, book', events),
         \A k \in DOMAIN events :
           /\ events[k].event # "Rested"
           /\ events[k].event = "Rejected" => events[k].reason \in Allowed
  PROVE  /\ Consistent' /\ OnlyLiveOrdersAddressed'
         /\ \A i \in DOMAIN out' : out'[i].event # "Rested"
<1>1. /\ seen = None /\ (env # None \/ out = <<>>)
      /\ \A i \in DOMAIN out : out[i].event # "Rested"
      /\ FlowTypeOK /\ Consistent /\ IsSequence(out)
  BY Unobserved
<1>2. book \in Shapes /\ book' \in Shapes
  BY DEF Inv, Sound
<1>3. Consistent'
  BY <1>1, <1>2, StepKeeps
<1>4. /\ IsSequence(out \o events)
      /\ Len(out) \in Nat /\ Len(events) \in Nat
      /\ Len(out \o events) = Len(out) + Len(events)
      /\ DOMAIN out = 1 .. Len(out) /\ DOMAIN events = 1 .. Len(events)
      /\ DOMAIN (out \o events) = 1 .. Len(out) + Len(events)
      /\ \A i \in DOMAIN out : /\ i \in DOMAIN (out \o events)
                               /\ (out \o events)[i] = out[i]
      /\ \A k \in DOMAIN events : /\ Len(out) + k \in DOMAIN (out \o events)
                                  /\ (out \o events)[Len(out) + k] = events[k]
      /\ \A i \in DOMAIN (out \o events) :
           \/ i \in DOMAIN out
           \/ \E k \in DOMAIN events : i = Len(out) + k
  <2>1. IsSequence(out) /\ IsSequence(events)
    BY <1>1
  <2> QED BY ONLY <2>1, EmitFacts
<1>5. \A i \in DOMAIN out' : \/ i \in DOMAIN out /\ out'[i] = out[i]
                             \/ \E k \in DOMAIN events : out'[i] = events[k]
  BY <1>4
<1>6. \A i \in DOMAIN out : out[i].event = "Rejected" => out[i].reason \in Allowed
  BY DEF FlowInv, OnlyLiveOrdersAddressed, Allowed
<1>7. \A i \in DOMAIN out' : out'[i].event = "Rejected" => out'[i].reason \in Allowed
  BY <1>5, <1>6
<1> QED BY <1>1, <1>3, <1>5, <1>7 DEF OnlyLiveOrdersAddressed, Allowed

\* The command is over, and the labels fit.
LEMMA DoneKeeps ==
  ASSUME FlowInv, pc \in {"ready", "submit", "match"}, UNCHANGED flowVars,
         env' \in Commands, pc' = "done",
         Consistent', OnlyLiveOrdersAddressed', LabelsFit'
  PROVE  FlowInv'
<1>1. seen = None /\ FlowTypeOK /\ IndexLeadsToOrders
  BY Unobserved
<1>2. UNCHANGED <<live, index, side, seen>>
  BY DEF flowVars
<1>3. Turns' /\ FlowTypeOK' /\ IndexLeadsToOrders'
  BY <1>1, <1>2 DEF Turns, FlowTypeOK, IndexLeadsToOrders
<1>4. TakerIsSender' /\ NewOrderRuns'
  BY DEF TakerIsSender, NewOrderRuns
<1> QED BY <1>3, <1>4 DEF FlowInv

\* The command goes on.
LEMMA RunsOnKeeps ==
  ASSUME FlowInv, pc \in {"ready", "submit", "match"}, UNCHANGED flowVars,
         env' \in Commands, pc' \in {"submit", "match"},
         Consistent', OnlyLiveOrdersAddressed', TakerIsSender', NewOrderRuns'
  PROVE  FlowInv'
<1>1. seen = None /\ FlowTypeOK /\ IndexLeadsToOrders
  BY Unobserved
<1>2. UNCHANGED <<live, index, side, seen>>
  BY DEF flowVars
<1>3. env' # None
  BY NoneIsNoValue
<1>4. Turns' /\ FlowTypeOK' /\ IndexLeadsToOrders'
  BY <1>1, <1>2, <1>3 DEF Turns, FlowTypeOK, IndexLeadsToOrders
<1>5. LabelsFit'
  BY DEF LabelsFit
<1> QED BY <1>4, <1>5 DEF FlowInv

\* The first event of a command is all there is.
LEMMA OnlyEvent ==
  ASSUME out = <<>>, NEW e, out' = out \o <<e>>
  PROVE  out' = <<e>> /\ IsSequence(<<e>>) /\ Len(<<e>>) = 1
         /\ DOMAIN <<e>> = {1} /\ <<e>>[1] = e
BY Singleton

\* A label of a command for an order is its name.
LEMMA LabelOfChange ==
  ASSUME env' # None, env'.cmd \in {"Cancel", "Reduce", "Replace"},
         env'.cmd = "Cancel" => out'[1].id = env'.id
  PROVE  LabelsFit'
<1>1. Flow!Classify' = env'.cmd
  BY DEF Flow!Classify
<1> QED BY <1>1 DEF LabelsFit

\* The live order's id is none of the absent ones.
LEMMA IdIsNotNone ==
  ASSUME Inv, NEW s \in Slots
  PROVE  IdOf(book, s) # None
<1>1. /\ book \in Shapes
      /\ book.slots[s].generation <= GenerationLimit /\ GenerationLimit \in Nat
  BY ConfigValid DEF Inv, Sound, Counted
<1>2. book.slots[s].generation \in 0 .. GenerationLimit
  BY <1>1, SlotFacts
<1>3. s \in 0 .. Capacity
  BY ConfigValid DEF Slots
<1> QED BY <1>2, <1>3, NoneIsNoId DEF IdOf, OrderId, InputIds

\* A tracked order is found by the engine, and in the list through its index.
LEMMA TrackedIsOwned ==
  ASSUME Inv, FlowInv, pc = "ready", NEW t \in Flow!Tracked
  PROVE  /\ t \in TrackedOrders
         /\ t.id \in DOMAIN index /\ live[index[t.id]] = t
         /\ \E s \in Slots : /\ StandsIn(book, t, s)
                             /\ Owned(t.account, t.id) = {s}
<1>1. /\ FlowTypeOK /\ IndexLeadsToOrders /\ Consistent
      /\ env = None /\ out = <<>>
  BY DEF FlowInv, Turns
<1>2. PICK i \in DOMAIN live : t = live[i]
  BY DEF Flow!Tracked
<1>3. t \in TrackedOrders /\ t.id \in DOMAIN index /\ index[t.id] = i
  BY <1>1, <1>2, ListedOnce DEF FlowTypeOK
<1>4. Unread = {}
  BY <1>1 DEF Unread
<1>5. PICK s \in Slots : StandsIn(book, t, s)
  BY <1>1, <1>4 DEF Consistent, ListedIsLive
<1>6. /\ t.id = IdOf(book, s) /\ Live(book, s) /\ book.slots[s].account = t.account
      /\ SlotOf(t.id) = s /\ GenerationOf(t.id) = book.slots[s].generation
  BY <1>5, LiveIsSpent DEF StandsIn, Inv, Sound
<1>7. Owned(t.account, t.id) = {s}
  BY <1>6 DEF Owned, IsLive, Live
<1> QED BY <1>2, <1>3, <1>5, <1>7

----------------------------------------------------------------------------
(***************************************************************************)
(* The commands                                                            *)
(***************************************************************************)
\* A refusal of a kind that the generator has to expect.
LEMMA RefusalKeeps ==
  ASSUME Inv, FlowInv, pc \in {"ready", "submit", "match"}, UNCHANGED flowVars,
         env' \in Commands, NEW reason \in Allowed, Reject(reason), LabelsFit'
  PROVE  Inv' /\ FlowInv'
<1>1. Inv' /\ book' = book /\ pc' = "done" /\ out' = out \o <<Rejected(reason)>>
  BY RejectInv DEF Reject, Return
<1>2. PICK e : e = Rejected(reason)
  OBVIOUS
<1>3. /\ e.event = "Rejected" /\ e.reason = reason /\ Quiet(e)
      /\ out' = out \o <<e>> /\ env' # None
  BY <1>1, <1>2, NoneIsNoValue DEF Rejected, Quiet, Flow!Ends
<1>4. /\ IsSequence(<<e>>) /\ DOMAIN <<e>> = {1} /\ <<e>>[1] = e
  BY Singleton
<1>5. Tells(book, book', <<e>>)
  BY <1>1, <1>3, <1>4, SameTells DEF Inv, Sound
<1>6. Consistent' /\ OnlyLiveOrdersAddressed'
  BY <1>1, <1>3, <1>4, <1>5, EngineStep
<1> QED BY <1>1, <1>6, DoneKeeps

\* A new order is not refused before submit() sees it.
LEMMA NewKeeps ==
  ASSUME Inv, FlowInv, UNCHANGED flowVars,
         NEW account \in Accounts, NEW sd \in Sides,
         NEW qty \in 1 .. MaxOrderQty, NEW kind \in Kinds,
         kind.price # None => PriceOk(kind.price),
         NewOrder(account, sd, qty, kind),
         env' = NewCommand(account, sd, qty, kind)
  PROVE  Inv' /\ FlowInv'
<1>1. qty \in Nat /\ qty >= 1 /\ QtyOk(qty)
  BY ConfigValid DEF QtyOk
<1>2. /\ pc = "ready" /\ book' = book /\ out' = out
      /\ CallSubmit(account, sd, qty, kind)
  BY <1>1 DEF NewOrder
<1>3. Inv'
  BY <1>1, NewOrderInv
<1>4. /\ env'.cmd = "New" /\ env'.account = account /\ env'.side = sd
      /\ env'.qty = qty /\ env'.kind = kind
      /\ env' \in Commands
  BY <1>1 DEF NewCommand, Commands
<1>5. env' # None
  BY <1>4, NoneIsNoValue
<1>6. /\ pc' = "submit"
      /\ taker'.account = account /\ taker'.side = sd /\ taker'.kind = kind
      /\ taker'.remaining = qty
  BY <1>2 DEF CallSubmit
<1>7. out = <<>>
  BY <1>2 DEF FlowInv, Turns
<1>8. PICK events : /\ events = <<>> /\ IsSequence(events)
                    /\ DOMAIN events = {} /\ out' = out \o events
  <2>1. <<>> \in Seq({}) /\ <<>> \o <<>> = <<>> /\ DOMAIN <<>> = {}
    OBVIOUS
  <2> QED BY <1>2, <1>7, <2>1 DEF IsSequence
<1>9. Tells(book, book', events)
  BY <1>2, <1>8, SameTells DEF Inv, Sound
<1>10. Consistent' /\ OnlyLiveOrdersAddressed'
  BY <1>2, <1>3, <1>5, <1>8, <1>9, EngineStep
<1>11. TakerIsSender'
  <2>1. Flow!SideOf' = sd
    BY <1>4 DEF Flow!SideOf
  <2>2. DOMAIN out' = {}
    BY <1>2, <1>7
  <2> QED BY <1>4, <1>6, <2>1, <2>2 DEF TakerIsSender
<1>12. NewOrderRuns'
  BY <1>1, <1>2, <1>4, <1>6, <1>7 DEF NewOrderRuns, NothingDone
<1> QED BY <1>2, <1>3, <1>4, <1>6, <1>10, <1>11, <1>12, RunsOnKeeps

\* An order that leaves the book is named by the only event so far.
LEMMA RemovalStep ==
  ASSUME Inv, Inv', FlowInv, pc = "ready", UNCHANGED flowVars, env' # None,
         NEW s \in Slots, Live(book, s), book' = RemoveSlot(book, s),
         NEW e, e.event = "Cancelled", e.id = IdOf(book, s), out' = out \o <<e>>
  PROVE  /\ Consistent' /\ OnlyLiveOrdersAddressed'
         /\ \A i \in DOMAIN out' : out'[i].event # "Rested"
         /\ out' = <<e>> /\ out'[1] = e
<1>1. out = <<>>
  BY DEF FlowInv, Turns
<1>2. /\ out' = <<e>> /\ IsSequence(<<e>>)
      /\ DOMAIN <<e>> = {1} /\ <<e>>[1] = e
  BY <1>1, OnlyEvent
<1>3. Flow!Ends(e)
  BY IdIsNotNone DEF Flow!Ends
<1>4. Sound(book) /\ book' \in Shapes /\ Removes(book, book', s)
  BY RemovalRemoves DEF Inv, Sound
<1>5. Tells(book, book', <<e>>)
  BY <1>2, <1>3, <1>4, RemovalTells
<1>6. /\ Consistent' /\ OnlyLiveOrdersAddressed'
      /\ \A i \in DOMAIN out' : out'[i].event # "Rested"
  BY <1>2, <1>5, EngineStep
<1> QED BY <1>2, <1>6

\* A cancellation finds its order.
LEMMA CancelKeeps ==
  ASSUME Inv, FlowInv, UNCHANGED flowVars, NEW t \in Flow!Tracked,
         Cancel(t.account, t.id), env' = CancelCommand(t.account, t.id)
  PROVE  Inv' /\ FlowInv'
<1>1. pc = "ready"
  BY DEF Cancel
<1>2. PICK s \in Slots : /\ t \in TrackedOrders /\ StandsIn(book, t, s)
                         /\ Owned(t.account, t.id) = {s}
  BY <1>1, TrackedIsOwned
<1>3. /\ t.account \in Accounts /\ t.id \in Slots \X Nat
      /\ t.id = IdOf(book, s) /\ Live(book, s)
  BY <1>2 DEF TrackedOrders, StandsIn
<1>4. /\ book' = RemoveSlot(book, s)
      /\ Return(<<Cancelled(t.id, book.slots[s].remaining, "User")>>)
  BY <1>2 DEF Cancel
<1>5. PICK e : e = Cancelled(t.id, book.slots[s].remaining, "User")
  OBVIOUS
<1>6. /\ e.event = "Cancelled" /\ e.id = t.id
      /\ out' = out \o <<e>> /\ pc' = "done"
  BY <1>4, <1>5 DEF Cancelled, Return
<1>7. Inv'
  BY <1>3, CancelInv
<1>8. env' \in Commands /\ env'.cmd = "Cancel" /\ env'.id = t.id
  BY <1>3 DEF CancelCommand, Commands
<1>9. env' # None
  BY <1>8, NoneIsNoValue
<1>10. /\ Consistent' /\ OnlyLiveOrdersAddressed' /\ out'[1] = e
  BY <1>1, <1>3, <1>4, <1>6, <1>7, <1>9, RemovalStep
<1>11. LabelsFit'
  BY <1>6, <1>8, <1>9, <1>10, LabelOfChange
<1> QED BY <1>1, <1>6, <1>7, <1>8, <1>10, <1>11, DoneKeeps

\* A reduction finds its order.
LEMMA ReduceKeeps ==
  ASSUME Inv, FlowInv, UNCHANGED flowVars, NEW t \in Flow!Tracked, NEW total \in Nat,
         Reduce(t.account, t.id, total),
         env' = ReduceCommand(t.account, t.id, total)
  PROVE  Inv' /\ FlowInv'
<1>1. pc = "ready"
  BY DEF Reduce
<1>2. PICK s \in Slots : /\ t \in TrackedOrders /\ StandsIn(book, t, s)
                         /\ Owned(t.account, t.id) = {s}
  BY <1>1, TrackedIsOwned
<1>3. /\ t.account \in Accounts /\ t.id \in Slots \X Nat
      /\ t.id = IdOf(book, s) /\ Live(book, s)
  BY <1>2 DEF TrackedOrders, StandsIn
<1>4. ReduceOwned(t.id, s, total)
  BY <1>2 DEF Reduce
<1>5. Inv'
  BY <1>3, ReduceInv
<1>6. env' \in Commands /\ env'.cmd = "Reduce"
  BY <1>3 DEF ReduceCommand, Commands
<1>7. env' # None /\ LabelsFit'
  <2>1. env' # None
    BY <1>6, NoneIsNoValue
  <2> QED BY <1>6, <2>1, LabelOfChange
<1> DEFINE slot == book.slots[s]
           left == total - slot.filled
<1>8. slot.filled \in Nat /\ slot.remaining \in Nat /\ book \in Shapes
  BY SlotFacts DEF Inv, Sound
<1>9. CASE /\ total <= slot.filled /\ book' = RemoveSlot(book, s)
           /\ Return(<<Cancelled(t.id, slot.remaining, "ReduceToZero")>>)
  <2>1. PICK e : e = Cancelled(t.id, slot.remaining, "ReduceToZero")
    OBVIOUS
  <2>2. /\ e.event = "Cancelled" /\ e.id = t.id
        /\ out' = out \o <<e>> /\ pc' = "done"
    BY <1>9, <2>1 DEF Cancelled, Return
  <2>3. Consistent' /\ OnlyLiveOrdersAddressed'
    BY <1>1, <1>3, <1>5, <1>7, <1>9, <2>2, RemovalStep
  <2> QED BY <1>1, <1>5, <1>6, <1>7, <2>2, <2>3, DoneKeeps
<1>10. CASE Reject("InvalidChange")
  BY <1>1, <1>6, <1>7, <1>10, RefusalKeeps DEF Allowed
<1>11. CASE /\ slot.filled < total /\ total <= slot.filled + slot.remaining
            /\ book' = ReducedInPlace(book, s, left)
            /\ Return(<<Reduced(t.id, slot.filled, left)>>)
  <2>1. left \in Nat /\ left + slot.filled <= slot.remaining + slot.filled
    <3> HIDE DEF slot
    <3> QED BY <1>8, <1>11
  <2>2. book' \in Shapes /\ Amends(book, book', s, left, slot.filled)
    BY <1>8, <1>11, <2>1, ReducedAmends
  <2>3. PICK e : e = Reduced(t.id, slot.filled, left)
    OBVIOUS
  <2>4. /\ e.event = "Reduced" /\ Quiet(e)
        /\ out' = out \o <<e>> /\ pc' = "done"
    BY <1>11, <2>3 DEF Reduced, Return, Quiet, Flow!Ends
  <2>5. IsSequence(<<e>>) /\ DOMAIN <<e>> = {1} /\ <<e>>[1] = e
    BY Singleton
  <2>6. Tells(book, book', <<e>>)
    <3>1. \A k \in DOMAIN <<e>> : Quiet(<<e>>[k])
      BY <2>4, <2>5
    <3> HIDE DEF left
    <3> QED BY <1>8, <2>1, <2>2, <3>1, AmendTells
  <2>7. Consistent' /\ OnlyLiveOrdersAddressed'
    BY <1>1, <1>5, <1>7, <2>4, <2>5, <2>6, EngineStep
  <2> QED BY <1>1, <1>5, <1>6, <1>7, <2>4, <2>7, DoneKeeps
<1> QED BY <1>4, <1>9, <1>10, <1>11 DEF ReduceOwned

\* A replacement finds its order, and may go on with the rest of it.
LEMMA ReplaceKeeps ==
  ASSUME Inv, FlowInv, UNCHANGED flowVars, NEW t \in Flow!Tracked,
         NEW price \in InputPrices, PriceOk(price), NEW total \in 1 .. MaxOrderQty,
         NEW post_only \in BOOLEAN,
         Replace(t.account, t.id, price, total, post_only),
         env' = ReplaceCommand(t.account, t.id, price, total, post_only)
  PROVE  Inv' /\ FlowInv'
<1>1. pc = "ready"
  BY DEF Replace
<1>2. PICK s \in Slots : /\ t \in TrackedOrders /\ StandsIn(book, t, s)
                         /\ Owned(t.account, t.id) = {s}
                         /\ t.id \in DOMAIN index /\ live[index[t.id]] = t
  BY <1>1, TrackedIsOwned
<1>3. /\ t.account \in Accounts /\ t.id \in Slots \X Nat
      /\ t.id = IdOf(book, s) /\ Live(book, s)
      /\ t.side = book.slots[s].side /\ t.account = book.slots[s].account
  BY <1>2 DEF TrackedOrders, StandsIn
<1>4. total \in Nat /\ total <= MaxOrderQty /\ ~(total > MaxOrderQty)
  BY ConfigValid
<1>5. ReplaceOwned(t.account, t.id, s, price, total, post_only)
  <2>1. ~ReplaceRefused(t.account, t.id, price, total)
    BY <1>2, <1>4 DEF ReplaceRefused
  <2> QED BY <1>2, <2>1 DEF Replace
<1>6. Inv'
  BY <1>3, <1>4, ReplaceInv
<1>7. /\ env' \in Commands /\ env'.cmd = "Replace"
      /\ env'.account = t.account /\ env'.id = t.id
  BY <1>3, <1>4 DEF ReplaceCommand, Commands
<1>8. env' # None /\ LabelsFit'
  <2>1. env' # None
    BY <1>7, NoneIsNoValue
  <2> QED BY <1>7, <2>1, LabelOfChange
<1> DEFINE old     == book.slots[s]
           refusal == ReplaceRefusal(s, price, post_only)
           kind    == [type |-> IF post_only THEN "PostOnly" ELSE "Gtc",
                       price |-> price]
<1>9. PICK e : e = Cancelled(t.id, old.remaining, "Replaced")
  OBVIOUS
<1>10. e.event = "Cancelled" /\ e.id = t.id
  BY <1>9 DEF Cancelled
<1>11. CASE book' = RemoveSlot(book, s) /\ Return(<<e>>)
  <2>1. out' = out \o <<e>> /\ pc' = "done"
    BY <1>11 DEF Return
  <2>2. Consistent' /\ OnlyLiveOrdersAddressed'
    BY <1>1, <1>3, <1>6, <1>8, <1>10, <1>11, <2>1, RemovalStep
  <2> QED BY <1>1, <1>6, <1>7, <1>8, <2>1, <2>2, DoneKeeps
<1>12. CASE refusal # None /\ Reject(refusal)
  <2>1. refusal \in Allowed
    BY <1>12 DEF ReplaceRefusal, Allowed
  <2> HIDE DEF refusal
  <2> QED BY <1>1, <1>7, <1>8, <1>12, <2>1, RefusalKeeps
<1>13. CASE /\ book' = RemoveSlot(book, s) /\ out' = <<e>>
            /\ CallSubmit(t.account, old.side, total - old.filled, kind)
  <2>1. out = <<>> /\ <<>> \o <<e>> = <<e>>
    BY <1>1, Singleton DEF FlowInv, Turns
  <2>2. out' = out \o <<e>>
    BY <1>13, <2>1
  <2>3. /\ Consistent' /\ OnlyLiveOrdersAddressed'
        /\ \A i \in DOMAIN out' : out'[i].event # "Rested"
    BY <1>1, <1>3, <1>6, <1>8, <1>10, <1>13, <2>2, RemovalStep
  <2>4. /\ pc' = "submit"
        /\ taker'.account = t.account /\ taker'.side = t.side
    BY <1>3, <1>13 DEF CallSubmit
  <2>5. Flow!SideOf' = t.side
    BY <1>2, <1>7 DEF Flow!SideOf, flowVars
  <2>6. TakerIsSender' /\ NewOrderRuns'
    BY <1>7, <2>3, <2>4, <2>5 DEF TakerIsSender, NewOrderRuns
  <2> QED BY <1>1, <1>6, <1>7, <2>3, <2>4, <2>6, RunsOnKeeps
<1>14. \/ book' = RemoveSlot(book, s) /\ Return(<<e>>)
       \/ refusal # None /\ Reject(refusal)
       \/ /\ book' = RemoveSlot(book, s) /\ out' = <<e>>
          /\ CallSubmit(t.account, old.side, total - old.filled, kind)
  BY <1>5, <1>9 DEF ReplaceOwned
<1> QED BY <1>11, <1>12, <1>13, <1>14

\* Whatever next() draws, the engine takes it.
LEMMA GenerateKeeps ==
  ASSUME Inv, FlowInv, Generate
  PROVE  Inv' /\ FlowInv'
<1>1. PICK e \in Flow!GeneratedCommands(Best("Buy"), Best("Sell")) :
        Begin(e) /\ env' = e
  BY DEF Generate
<1>2. UNCHANGED flowVars /\ WellMade(e)
  BY DrawsAreWellMade DEF Generate
<1>3. ASSUME NEW t \in Flow!Tracked, e = CancelCommand(t.account, t.id)
      PROVE  Inv' /\ FlowInv'
  <2>1. Cancel(t.account, t.id)
    BY <1>1, <1>3 DEF Begin, CancelCommand
  <2> QED BY <1>1, <1>2, <1>3, <2>1, CancelKeeps
<1>4. ASSUME NEW t \in Flow!Tracked, NEW total \in Nat,
             e = ReduceCommand(t.account, t.id, total)
      PROVE  Inv' /\ FlowInv'
  <2>1. Reduce(t.account, t.id, total)
    BY <1>1, <1>4 DEF Begin, ReduceCommand
  <2> QED BY <1>1, <1>2, <1>4, <2>1, ReduceKeeps
<1>5. ASSUME NEW t \in Flow!Tracked, NEW price \in InputPrices, PriceOk(price),
             NEW total \in 1 .. MaxOrderQty, NEW post_only \in BOOLEAN,
             e = ReplaceCommand(t.account, t.id, price, total, post_only)
      PROVE  Inv' /\ FlowInv'
  <2>1. Replace(t.account, t.id, price, total, post_only)
    BY <1>1, <1>5 DEF Begin, ReplaceCommand
  <2> QED BY <1>1, <1>2, <1>5, <2>1, ReplaceKeeps
<1>6. ASSUME NEW account \in Accounts, NEW sd \in Sides,
             NEW qty \in 1 .. MaxOrderQty, NEW kind \in Kinds,
             kind.price # None => PriceOk(kind.price),
             e = NewCommand(account, sd, qty, kind)
      PROVE  Inv' /\ FlowInv'
  <2>1. NewOrder(account, sd, qty, kind)
    BY <1>1, <1>6 DEF Begin, NewCommand
  <2> QED BY <1>1, <1>2, <1>6, <2>1, NewKeeps
<1> QED BY <1>2, <1>3, <1>4, <1>5, <1>6 DEF WellMade

----------------------------------------------------------------------------
(***************************************************************************)
(* submit()                                                                *)
(***************************************************************************)
\* submit() runs for a new order or a replacement.
LEMMA RunningCommand ==
  ASSUME Inv, FlowInv, pc \in {"submit", "match"}
  PROVE  /\ env \in Commands /\ env # None
         /\ taker.account = env.account /\ taker.side = Flow!SideOf
         /\ taker.side \in Sides /\ taker.account \in Accounts
         /\ \/ env.cmd = "New" /\ taker.kind = env.kind /\ env.kind \in Kinds
            \/ env.cmd = "Replace"
<1>1. /\ env \in Commands /\ env # None
      /\ taker.account = env.account /\ taker.side = Flow!SideOf
      /\ env.cmd = "New" => taker.kind = env.kind
  BY DEF FlowInv, Turns, TakerIsSender
<1>2. taker.side \in Sides /\ taker.account \in Accounts
  BY TakerFacts
<1>3. None \notin Sides
  BY NoneIsNoValue
<1>4. env.cmd \in {"New", "Replace"}
  BY <1>1, <1>2, <1>3 DEF Flow!SideOf
<1>5. env.cmd = "New" => env.kind \in Kinds
  BY <1>1, CommandFields
<1> QED BY <1>1, <1>2, <1>4, <1>5

\* Traded at least once, or nothing done yet.
LEMMA RunOfNew ==
  ASSUME FlowInv, pc \in {"submit", "match"}, env.cmd = "New"
  PROVE  /\ env.qty >= 1
         /\ \/ NothingDone
            \/ /\ pc = "match" /\ taker.kind.type # "PostOnly"
               /\ \E i \in DOMAIN out : out[i].event = "Trade"
BY DEF FlowInv, NewOrderRuns

\* An event that the only one of a new order may be.
FitsAlone(e) ==
  \/ e.event = "Rejected"
  \/ e.event = "Rested" /\ e.qty = env.qty
  \/ e = Cancelled(None, env.qty, "SelfTrade") /\ env.kind.type # "PostOnly"
  \/ e.event = "Cancelled" /\ ~Rests(env.kind)

\* The labels of a command that submit() ends.
LEMMA LabelsOfRun ==
  ASSUME Inv, FlowInv, pc \in {"submit", "match"}, UNCHANGED env,
         NEW e, out' = out \o <<e>>,
         env.cmd = "New" /\ NothingDone => FitsAlone(e)
  PROVE  LabelsFit'
<1>1. /\ env \in Commands /\ env # None
      /\ \/ env.cmd = "New" /\ taker.kind = env.kind /\ env.kind \in Kinds
         \/ env.cmd = "Replace"
  BY RunningCommand
<1>2. CASE env.cmd = "Replace"
  BY <1>1, <1>2, LabelOfChange
<1>3. CASE env.cmd = "New" /\ out = <<>> /\ FitsAlone(e)
  <2>1. out' = <<e>> /\ DOMAIN out' = {1} /\ Len(out') = 1 /\ out'[1] = e
    BY <1>3, OnlyEvent
  <2>2. env.kind.type \in {"Gtc", "Ioc", "PostOnly", "Market"}
    BY <1>1, <1>3 DEF Kinds
  <2>3. CASE e.event = "Rejected"
    <3>1. Flow!Classify' \in {"PostOnlyReject", "OtherReject"}
      BY <1>3, <2>1, <2>2, <2>3 DEF Flow!Classify
    <3> QED BY <2>1, <2>3, <3>1 DEF LabelsFit, Only
  <2>4. CASE e.event = "Rested" /\ e.qty = env.qty
    <3>1. Flow!Classify' \in {"PostOnlyRest", "GtcRest", "Ioc", "Market"}
      BY <1>3, <2>1, <2>2, <2>4 DEF Flow!Classify
    <3> QED BY <2>1, <2>4, <3>1 DEF LabelsFit, Only
  <2>5. CASE e = Cancelled(None, env.qty, "SelfTrade") /\ env.kind.type # "PostOnly"
    <3>1. e.event = "Cancelled"
      BY <2>5 DEF Cancelled
    <3>2. Flow!Classify' \in {"GtcRest", "Ioc", "Market"}
      BY <1>3, <2>1, <2>2, <2>5, <3>1 DEF Flow!Classify
    <3>3. out' = <<Cancelled(None, env'.qty, "SelfTrade")>>
      BY <2>1, <2>5
    <3> QED BY <3>2, <3>3 DEF LabelsFit
  <2>6. CASE e.event = "Cancelled" /\ ~Rests(env.kind)
    <3>1. Flow!Classify' \in {"Ioc", "Market"}
      BY <1>3, <2>1, <2>2, <2>6 DEF Flow!Classify, Rests
    <3> QED BY <3>1 DEF LabelsFit
  <2> QED BY <1>3, <2>3, <2>4, <2>5, <2>6 DEF FitsAlone
<1>4. ASSUME env.cmd = "New", taker.kind.type # "PostOnly",
             NEW i \in DOMAIN out, out[i].event = "Trade"
      PROVE  LabelsFit'
  <2>1. IsSequence(out) /\ IsSequence(<<e>>)
    BY Unobserved, Singleton
  <2>2. i \in DOMAIN (out \o <<e>>) /\ (out \o <<e>>)[i] = out[i]
    BY <2>1, EmitFacts
  <2>3. \E k \in DOMAIN out' : out'[k].event = "Trade"
    BY <1>4, <2>2
  <2>4. env.kind.type \in {"Gtc", "Ioc", "Market"}
    BY <1>1, <1>4 DEF Kinds
  <2>5. Flow!Classify' =
          IF Len(out') = 1 /\ out'[1].event = "Rejected" THEN "OtherReject"
          ELSE IF env.kind.type = "Gtc" THEN "GtcMatch"
          ELSE env.kind.type
    BY <1>4, <2>3, <2>4 DEF Flow!Classify
  <2>6. \/ Flow!Classify' \in {"GtcMatch", "Ioc", "Market"}
        \/ Flow!Classify' = "OtherReject" /\ Only("Rejected")'
    BY <2>4, <2>5 DEF Only
  <2> QED BY <2>6 DEF LabelsFit
<1> QED BY <1>1, <1>2, <1>3, <1>4, RunOfNew DEF NothingDone

\* A step of submit() that ends the command with an event, and with nothing new
\* in the book.
LEMMA ReturnKeeps ==
  ASSUME Inv, Inv', FlowInv, pc \in {"submit", "match"}, UNCHANGED <<env, flowVars>>,
         NEW e, Return(<<e>>), book' = book, Quiet(e),
         e.event = "Rejected" => e.reason \in Allowed,
         env.cmd = "New" /\ NothingDone => FitsAlone(e)
  PROVE  FlowInv'
<1>1. out' = out \o <<e>> /\ pc' = "done" /\ UNCHANGED flowVars /\ env' = env
  BY DEF Return
<1>2. env \in Commands /\ env # None
  BY RunningCommand
<1>3. IsSequence(<<e>>) /\ DOMAIN <<e>> = {1} /\ <<e>>[1] = e
  BY Singleton
<1>4. Tells(book, book', <<e>>)
  BY <1>3, SameTells DEF Inv, Sound
<1>5. Consistent' /\ OnlyLiveOrdersAddressed'
  BY <1>1, <1>2, <1>3, <1>4, EngineStep DEF Quiet
<1>6. LabelsFit'
  BY <1>1, LabelsOfRun
<1> QED BY <1>1, <1>2, <1>5, <1>6, DoneKeeps

\* submit() refuses the order or goes into its loop.
LEMMA SubmitKeeps ==
  ASSUME Inv, FlowInv, Submit, UNCHANGED <<env, flowVars>>
  PROVE  Inv' /\ FlowInv'
<1>1. Inv' /\ pc = "submit"
  BY SubmitInv DEF Submit
<1>2. CASE SubmitRefusal # None /\ Reject(SubmitRefusal)
  <2>1. PICK e : e = Rejected(SubmitRefusal)
    OBVIOUS
  <2>2. e.event = "Rejected" /\ e.reason \in Allowed /\ Quiet(e)
    BY <1>2, <2>1 DEF Rejected, SubmitRefusal, Allowed, Quiet, Flow!Ends
  <2>3. Return(<<e>>) /\ book' = book /\ FitsAlone(e)
    BY <1>2, <2>1, <2>2 DEF Reject, FitsAlone
  <2> QED BY <1>1, <2>2, <2>3, ReturnKeeps
<1>3. CASE SubmitRefusal = None /\ pc' = "match" /\ UNCHANGED <<book, taker, out>>
  <2>1. env \in Commands /\ env # None
    BY <1>1, RunningCommand
  <2>2. PICK events : /\ events = <<>> /\ IsSequence(events)
                      /\ DOMAIN events = {} /\ out' = out \o events
    <3>1. IsSequence(out)
      BY <1>1, Unobserved
    <3>2. <<>> \in Seq({}) /\ out \o <<>> = out /\ DOMAIN <<>> = {}
      BY <3>1, ConcatEmptySeq DEF IsSequence
    <3> QED BY <1>3, <3>2 DEF IsSequence
  <2>3. Tells(book, book', events)
    BY <1>3, <2>2, SameTells DEF Inv, Sound
  <2>4. /\ Consistent' /\ OnlyLiveOrdersAddressed'
        /\ \A i \in DOMAIN out' : out'[i].event # "Rested"
    BY <1>1, <2>1, <2>2, <2>3, EngineStep
  <2>5. TakerIsSender'
    <3>1. Flow!SideOf' = Flow!SideOf
      BY DEF Flow!SideOf, flowVars
    <3> QED BY <1>1, <1>3, <2>4, <3>1 DEF FlowInv, TakerIsSender
  <2>6. NewOrderRuns'
    <3>1. SubmitRefusal' = None
      BY <1>3 DEF SubmitRefusal, Marketable, Best, Limit
    <3> QED BY <1>1, <1>3, <3>1 DEF FlowInv, NewOrderRuns, NothingDone
  <2> QED BY <1>1, <1>3, <2>1, <2>4, <2>5, <2>6, RunsOnKeeps
<1> QED BY <1>2, <1>3 DEF Submit

\* A post-only order does not get to trade.
LEMMA PostOnlyDoesNotTrade ==
  ASSUME SubmitRefusal = None, Matching
  PROVE  taker.kind.type # "PostOnly"
<1>1. "PostOnlyWouldCross" # None
  BY InputsValid DEF RejectReasons
<1> QED BY <1>1 DEF SubmitRefusal, Matching

\* Self-trade prevention ends the command.
LEMMA SelfTradeKeeps ==
  ASSUME Inv, FlowInv, SelfTrade, UNCHANGED <<env, flowVars>>
  PROVE  Inv' /\ FlowInv'
<1>1. Inv' /\ pc = "match" /\ Matching /\ book' = book
  BY SelfTradeInv DEF SelfTrade, Matching
<1>2. PICK e : e = Cancelled(None, taker.remaining, "SelfTrade")
  OBVIOUS
<1>3. e.event = "Cancelled" /\ Quiet(e) /\ Return(<<e>>)
  BY <1>2 DEF Cancelled, Quiet, Flow!Ends, SelfTrade
<1>4. ASSUME env.cmd = "New", NothingDone
      PROVE  FitsAlone(e)
  <2>1. taker.kind.type # "PostOnly" /\ taker.kind = env.kind
    BY <1>1, <1>4, PostOnlyDoesNotTrade, RunningCommand DEF NothingDone
  <2> QED BY <1>2, <1>4, <2>1 DEF FitsAlone, NothingDone
<1> QED BY <1>1, <1>3, <1>4, ReturnKeeps

\* A fill leaves the maker with less, or takes it off the book and says so.
LEMMA FillKeeps ==
  ASSUME Inv, FlowInv, Fill, UNCHANGED <<env, flowVars>>
  PROVE  Inv' /\ FlowInv'
<1> DEFINE s      == Maker
           p      == Best(MakerSide)
           fill   == Min({taker.remaining, book.slots[Maker].remaining})
           left   == book.slots[s].remaining - fill
           done   == book.slots[s].filled + fill
           filled == FilledIn(book, MakerSide, p, s, fill, left)
           trade  == Trade(taker.side, IdOf(book, s), p, fill, left)
           end    == MakerFilled(IdOf(book, s))
<1>1. /\ Sound(book) /\ book \in Shapes
      /\ MakerSide \in Sides /\ p \in Ticks
      /\ s \in Slots /\ InLevel(book, s, MakerSide, p)
      /\ book.slots[s].remaining \in Nat /\ book.slots[s].filled \in Nat
      /\ taker \in Takers /\ taker.remaining \in Nat
  <2>1. /\ s \in Slots /\ Sound(book) /\ book \in Shapes
        /\ MakerSide \in Sides /\ p \in Ticks
        /\ InLevel(book, s, MakerSide, p)
        /\ taker \in Takers /\ taker.remaining \in Nat
    BY MakerFacts DEF Fill, Inv, Sound
  <2> QED BY <2>1, SlotFacts
<1>2. /\ taker' = [taker EXCEPT !.remaining = @ - fill]
      /\ pc' = pc /\ pc = "match" /\ Matching
      /\ \/ /\ left = 0 /\ out' = out \o <<trade, end>>
            /\ book' = Release(LevelRemove(filled, MakerSide, p, s), s)
         \/ left > 0 /\ book' = filled /\ out' = Append(out, trade)
  BY DEF Fill, FilledIn, Matching
<1>3. Inv' /\ UNCHANGED flowVars /\ env' = env
  BY FillInv
<1>4. /\ taker'.account = taker.account /\ taker'.side = taker.side
      /\ taker'.kind = taker.kind
  BY <1>1, <1>2 DEF Takers
<1> DEFINE r == book.slots[s].remaining
           f == book.slots[s].filled
<1>5. fill \in Nat /\ left \in Nat /\ done \in Nat /\ left + done <= r + f
  <2>1. fill \in {taker.remaining, r} /\ fill <= taker.remaining /\ fill <= r
    BY <1>1, MinOfTwo
  <2> HIDE DEF fill, r, f
  <2> QED BY <1>1, <2>1 DEF r, f
<1>6. /\ env \in Commands /\ env # None
      /\ taker.account = env.account /\ taker.side = Flow!SideOf
      /\ env.cmd = "New" => taker.kind = env.kind
  BY <1>2, RunningCommand DEF FlowInv, TakerIsSender
<1>7. Live(book, s)
  BY <1>1 DEF InLevel
<1>8. PICK e : e = trade
  OBVIOUS
<1>9. PICK d : d = end
  OBVIOUS
<1>10. /\ e.event = "Trade" /\ Quiet(e)
       /\ d.event = "MakerFilled" /\ d.id = IdOf(book, s) /\ Flow!Ends(d)
  BY <1>8, <1>9 DEF Trade, MakerFilled, Quiet, Flow!Ends
<1> HIDE DEF s, p, fill, left, done, filled, trade, end, r, f
<1>11. filled \in Shapes /\ Amends(book, filled, s, left, done)
  BY <1>1, <1>5, FilledAmends DEF filled, done
<1>12. \E events : /\ IsSequence(events) /\ out' = out \o events
                   /\ Tells(book, book', events)
                   /\ \A k \in DOMAIN events :
                        events[k].event \notin {"Rested", "Rejected"}
                   /\ \E k \in DOMAIN events : events[k].event = "Trade"
  <2>1. CASE left = 0
    <3>1. PICK events : events = <<e, d>>
      OBVIOUS
    <3>2. /\ IsSequence(events) /\ DOMAIN events = {1, 2}
          /\ events[1] = e /\ events[2] = d
      <4>1. events \in Seq({e, d})
        BY <3>1
      <4>2. IsSequence(events)
        BY <4>1 DEF IsSequence
      <4>3. Len(events) = 2 /\ events[1] = e /\ events[2] = d
        BY <3>1
      <4>4. DOMAIN events = {1, 2}
        BY <4>1, <4>3
      <4> QED BY <4>2, <4>3, <4>4
    <3>3. filled.slots[s].side = MakerSide /\ filled.slots[s].price = p
      BY <1>1, <1>11 DEF Amends, InLevel
    <3>4. /\ book' = RemoveSlot(filled, s) /\ out' = out \o events
      BY SMTT(30), <1>2, <1>8, <1>9, <2>1, <3>1, <3>3 DEF RemoveSlot
    <3>5. Sound(filled) /\ Live(filled, s)
      BY <1>1, <1>7, <1>11, AmendIsSound
    <3>6. Removes(book, book', s)
      <4>1. Removes(filled, book', s)
        BY <1>1, <3>4, <3>5, RemovalRemoves
      <4> QED BY <1>1, <1>11, <4>1, AmendedThenRemoved
    <3>7. book' \in Shapes
      BY <1>3 DEF Inv, Sound
    <3>8. Tells(book, book', events)
      <4>1. \A k \in DOMAIN events :
              \/ Quiet(events[k])
              \/ /\ events[k].event # "Rested" /\ Flow!Ends(events[k])
                 /\ events[k].id = IdOf(book, s)
        BY <1>10, <3>2
      <4>2. \E k \in DOMAIN events :
              Flow!Ends(events[k]) /\ events[k].id = IdOf(book, s)
        BY <1>10, <3>2
      <4> QED BY <1>1, <1>7, <3>6, <3>7, <4>1, <4>2, RemovalTells
    <3> QED BY <1>10, <3>2, <3>4, <3>8
  <2>2. CASE left > 0
    <3>1. PICK events : events = <<e>>
      OBVIOUS
    <3>2. IsSequence(events) /\ DOMAIN events = {1} /\ events[1] = e
      BY <3>1, Singleton
    <3>3. /\ book' = filled /\ out' = Append(out, e)
      BY <1>2, <1>5, <1>8, <2>2
    <3>4. out' = out \o events
      <4>1. IsSequence(out)
        BY <1>2, Unobserved
      <4> QED BY <3>1, <3>3, <4>1 DEF IsSequence
    <3>5. Tells(book, book', events)
      <4>1. \A k \in DOMAIN events : Quiet(events[k])
        BY <1>10, <3>2
      <4> QED BY <1>1, <1>5, <1>11, <3>3, <4>1, AmendTells DEF r, f
    <3> QED BY <1>10, <3>2, <3>4, <3>5
  <2> QED BY <1>2, <2>1, <2>2
<1>13. PICK events : /\ IsSequence(events) /\ out' = out \o events
                     /\ Tells(book, book', events)
                     /\ \A k \in DOMAIN events :
                          events[k].event \notin {"Rested", "Rejected"}
                     /\ \E k \in DOMAIN events : events[k].event = "Trade"
  BY <1>12
<1>14. /\ Consistent' /\ OnlyLiveOrdersAddressed'
       /\ \A i \in DOMAIN out' : out'[i].event # "Rested"
  BY <1>2, <1>3, <1>6, <1>13, EngineStep
<1>15. TakerIsSender'
  <2>1. Flow!SideOf' = Flow!SideOf
    BY <1>3 DEF Flow!SideOf, flowVars
  <2> QED BY <1>2, <1>3, <1>4, <1>6, <1>14, <2>1 DEF TakerIsSender
<1>16. NewOrderRuns'
  <2>1. IsSequence(out)
    BY <1>2, Unobserved
  <2>2. PICK k \in DOMAIN events : events[k].event = "Trade"
    BY <1>13
  <2>3. Len(out) + k \in DOMAIN (out \o events) /\ (out \o events)[Len(out) + k] = events[k]
    BY <1>13, <2>1, EmitFacts
  <2>4. \E i \in DOMAIN out' : out'[i].event = "Trade"
    BY <1>13, <2>2, <2>3
  <2>5. env.cmd = "New" => env.qty >= 1 /\ taker.kind.type # "PostOnly"
    BY <1>2, RunOfNew, PostOnlyDoesNotTrade DEF NothingDone
  <2> QED BY <1>2, <1>3, <1>4, <2>4, <2>5 DEF NewOrderRuns
<1> QED BY <1>2, <1>3, <1>6, <1>14, <1>15, <1>16, RunsOnKeeps

\* An order comes to rest, and the last event tells of it.
LEMMA RestKeeps ==
  ASSUME Inv, FlowInv, pc = "match", taker.remaining > 0, Rests(taker.kind), Rest,
         UNCHANGED <<env, flowVars>>
  PROVE  Inv' /\ FlowInv'
<1> DEFINE s == Last(book.free)
<1>1. /\ book.free # <<>> /\ book' = RestedIn(book)
      /\ Return(<<Rested(IdOf(RestedIn(book), s), taker.remaining)>>)
  BY DEF Rest, RestedIn
<1>2. PICK e : e = Rested(IdOf(RestedIn(book), s), taker.remaining)
  OBVIOUS
<1>3. /\ e.event = "Rested" /\ e.id = IdOf(book', s) /\ e.qty = taker.remaining
      /\ ~Flow!Ends(e)
  BY <1>1, <1>2 DEF Rested, Flow!Ends
<1>4. /\ out' = out \o <<e>> /\ pc' = "done" /\ UNCHANGED flowVars /\ env' = env
  BY <1>1, <1>2 DEF Return
<1>5. Inv'
  BY RestInv
<1>6. /\ env \in Commands /\ env # None
      /\ taker.account = env.account /\ taker.side = Flow!SideOf
  BY RunningCommand
<1>7. /\ taker.side \in Sides /\ Limit \in Ticks /\ taker.remaining \in Nat
      /\ taker.account \in Accounts /\ Sound(book) /\ book \in Shapes
  BY TakerFacts DEF Inv, Sound
<1>8. /\ seen = None /\ (env # None \/ out = <<>>)
      /\ \A i \in DOMAIN out : out[i].event # "Rested"
      /\ FlowTypeOK /\ Consistent /\ IsSequence(out)
  BY Unobserved
<1>9. IsSequence(<<e>>) /\ DOMAIN <<e>> = {1} /\ <<e>>[1] = e /\ Len(<<e>>) = 1
  BY Singleton
<1>10. PICK events : events = <<e>>
  OBVIOUS
<1>11. Tells(book, book', <<e>>)
  BY <1>1, <1>3, <1>7, RestTells
<1> DEFINE t == TrackedAs(e, env'.account, SideRead')
<1>12. /\ t.id = IdOf(book', s) /\ t.account = taker.account
       /\ t.side = taker.side /\ t.qty = taker.remaining
       /\ t = [id |-> IdOf(book', s), account |-> taker.account,
               side |-> taker.side, qty |-> taker.remaining]
  <2>1. SideRead' = Flow!SideOf
    BY <1>4, <1>8 DEF SideRead, Flow!SideOf, flowVars
  <2> QED BY <1>3, <1>4, <1>6, <2>1 DEF TrackedAs
<1>13. /\ s \in Slots /\ Live(book', s) /\ book' \in Shapes
       /\ book'.slots[s].filled = 0 /\ book'.slots[s].remaining = taker.remaining
       /\ book'.slots[s].account = taker.account
       /\ book'.slots[s].side = taker.side
  <2>1. /\ s \in Slots /\ book' \in Shapes /\ Live(book', s)
    BY <1>1, <1>7, RestIsSound DEF Sound
  <2> QED BY <1>1, <1>7, <2>1, RestedFields
<1> HIDE DEF s, t
<1>14. t \in TrackedOrders
  <2>1. IdOf(book', s) \in Slots \X Nat
    BY <1>13, LiveIsSpent
  <2> QED BY <1>7, <1>12, <2>1 DEF TrackedOrders
<1>15. StandsIn(book', t, s)
  BY <1>7, <1>12, <1>13 DEF StandsIn
<1>16. Consistent'
  <2>1. \A k \in DOMAIN <<e>> : <<e>>[k].event = "Rested" =>
          LET u == TrackedAs(<<e>>[k], env'.account, SideRead')
          IN  /\ k = Len(<<e>>)
              /\ u \in TrackedOrders
              /\ \E i \in Slots : StandsIn(book', u, i)
    BY <1>9, <1>13, <1>14, <1>15 DEF t
  <2>2. \A k \in DOMAIN events : events[k].event = "Rested" =>
          LET u == TrackedAs(events[k], env'.account, SideRead')
          IN  /\ k = Len(events)
              /\ u \in TrackedOrders
              /\ \E i \in Slots : StandsIn(book', u, i)
    BY <1>10, <2>1
  <2>3. IsSequence(events) /\ out' = out \o events /\ Tells(book, book', events)
    BY <1>4, <1>9, <1>10, <1>11
  <2> QED BY <1>4, <1>6, <1>7, <1>8, <1>13, <2>2, <2>3, StepKeeps
<1>17. OnlyLiveOrdersAddressed'
  <2>1. /\ IsSequence(out \o events)
        /\ Len(out) \in Nat /\ Len(events) \in Nat
        /\ Len(out \o events) = Len(out) + Len(events)
        /\ DOMAIN out = 1 .. Len(out) /\ DOMAIN events = 1 .. Len(events)
        /\ DOMAIN (out \o events) = 1 .. Len(out) + Len(events)
        /\ \A i \in DOMAIN out : /\ i \in DOMAIN (out \o events)
                                 /\ (out \o events)[i] = out[i]
        /\ \A k \in DOMAIN events : /\ Len(out) + k \in DOMAIN (out \o events)
                                    /\ (out \o events)[Len(out) + k] = events[k]
        /\ \A i \in DOMAIN (out \o events) :
             \/ i \in DOMAIN out
             \/ \E k \in DOMAIN events : i = Len(out) + k
    <3>1. IsSequence(out) /\ IsSequence(events)
      BY <1>8, <1>9, <1>10
    <3> QED BY ONLY <3>1, EmitFacts
  <2>2. \A i \in DOMAIN out' : \/ i \in DOMAIN out /\ out'[i] = out[i]
                               \/ \E k \in DOMAIN events : out'[i] = events[k]
    BY <1>4, <1>10, <2>1
  <2>3. \A k \in DOMAIN events : events[k].event # "Rejected"
    BY <1>3, <1>9, <1>10
  <2> QED BY <2>2, <2>3 DEF FlowInv, OnlyLiveOrdersAddressed
<1>18. LabelsFit'
  <2>1. env.cmd = "New" /\ NothingDone => FitsAlone(e)
    BY <1>3 DEF NothingDone, FitsAlone
  <2> QED BY <1>4, <2>1, LabelsOfRun
<1> QED BY <1>4, <1>5, <1>6, <1>16, <1>17, <1>18, DoneKeeps

\* The command comes to its last event.
LEMMA FinishKeeps ==
  ASSUME Inv, FlowInv, Finish, UNCHANGED <<env, flowVars>>
  PROVE  Inv' /\ FlowInv'
<1>1. Inv' /\ pc = "match" /\ ~Matching
  BY FinishInv DEF Finish
<1>2. taker.remaining \in Nat
  BY <1>1, TakerFacts
<1>3. CASE taker.remaining = 0 /\ Return(<<Filled>>) /\ book' = book
  <2>1. PICK e : e = Filled
    OBVIOUS
  <2>2. Quiet(e) /\ e.event # "Rejected" /\ Return(<<e>>)
    BY <1>3, <2>1 DEF Filled, Quiet, Flow!Ends
  <2>3. env.cmd = "New" => ~NothingDone
    BY <1>1, <1>3, RunOfNew DEF NothingDone
  <2> QED BY <1>1, <1>3, <2>2, <2>3, ReturnKeeps
<1>4. CASE /\ taker.remaining > 0 /\ ~Rests(taker.kind) /\ book' = book
           /\ Return(<<Cancelled(None, taker.remaining, "Unfilled")>>)
  <2>1. PICK e : e = Cancelled(None, taker.remaining, "Unfilled")
    OBVIOUS
  <2>2. e.event = "Cancelled" /\ Quiet(e) /\ Return(<<e>>)
    BY <1>4, <2>1 DEF Cancelled, Quiet, Flow!Ends
  <2>3. env.cmd = "New" => FitsAlone(e)
    BY <1>1, <1>4, <2>2, RunningCommand DEF FitsAlone
  <2> QED BY <1>1, <1>4, <2>2, <2>3, ReturnKeeps
<1>5. CASE taker.remaining > 0 /\ Rests(taker.kind) /\ Rest
  BY <1>1, <1>5, RestKeeps
<1>6. CASE /\ taker.remaining > 0 /\ Rests(taker.kind) /\ book.free = <<>>
           /\ Return(<<Cancelled(None, taker.remaining, "CapacityExhausted")>>)
           /\ book' = book
  <2>1. PICK e : e = Cancelled(None, taker.remaining, "CapacityExhausted")
    OBVIOUS
  <2>2. e.event = "Cancelled" /\ Quiet(e) /\ Return(<<e>>)
    BY <1>6, <2>1 DEF Cancelled, Quiet, Flow!Ends
  <2>3. ~NothingDone
    <3>1. ~Marketable(taker.side, Limit)
      BY <1>1, <1>6 DEF Matching
    <3>2. SubmitRefusal = "BookFull"
      BY <1>6, <3>1 DEF SubmitRefusal
    <3>3. "BookFull" # None
      BY InputsValid DEF RejectReasons
    <3> QED BY <1>1, <3>2, <3>3 DEF NothingDone
  <2> QED BY <1>1, <1>6, <2>2, <2>3, ReturnKeeps
<1> QED BY <1>3, <1>4, <1>5, <1>6 DEF Finish

----------------------------------------------------------------------------
(***************************************************************************)
(* The steps together                                                      *)
(***************************************************************************)
\* When all events are read, none is left.
LEMMA NothingUnread ==
  ASSUME IsSequence(out), env = None
  PROVE  Unread = {}
<1>1. Len(out) \in Nat /\ DOMAIN out = 1 .. Len(out)
  BY DEF IsSequence
<1> QED BY <1>1 DEF Unread, Read

\* At first there is no order, in the list or in the book.
LEMMA RecordInitKeeps == RecordInit => Inv /\ FlowInv
<1> SUFFICES ASSUME RecordInit
             PROVE  Inv /\ FlowInv
  OBVIOUS
<1>1. /\ Inv /\ pc = "ready" /\ out = <<>> /\ env = None
      /\ live = <<>> /\ index = <<>> /\ side = None /\ seen = None
      /\ \A s \in Slots : book.slots[s] = EmptySlot
  BY InitInv DEF RecordInit, Init, Flow!Init
<1>2. DOMAIN <<>> = {} /\ <<>> \in Seq(TrackedOrders)
  OBVIOUS
<1>3. \A s \in Slots : ~Live(book, s)
  BY <1>1 DEF Live, EmptySlot
<1>4. Turns /\ FlowTypeOK /\ IndexLeadsToOrders /\ Flow!Tracked = {}
  BY <1>1, <1>2 DEF Turns, FlowTypeOK, IndexLeadsToOrders, Flow!Tracked
<1>5. IsSequence(out) /\ Unread = {}
  BY <1>1, <1>2 DEF IsSequence, Unread
<1>6. Consistent
  BY <1>3, <1>4, <1>5
  DEF Consistent, ListIsSpent, ListedIsLive, LiveIsListed, EndsAreFinal, RestIsNew
<1>7. TakerIsSender /\ NewOrderRuns /\ LabelsFit /\ OnlyLiveOrdersAddressed
  BY <1>1, <1>2 DEF TakerIsSender, NewOrderRuns, LabelsFit, OnlyLiveOrdersAddressed
<1> QED BY <1>1, <1>4, <1>6, <1>7 DEF FlowInv

\* The events are cleared when all of them have been observed.
LEMMA ClearKeeps ==
  ASSUME Inv, FlowInv, Clear
  PROVE  Inv' /\ FlowInv'
<1>1. /\ pc' = "ready" /\ out' = <<>> /\ env = None /\ env' = None
      /\ UNCHANGED <<book, taker, live, index, side, seen>>
  BY DEF Clear, Drain, flowVars
<1>2. Inv'
  BY NextInv DEF Clear, Next
<1>3. seen = None /\ FlowTypeOK /\ IndexLeadsToOrders /\ Consistent
  BY <1>1 DEF FlowInv, Turns
<1>4. DOMAIN <<>> = {} /\ <<>> \in Seq({})
  OBVIOUS
<1>5. Turns' /\ FlowTypeOK' /\ IndexLeadsToOrders' /\ Flow!Tracked' = Flow!Tracked
  BY <1>1, <1>3 DEF Turns, FlowTypeOK, IndexLeadsToOrders, Flow!Tracked
<1>6. IsSequence(out') /\ Unread' = {} /\ Unread = {}
  BY <1>1, <1>3, <1>4, NothingUnread DEF Consistent, IsSequence, Unread
<1>7. Consistent'
  <2>1. ListIsSpent' /\ ListedIsLive'
    BY <1>1, <1>3, <1>5, <1>6, SameBook DEF Consistent, ListIsSpent, ListedIsLive
  <2>2. LiveIsListed' /\ EndsAreFinal' /\ RestIsNew'
    BY <1>1, <1>3, <1>5, <1>6, SameBook
    DEF Consistent, LiveIsListed, EndsAreFinal, RestIsNew
  <2> QED BY <1>6, <2>1, <2>2 DEF Consistent
<1>8. TakerIsSender' /\ NewOrderRuns' /\ LabelsFit' /\ OnlyLiveOrdersAddressed'
  BY <1>1, <1>4 DEF TakerIsSender, NewOrderRuns, LabelsFit, OnlyLiveOrdersAddressed
<1> QED BY <1>2, <1>5, <1>7, <1>8 DEF FlowInv

\* Whatever observe() does, the engine stays as it is.
LEMMA ObserveKeeps ==
  ASSUME Inv, FlowInv, Observe
  PROVE  Inv' /\ FlowInv'
<1>1. pc = "done" /\ env # None /\ UNCHANGED vars
  BY DEF Observe
<1>2. Inv'
  BY <1>1, NextInv
<1>3. CASE Flow!BeginObserve /\ UNCHANGED env
  BY <1>1, <1>2, <1>3, BeginKeeps
<1>4. CASE Flow!ObserveEvent /\ UNCHANGED env
  BY <1>1, <1>2, <1>4, EventKeeps
<1>5. CASE Flow!EndObserve /\ env' = None
  BY <1>1, <1>2, <1>5, EndKeeps
<1> QED BY <1>3, <1>4, <1>5 DEF Observe

\* Every step of the two keeps the invariants of both.
LEMMA RecordNextKeeps == Inv /\ FlowInv /\ [RecordNext]_recordVars => Inv' /\ FlowInv'
<1> SUFFICES ASSUME Inv, FlowInv, [RecordNext]_recordVars
             PROVE  Inv' /\ FlowInv'
  OBVIOUS
<1>1. CASE Generate
  BY <1>1, GenerateKeeps
<1>2. CASE Process
  <2>1. UNCHANGED <<env, flowVars>>
    BY <1>2 DEF Process
  <2> QED BY <1>2, <2>1, SubmitKeeps, FillKeeps, SelfTradeKeeps, FinishKeeps
          DEF Process, Running
<1>3. CASE Observe
  BY <1>3, ObserveKeeps
<1>4. CASE Clear
  BY <1>4, ClearKeeps
<1>5. CASE UNCHANGED recordVars
  <2>1. /\ UNCHANGED <<book, pc, taker, out, env, live, index, side, seen>>
        /\ UNCHANGED vars
    BY <1>5 DEF recordVars, flowVars, vars
  <2>2. Inv'
    BY <2>1, NextInv
  <2>3. Flow!Tracked' = Flow!Tracked /\ Unread' = Unread /\ SideRead' = SideRead
    BY <2>1 DEF Flow!Tracked, Unread, Read, SideRead, Flow!SideOf
  <2>4. Consistent'
    <3>1. ListIsSpent' /\ ListedIsLive'
      BY <2>1, <2>3, SameBook
      DEF FlowInv, Consistent, ListIsSpent, ListedIsLive, Flow!Ends
    <3>2. LiveIsListed' /\ EndsAreFinal' /\ RestIsNew'
      BY <2>1, <2>3, SameBook
      DEF FlowInv, Consistent, LiveIsListed, EndsAreFinal, RestIsNew, Flow!Ends
    <3> QED BY <2>1, <3>1, <3>2 DEF FlowInv, Consistent
  <2>5. FlowTypeOK' /\ IndexLeadsToOrders' /\ Turns'
    BY <2>1 DEF FlowInv, FlowTypeOK, IndexLeadsToOrders, Turns
  <2>6. TakerIsSender' /\ NewOrderRuns' /\ OnlyLiveOrdersAddressed'
    BY <2>1 DEF FlowInv, TakerIsSender, NewOrderRuns, NothingDone,
                OnlyLiveOrdersAddressed, SubmitRefusal, Marketable, Best, Limit,
                Flow!SideOf
  <2>7. LabelsFit'
    BY <2>1 DEF FlowInv, LabelsFit, Only, Flow!Classify
  <2> QED BY <2>2, <2>4, <2>5, <2>6, <2>7 DEF FlowInv
<1> QED BY <1>1, <1>2, <1>3, <1>4, <1>5 DEF RecordNext

----------------------------------------------------------------------------
(***************************************************************************)
(* Theorems                                                                *)
(***************************************************************************)
\* The engine's invariant and the generator's hold throughout the flow.
THEOREM FlowInvHolds == RecordSpec => [](Inv /\ FlowInv)
<1> QED BY RecordInitKeeps, RecordNextKeeps, PTL DEF RecordSpec

\* The list is a list of orders, and the locals of observe() have their types.
THEOREM FlowTypesHold == RecordSpec => []FlowTypeOK
<1>1. FlowInv => FlowTypeOK
  BY DEF FlowInv
<1> QED BY <1>1, FlowInvHolds, PTL

\* At every event inside observe(), the index leads to each tracked order and
\* holds no other: swap_remove and the entry of the order it moves agree.
THEOREM IndexIsRight == RecordSpec => []IndexLeadsToOrders
<1>1. FlowInv => IndexLeadsToOrders
  BY DEF FlowInv
<1> QED BY <1>1, FlowInvHolds, PTL

\* Between commands the list holds just the engine's live orders.
THEOREM ListIsTheBook == RecordSpec => []TracksTheBook
<1>1. FlowInv => TracksTheBook
  <2> SUFFICES ASSUME FlowInv, pc = "ready"
               PROVE  /\ \A i \in DOMAIN live : \E s \in LiveSlots : Stands(live[i], s)
                      /\ \A s \in LiveSlots : \E i \in DOMAIN live : Stands(live[i], s)
    BY DEF TracksTheBook
  <2>1. Consistent /\ env = None /\ Unread = {}
    BY NothingUnread DEF FlowInv, Turns, Consistent
  <2>2. \A t : \A s \in Slots :
          StandsIn(book, t, s) <=> s \in LiveSlots /\ Stands(t, s)
    BY DEF StandsIn, Stands, LiveSlots, IsLive, Live
  <2>3. \A s \in LiveSlots : s \in Slots /\ Live(book, s)
    BY DEF LiveSlots, IsLive, Live
  <2>4. \A i \in DOMAIN live : \E s \in LiveSlots : Stands(live[i], s)
    <3> SUFFICES ASSUME NEW i \in DOMAIN live
                 PROVE  \E s \in LiveSlots : Stands(live[i], s)
      OBVIOUS
    <3>1. live[i] \in Flow!Tracked
      BY DEF Flow!Tracked
    <3>2. PICK s \in Slots : StandsIn(book, live[i], s)
      BY <2>1, <3>1 DEF Consistent, ListedIsLive
    <3> QED BY <2>2, <3>2
  <2>5. \A s \in LiveSlots : \E i \in DOMAIN live : Stands(live[i], s)
    <3> SUFFICES ASSUME NEW s \in LiveSlots
                 PROVE  \E i \in DOMAIN live : Stands(live[i], s)
      OBVIOUS
    <3>1. PICK t \in Flow!Tracked : StandsIn(book, t, s)
      BY <2>1, <2>3 DEF Consistent, LiveIsListed
    <3>2. PICK i \in DOMAIN live : t = live[i]
      BY DEF Flow!Tracked
    <3> QED BY <2>2, <2>3, <3>1, <3>2
  <2> QED BY <2>4, <2>5
<1> QED BY <1>1, FlowInvHolds, PTL

\* observe() never meets an order that rests and whose side it does not know:
\* its expect() is not reached.
THEOREM ObserveNeverPanics == RecordSpec => []NeverPanics
<1>1. FlowInv => NeverPanics
  <2> SUFFICES ASSUME FlowInv, seen \in 0 .. Len(out) - 1,
                      out[seen + 1].event = "Rested"
               PROVE  side # None
    BY DEF NeverPanics, Flow!Panics
  <2>1. /\ Turns /\ Consistent
        /\ Len(out) \in Nat /\ DOMAIN out = 1 .. Len(out)
    BY DEF FlowInv, Consistent, IsSequence
  <2>2. seen \in Nat /\ seen # None /\ seen + 1 \in DOMAIN out /\ seen + 1 > seen
    BY <2>1, NoneIsNoValue
  <2>3. env # None
    BY <2>1, <2>2 DEF Turns
  <2>4. seen + 1 \in Unread /\ SideRead = side
    BY <2>2, <2>3 DEF Unread, Read, SideRead
  <2>5. TrackedAs(out[seen + 1], env.account, side) \in TrackedOrders
    BY <2>1, <2>4 DEF Consistent, RestIsNew
  <2>6. side \in Sides
    BY <2>5 DEF TrackedAs, TrackedOrders
  <2> QED BY <2>6, NoneIsNoValue
<1> QED BY <1>1, FlowInvHolds, PTL

\* No command of the flow is wasted on an order that is gone, or on a price or
\* quantity the engine does not accept.
THEOREM CommandsAreAccepted == RecordSpec => []OnlyLiveOrdersAddressed
<1>1. FlowInv => OnlyLiveOrdersAddressed
  BY DEF FlowInv
<1> QED BY <1>1, FlowInvHolds, PTL

\* The benchmark's labels say what happened to the command.
THEOREM LabelsAreRight == RecordSpec => []LabelsFit
<1>1. FlowInv => LabelsFit
  BY DEF FlowInv
<1> QED BY <1>1, FlowInvHolds, PTL
=============================================================================
