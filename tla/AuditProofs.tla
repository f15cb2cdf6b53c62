---------------------------- MODULE AuditProofs ----------------------------
(***************************************************************************)
(* The audit raises no false alarm, and the mirror it builds from the      *)
(* events is the engine's book: theorems about Audit beside Reference.     *)
(*                                                                         *)
(* The audit runs when the command is over.  It starts from the book of    *)
(* before the command, where the engine has the one of after it, and goes  *)
(* through the events one by one.  So the invariant has to remember, while *)
(* the command runs, how the events so far lead from the one to the other: *)
(* it says that there is a list of books, the first of which is the        *)
(* mirror and the last the engine's, each the one before after one turn of *)
(* the matching loop, with the events that this turn emitted (Told).  The  *)
(* engine makes the list longer, and the audit walks along it.             *)
(*                                                                         *)
(* And the audit notices the faults of FaultyStream.  As long as the       *)
(* events it has read are the engine's it walks along the same list; the   *)
(* first that is not is an error, but for the few that FaultsNoticed lists *)
(* (Faulted).                                                              *)
(***************************************************************************)
EXTENDS FaultyStream, EventProofs

\* The ids that the engine has given out.
Issued == {id \in Slots \X LiveGenerations : Status(id) # "unissued"}

IdsTracked == next_seq = audit_seq /\ Issued = ever

\* The mirror is the book.
Tracks == live = orders /\ IdsTracked

----------------------------------------------------------------------------
(***************************************************************************)
(* One turn of the loop.  who is a taker or a command: what has an         *)
(* account, a side and a kind; b is a book, a set of orders.               *)
(***************************************************************************)
Submitters == [account : Accounts, side : Sides, kind : Kinds]

IsBest(m, b) == m \in b /\ \A p \in b : p.side = m.side /\ p # m => Before(m, p)

Meets(who, order) ==
  /\ order.side = Opposite(who.side)
  /\ Crosses(who.side, LimitOf(who.side, who.kind), order.price)

\* m is the order that the taker meets next.
NextMaker(who, b, m) == IsBest(m, b) /\ Meets(who, m)

NoMaker(who, b) == \A p \in b : ~Meets(who, p)

\* Event i is the trade of q with m.
Trades(evs, who, i, b, left, m, q) ==
  /\ NextMaker(who, b, m) /\ m.account # who.account
  /\ who.kind.type # "PostOnly"
  /\ left > 0
  /\ q = IF left < m.remaining THEN left ELSE m.remaining
  /\ i \in DOMAIN evs
  /\ evs[i] = Trade(who.side, m.id, m.price, q, m.remaining - q)

\* The trade uses m up, which the event after it says.
UsesUp(evs, i, b, m, i2, b2) ==
  /\ i + 1 \in DOMAIN evs
  /\ evs[i + 1] = MakerFilled(m.id)
  /\ i2 = i + 2
  /\ b2 = b \ {m}

\* The trade leaves something of m.
UsesPart(i, b, m, q, i2, b2) ==
  /\ i2 = i + 1
  /\ b2 = (b \ {m}) \cup {Shadow!FilledInPart(m, q)}

\* A turn leads from event i, the book b and the quantity left to i2, b2, left2.
Turn(evs, who, i, b, left, i2, b2, left2) ==
  \E m \in Orders, q \in Nat :
    /\ Trades(evs, who, i, b, left, m, q)
    /\ left2 = left - q
    /\ \/ m.remaining = q /\ UsesUp(evs, i, b, m, i2, b2)
       \/ m.remaining > q /\ UsesPart(i, b, m, q, i2, b2)

\* n turns and what was so before and after each of them.
Told(at, books, lefts, n, evs, who) ==
  /\ at \in [Nat -> Nat \ {0}]
  /\ books \in [Nat -> SUBSET Orders]
  /\ lefts \in [Nat -> Nat]
  /\ n \in Nat
  /\ \A k \in 0 .. n - 1 :
       Turn(evs, who, at[k], books[k], lefts[k],
                      at[k + 1], books[k + 1], lefts[k + 1])

----------------------------------------------------------------------------
(***************************************************************************)
(* What the engine may answer to the command cmd when its book was b.      *)
(***************************************************************************)
OwnedIn(b, cmd) == {o \in b : o.id = cmd.id /\ o.account = cmd.account}

StaticRefusal(cmd) ==
  IF cmd.cmd = "New" THEN Shadow!ExpectedStaticReject(cmd.qty, cmd.kind)
  ELSE IF ~PriceOk(cmd.price) THEN "InvalidPrice"
  ELSE IF cmd.total > MaxOrderQty THEN "InvalidQty" ELSE None

\* Who submits what is left of the replaced order o.
Replacement(cmd, o) ==
  [account |-> o.account, side |-> o.side,
   kind |-> [type |-> IF cmd.post_only THEN "PostOnly" ELSE "Gtc",
             price |-> cmd.price]]

NewRefused(cmd, b, b2, e) ==
  /\ cmd.cmd = "New" /\ cmd.side \in Sides /\ cmd.kind \in Kinds
  /\ b2 = b
  /\ \E reason \in RejectReasons :
       /\ e = Rejected(reason)
       /\ \/ reason = StaticRefusal(cmd)
          \/ /\ StaticRefusal(cmd) = None /\ cmd.kind.type = "PostOnly"
             /\ reason = "PostOnlyWouldCross"
             /\ \E m : NextMaker(cmd, b, m)
          \/ /\ StaticRefusal(cmd) = None /\ cmd.kind.type \in {"PostOnly", "Gtc"}
             /\ reason = "BookFull"
             /\ NoMaker(cmd, b)

CancelAnswered(cmd, b, b2, e) ==
  /\ cmd.cmd = "Cancel"
  /\ \/ OwnedIn(b, cmd) = {} /\ b2 = b /\ e = Rejected("UnknownOrStaleId")
     \/ \E o \in Orders :
          /\ OwnedIn(b, cmd) = {o}
          /\ b2 = b \ {o}
          /\ e = Cancelled(cmd.id, o.remaining, "User")

ReduceAnswered(cmd, b, b2, e) ==
  /\ cmd.cmd = "Reduce" /\ cmd.total \in Nat
  /\ \/ OwnedIn(b, cmd) = {} /\ b2 = b /\ e = Rejected("UnknownOrStaleId")
     \/ \E o \in Orders :
          /\ OwnedIn(b, cmd) = {o}
          /\ \/ /\ cmd.total > o.filled + o.remaining
                /\ b2 = b
                /\ e = Rejected("InvalidChange")
             \/ /\ cmd.total <= o.filled
                /\ b2 = b \ {o}
                /\ e = Cancelled(cmd.id, o.remaining, "ReduceToZero")
             \/ /\ o.filled < cmd.total /\ cmd.total <= o.filled + o.remaining
                /\ b2 = (b \ {o})
                          \cup {[o EXCEPT !.remaining = cmd.total - o.filled]}
                /\ e = Reduced(cmd.id, o.filled, cmd.total - o.filled)

ReplaceRefusedFor(cmd, b, reason) ==
  \/ reason = StaticRefusal(cmd)
  \/ /\ StaticRefusal(cmd) = None /\ OwnedIn(b, cmd) = {}
     /\ reason = "UnknownOrStaleId"
  \/ /\ StaticRefusal(cmd) = None
     /\ \E o \in Orders :
          /\ OwnedIn(b, cmd) = {o} /\ cmd.total > o.filled
          /\ \/ /\ reason = "PostOnlyWouldCross" /\ cmd.post_only
                /\ \E m : NextMaker(Replacement(cmd, o), b, m)
             \/ /\ reason = "BookFull"
                /\ cmd.post_only => NoMaker(Replacement(cmd, o), b)

\* Without a submit().
ReplaceAnswered(cmd, b, b2, e) ==
  /\ cmd.cmd = "Replace" /\ cmd.total \in Nat /\ cmd.price \in InputPrices
  /\ \/ \E reason \in RejectReasons :
          /\ ReplaceRefusedFor(cmd, b, reason)
          /\ b2 = b
          /\ e = Rejected(reason)
     \/ \E o \in Orders :
          /\ StaticRefusal(cmd) = None
          /\ OwnedIn(b, cmd) = {o} /\ cmd.total <= o.filled
          /\ b2 = b \ {o}
          /\ e = Cancelled(cmd.id, o.remaining, "Replaced")

\* The one event of a command that does not match anything.
AnsweredAtOnce(cmd, b, b2, e) ==
  \/ NewRefused(cmd, b, b2, e)
  \/ CancelAnswered(cmd, b, b2, e)
  \/ ReduceAnswered(cmd, b, b2, e)
  \/ ReplaceAnswered(cmd, b, b2, e)

\* submit() is called: the loop begins with event i, the book b2 and quantity left.
Begins(cmd, b, evs, who, i, b2, left) ==
  /\ StaticRefusal(cmd) = None
  /\ \/ /\ cmd.cmd = "New"
        /\ who = [account |-> cmd.account, side |-> cmd.side, kind |-> cmd.kind]
        /\ i = 1 /\ b2 = b /\ left = cmd.qty
     \/ /\ cmd.cmd = "Replace" /\ cmd.total \in Nat
        /\ \E o \in Orders :
             /\ OwnedIn(b, cmd) = {o} /\ cmd.total > o.filled
             /\ who = Replacement(cmd, o)
             /\ i = 2 /\ b2 = b \ {o} /\ left = cmd.total - o.filled
             /\ 1 \in DOMAIN evs
             /\ evs[1] = Cancelled(cmd.id, o.remaining, "Replaced")

\* The events so far lead from the mirror b to the book b2 in n turns.
Follows(cmd, b, evs, who, n, b2, left) ==
  \E at, books, lefts :
    /\ Told(at, books, lefts, n, evs, who)
    /\ Begins(cmd, b, evs, who, at[0], books[0], lefts[0])
    /\ at[n] = Len(evs) + 1 /\ books[n] = b2 /\ lefts[n] = left

----------------------------------------------------------------------------
(***************************************************************************)
(* The inductive invariant, on top of Inv and EventInv of the engine.      *)
(***************************************************************************)
Submitter ==
  [account |-> taker.account, side |-> taker.side, kind |-> taker.kind]

\* What became of the remainder, which the event e says.
Ends(who, b, left, e) ==
  \/ e = Filled /\ left = 0 /\ orders = b /\ IdsTracked
  \/ /\ left > 0 /\ orders = b /\ IdsTracked
     /\ \/ /\ e = Cancelled(None, left, "Unfilled")
           /\ ~Rests(who.kind) /\ NoMaker(who, b)
        \/ /\ e = Cancelled(None, left, "SelfTrade")
           /\ who.kind.type # "PostOnly"
           /\ \E m : NextMaker(who, b, m) /\ m.account = who.account
        \/ /\ e = Cancelled(None, left, "CapacityExhausted")
           /\ who.kind.type = "Gtc" /\ NoMaker(who, b)
  \/ /\ left > 0 /\ Rests(who.kind) /\ NoMaker(who, b)
     /\ \E id \in Slots \X Nat :
          /\ e = Rested(id, left)
          /\ GenerationOf(id) % 2 = 1 /\ id \notin ever
          /\ orders = b \cup
               {[id |-> id, account |-> who.account, side |-> who.side,
                 price |-> LimitOf(who.side, who.kind), remaining |-> left,
                 filled |-> 0, seq |-> audit_seq]}
          /\ next_seq = audit_seq + 1
          /\ Issued = ever \cup {id}

\* The whole of a submit(), told by the events.
Complete(who, at, books, lefts, n) ==
  /\ who \in Submitters
  /\ Told(at, books, lefts, n, out, who)
  /\ at[n] = Len(out)
  /\ Ends(who, books[n], lefts[n], out[Len(out)])

FlowAnswered ==
  /\ ~Shadow!IsRejection
  /\ \E who, at, books, lefts, n :
       /\ Complete(who, at, books, lefts, n)
       /\ Begins(env, live, out, who, at[0], books[0], lefts[0])

\* The command is over and the audit has not begun.
Answered ==
  \/ IdsTracked /\ \E e : out = <<e>> /\ AnsweredAtOnce(env, live, orders, e)
  \/ FlowAnswered

\* check_flow() has followed the events for k turns.
OnTrack ==
  \E who, at, books, lefts, n, k :
    /\ Complete(who, at, books, lefts, n)
    /\ k \in 0 .. n
    /\ env.account = who.account
    /\ live = books[k]
    /\ flow = [side |-> who.side, kind |-> who.kind, remaining |-> lefts[k],
               i |-> at[k]]

\* submit() runs.
Submitting ==
  /\ IdsTracked
  /\ pc = "submit" =>
       Follows(env, live, out, Submitter, 0, orders, taker.remaining)
  /\ \E n \in Nat : Follows(env, live, out, Submitter, n, orders, taker.remaining)

\* A post-only order in the loop meets nothing and has a slot to rest in.
PostOnlyRests ==
  pc = "match" /\ taker.kind.type = "PostOnly" =>
    ~Marketable(taker.side, Limit) /\ free # <<>>

MirrorTypeOK ==
  /\ live \subseteq Orders
  /\ ever \subseteq Slots \X Nat
  /\ audit_seq \in Nat
  /\ apc \in {"idle", "flow", "book", "ok"}
  /\ apc # "flow" => flow = None
  /\ apc # "idle" => pc = "done"

AuditInv ==
  /\ MirrorTypeOK
  /\ PostOnlyRests
  /\ pc = "ready" \/ apc \in {"book", "ok"} => Tracks
  /\ InSubmit => Submitting
  /\ pc = "done" /\ apc = "idle" => Answered
  /\ apc = "flow" => OnTrack

----------------------------------------------------------------------------
(***************************************************************************)
(* Which ids have been given out                                           *)
(***************************************************************************)
\* Only an insertion gives out an id.
LEMMA RemovalIssuesNone ==
  ASSUME BookInv, NEW o \in orders, RemoveOrder(o)
  PROVE  Issued' = Issued /\ next_seq' = next_seq
<1>1. Lifecycle!Finish(o.id)
  BY RemoveFinishes
<1>2. /\ Statuses[o.id] = "live"
      /\ Statuses' = [Statuses EXCEPT ![o.id] = "done"]
  BY <1>1 DEF Lifecycle!Finish
<1>3. ASSUME NEW id \in Slots \X LiveGenerations
      PROVE  Status(id)' # "unissued" <=> Status(id) # "unissued"
  <2>1. Statuses[id] = Status(id) /\ Statuses'[id] = Status(id)'
    BY <1>3 DEF Statuses
  <2>2. id \in DOMAIN Statuses
    BY <1>3 DEF Statuses
  <2>3. Statuses'[id] = IF id = o.id THEN "done" ELSE Statuses[id]
    BY <1>2, <2>2
  <2> QED BY <1>2, <2>1, <2>3
<1>4. Issued' = {id \in Slots \X LiveGenerations : Status(id)' # "unissued"}
  BY DEF Issued
<1> QED BY <1>3, <1>4 DEF Issued, RemoveOrder

\* Nor does a step that leaves ids and slots as they are.
LEMMA SameIdsSameIssued ==
  ASSUME Ids(orders)' = Ids(orders), UNCHANGED <<generations, free>>
  PROVE  Issued' = Issued
<1>1. LiveSlots' = LiveSlots
  <2>1. LiveSlots = {SlotOf(id) : id \in Ids(orders)}
    BY DEF LiveSlots, Ids
  <2>2. LiveSlots' = {SlotOf(id) : id \in Ids(orders)'}
    BY DEF LiveSlots, Ids
  <2> QED BY <2>1, <2>2
<1> QED BY <1>1 DEF Issued, Status, LastUsed, IsFree

\* Nor does a change of an order.
LEMMA UpdateIssuesNone ==
  ASSUME NEW o \in orders, NEW p, p.id = o.id, Update(o, p)
  PROVE  Issued' = Issued /\ next_seq' = next_seq
<1>1. Ids(orders)' = Ids(orders)
  BY DEF Update, Ids
<1> QED BY <1>1, SameIdsSameIssued DEF Update

\* The ids given out are a matter of the book.
LEMMA SameBookSameIssued ==
  ASSUME UNCHANGED book
  PROVE  Issued' = Issued /\ next_seq' = next_seq /\ orders' = orders
<1>1. Ids(orders)' = Ids(orders)
  BY DEF book, Ids
<1> QED BY <1>1, SameIdsSameIssued DEF book

\* The id of an order that comes to rest is live and has never been given out.
LEMMA InsertionIssuesOne ==
  ASSUME BookInv, free # <<>>, NEW s \in Slots, s = Last(free),
         NEW t \in Orders, Insert(t, s), t.id = OrderId(s, generations[s] + 1)
  PROVE  /\ t.id \in Slots \X LiveGenerations /\ t.id \notin Issued
         /\ Issued' = Issued \cup {t.id}
         /\ GenerationOf(t.id) % 2 = 1
<1>1. Lifecycle!Issue(t.id) /\ Lifecycle!OrderIds = Slots \X LiveGenerations
  BY InsertIssues, LifecycleIds
<1>2. /\ Statuses[t.id] = "unissued"
      /\ Statuses' = [Statuses EXCEPT ![t.id] = "live"]
  BY <1>1 DEF Lifecycle!Issue
<1>3. t.id \in Slots \X LiveGenerations
  <2>1. PICK i \in DOMAIN free : free[i] = s
    <3>1. free \in Seq(Slots)
      BY DEF BookInv, BookTypeOK
    <3>2. Len(free) \in Nat /\ Len(free) >= 1 /\ Last(free) = free[Len(free)]
      BY <3>1, FrontLast
    <3> QED BY <3>1, <3>2
  <2>2. /\ generations[s] \in Nat /\ generations[s] % 2 = 0
        /\ generations[s] < GenerationLimit
    BY <2>1 DEF BookInv, BookTypeOK, FreeSlotsUsable, SlotAccounting, FreeSlotsAreFree
  <2>3. (generations[s] + 1) % 2 = 1
    BY <2>2, Parity
  <2> QED BY <2>2, <2>3, ConfigValid DEF LiveGenerations, OrderId
<1>4. ASSUME NEW id \in Slots \X LiveGenerations
      PROVE  Status(id)' # "unissued" <=> id = t.id \/ Status(id) # "unissued"
  <2>1. Statuses[id] = Status(id) /\ Statuses'[id] = Status(id)'
    BY <1>4 DEF Statuses
  <2>2. id \in DOMAIN Statuses
    BY <1>4 DEF Statuses
  <2>3. Statuses'[id] = IF id = t.id THEN "live" ELSE Statuses[id]
    BY <1>2, <2>2
  <2> QED BY <1>2, <2>1, <2>3
<1>5. Status(t.id) = "unissued"
  BY <1>2, <1>3 DEF Statuses
<1>6. Issued' = {id \in Slots \X LiveGenerations : Status(id)' # "unissued"}
  BY DEF Issued
<1>7. GenerationOf(t.id) % 2 = 1
  BY <1>3 DEF LiveGenerations, GenerationOf
<1> QED BY <1>3, <1>4, <1>5, <1>6, <1>7 DEF Issued

----------------------------------------------------------------------------
(***************************************************************************)
(* What the engine's book offers                                           *)
(***************************************************************************)
\* A marketable order has a maker, and one that is not has none.
LEMMA MarketHasMaker ==
  ASSUME BookInv, NEW who, who.side \in Sides, LimitOf(who.side, who.kind) \in Nat
  PROVE  /\ Marketable(who.side, LimitOf(who.side, who.kind)) =>
              NextMaker(who, orders, Best(Opposite(who.side)))
         /\ ~Marketable(who.side, LimitOf(who.side, who.kind)) => NoMaker(who, orders)
<1> DEFINE other == Opposite(who.side)
           m == Best(other)
<1>1. other \in Sides
  BY DEF Opposite, Sides
<1>2. ASSUME Marketable(who.side, LimitOf(who.side, who.kind))
      PROVE  NextMaker(who, orders, m)
  <2>1. OrdersOn(other) # {} /\ Crosses(who.side, LimitOf(who.side, who.kind), m.price)
    BY <1>2 DEF Marketable
  <2>2. m \in OrdersOn(other) /\ \A p \in OrdersOn(other) \ {m} : Before(m, p)
    BY <1>1, <2>1, BestIsBest
  <2> HIDE DEF m
  <2> QED BY <2>1, <2>2 DEF NextMaker, IsBest, Meets, OrdersOn
<1>3. ASSUME ~Marketable(who.side, LimitOf(who.side, who.kind))
      PROVE  NoMaker(who, orders)
  BY <1>3, NotMarketable DEF NoMaker, Meets
<1> QED BY <1>2, <1>3

\* The order found for an id and its owner is the only one.
LEMMA OwnedIsOne ==
  ASSUME BookInv, NEW cmd, NEW o \in Owned(cmd.account, cmd.id)
  PROVE  OwnedIn(orders, cmd) = {o} /\ o \in orders /\ o \in Orders
<1>1. o \in orders /\ o.id = cmd.id /\ o.account = cmd.account
  BY DEF Owned
<1>2. \A p \in orders : p.id = o.id => p = o
  BY <1>1, IdsOfOrders
<1> QED BY <1>1, <1>2, OrderFacts DEF OwnedIn

----------------------------------------------------------------------------
(***************************************************************************)
(* How the story of a submit() grows                                       *)
(***************************************************************************)
\* The events t begin with the events s.
Begun(s, t) ==
  /\ IsSequence(s) /\ IsSequence(t) /\ Len(s) \in Nat /\ Len(t) \in Nat
  /\ DOMAIN s = 1 .. Len(s)
  /\ \A i \in DOMAIN s : i \in DOMAIN t /\ t[i] = s[i]

\* Later events do not change what earlier ones said.
LEMMA TurnKept ==
  ASSUME NEW s, NEW t, Begun(s, t), NEW who, NEW i, NEW b, NEW left,
         NEW i2, NEW b2, NEW left2, Turn(s, who, i, b, left, i2, b2, left2)
  PROVE  Turn(t, who, i, b, left, i2, b2, left2)
<1>1. PICK m \in Orders, q \in Nat :
        /\ Trades(s, who, i, b, left, m, q)
        /\ left2 = left - q
        /\ \/ m.remaining = q /\ UsesUp(s, i, b, m, i2, b2)
           \/ m.remaining > q /\ UsesPart(i, b, m, q, i2, b2)
  BY DEF Turn
<1>2. Trades(t, who, i, b, left, m, q)
  BY <1>1 DEF Trades, Begun
<1>3. UsesUp(s, i, b, m, i2, b2) => UsesUp(t, i, b, m, i2, b2)
  BY DEF UsesUp, Begun
<1> QED BY <1>1, <1>2, <1>3 DEF Turn

\* Nor how a story began.
LEMMA BeginningKept ==
  ASSUME NEW s, NEW t, Begun(s, t), NEW cmd, NEW b, NEW who, NEW i, NEW b2,
         NEW left, Begins(cmd, b, s, who, i, b2, left)
  PROVE  Begins(cmd, b, t, who, i, b2, left)
  BY DEF Begins, Begun

\* The call of submit() is a story without turns.
LEMMA StoryBegins ==
  ASSUME NEW cmd, NEW b, NEW evs, NEW who, NEW b2 \in SUBSET Orders,
         NEW left \in Nat, Len(evs) \in Nat,
         Begins(cmd, b, evs, who, Len(evs) + 1, b2, left)
  PROVE  Follows(cmd, b, evs, who, 0, b2, left)
<1> DEFINE at == [k \in Nat |-> Len(evs) + 1]
           books == [k \in Nat |-> b2]
           lefts == [k \in Nat |-> left]
<1>1. Told(at, books, lefts, 0, evs, who)
  BY DEF Told
<1>2. at[0] = Len(evs) + 1 /\ books[0] = b2 /\ lefts[0] = left
  OBVIOUS
<1> HIDE DEF at, books, lefts
<1> QED BY <1>1, <1>2 DEF Follows

\* One more turn makes it longer.
LEMMA StoryGrows ==
  ASSUME NEW cmd, NEW b, NEW s, NEW t, Begun(s, t), NEW who, NEW n \in Nat,
         NEW b1, NEW left1, Follows(cmd, b, s, who, n, b1, left1),
         NEW b2 \in SUBSET Orders, NEW left2 \in Nat,
         Turn(t, who, Len(s) + 1, b1, left1, Len(t) + 1, b2, left2)
  PROVE  Follows(cmd, b, t, who, n + 1, b2, left2)
<1>1. PICK at, books, lefts :
        /\ Told(at, books, lefts, n, s, who)
        /\ Begins(cmd, b, s, who, at[0], books[0], lefts[0])
        /\ at[n] = Len(s) + 1 /\ books[n] = b1 /\ lefts[n] = left1
  BY DEF Follows
<1> DEFINE at2    == [at EXCEPT ![n + 1] = Len(t) + 1]
           books2 == [books EXCEPT ![n + 1] = b2]
           lefts2 == [lefts EXCEPT ![n + 1] = left2]
<1>2. Len(t) + 1 \in Nat \ {0}
  BY DEF Begun
<1>3. /\ at2 \in [Nat -> Nat \ {0}] /\ books2 \in [Nat -> SUBSET Orders]
      /\ lefts2 \in [Nat -> Nat]
  BY <1>1, <1>2 DEF Told
<1>4. /\ at2[n + 1] = Len(t) + 1 /\ books2[n + 1] = b2 /\ lefts2[n + 1] = left2
      /\ \A k \in 0 .. n : at2[k] = at[k] /\ books2[k] = books[k] /\ lefts2[k] = lefts[k]
  BY <1>1 DEF Told
<1> HIDE DEF at2, books2, lefts2
<1>5. ASSUME NEW k \in 0 .. n
      PROVE  Turn(t, who, at2[k], books2[k], lefts2[k],
                          at2[k + 1], books2[k + 1], lefts2[k + 1])
  <2>1. CASE k = n
    BY <1>1, <1>4, <2>1
  <2>2. CASE k # n
    <3>1. k \in 0 .. n - 1 /\ k + 1 \in 0 .. n
      BY <2>2
    <3>2. Turn(s, who, at[k], books[k], lefts[k], at[k + 1], books[k + 1], lefts[k + 1])
      BY <1>1, <3>1 DEF Told
    <3>3. Turn(t, who, at[k], books[k], lefts[k], at[k + 1], books[k + 1], lefts[k + 1])
      BY <3>2, TurnKept
    <3> QED BY <1>4, <3>1, <3>3
  <2> QED BY <2>1, <2>2
<1>6. Told(at2, books2, lefts2, n + 1, t, who)
  <2>1. n + 1 \in Nat /\ 0 .. (n + 1) - 1 = 0 .. n
    OBVIOUS
  <2> DEFINE last == n + 1
  <2> HIDE DEF last
  <2>2. last \in Nat /\ \A k \in 0 .. last - 1 :
          Turn(t, who, at2[k], books2[k], lefts2[k],
                       at2[k + 1], books2[k + 1], lefts2[k + 1])
    BY <1>5, <2>1 DEF last
  <2>3. Told(at2, books2, lefts2, last, t, who)
    BY ONLY <1>3, <2>2 DEF Told
  <2> QED BY <2>3 DEF last
<1>7. Begins(cmd, b, t, who, at2[0], books2[0], lefts2[0])
  <2>1. Begins(cmd, b, t, who, at[0], books[0], lefts[0])
    BY <1>1, BeginningKept
  <2> QED BY <1>4, <2>1
<1> QED BY <1>4, <1>6, <1>7 DEF Follows

\* The last event completes it.
LEMMA StoryEnds ==
  ASSUME NEW who \in Submitters, NEW n \in Nat, NEW b, NEW left,
         Follows(env, live, out, who, n, b, left), IsSequence(out),
         \A i \in DOMAIN out : out[i].event # "Rejected",
         UNCHANGED <<env, live>>, NEW e, out' = out \o <<e>>,
         e.event # "Rejected", Ends(who, b, left, e)'
  PROVE  FlowAnswered'
<1>1. PICK at, books, lefts :
        /\ Told(at, books, lefts, n, out, who)
        /\ Begins(env, live, out, who, at[0], books[0], lefts[0])
        /\ at[n] = Len(out) + 1 /\ books[n] = b /\ lefts[n] = left
  BY DEF Follows
<1>2. /\ IsSequence(out') /\ Len(out') = Len(out) + 1 /\ Len(out) \in Nat
      /\ DOMAIN out = 1 .. Len(out)
      /\ \A i \in DOMAIN out : i \in DOMAIN out' /\ out'[i] = out[i]
      /\ Len(out) + 1 \in DOMAIN out' /\ out'[Len(out) + 1] = e
      /\ \A i \in DOMAIN out' : i \in DOMAIN out \/ i = Len(out) + 1
  BY OneMoreEvent
<1>3. Begun(out, out')
  BY <1>2 DEF Begun
<1>4. Told(at, books, lefts, n, out', who)
  <2>1. ASSUME NEW k \in 0 .. n - 1
        PROVE  Turn(out', who, at[k], books[k], lefts[k],
                               at[k + 1], books[k + 1], lefts[k + 1])
    <3>1. Turn(out, who, at[k], books[k], lefts[k],
                         at[k + 1], books[k + 1], lefts[k + 1])
      BY <1>1 DEF Told
    <3> QED BY <1>3, <3>1, TurnKept
  <2> QED BY <1>1, <2>1 DEF Told
<1>5. Begins(env', live', out', who, at[0], books[0], lefts[0])
  BY <1>1, <1>3, BeginningKept
<1>6. at[n] = Len(out') /\ out'[Len(out')] = e
  BY <1>1, <1>2
<1>7. ~Shadow!IsRejection'
  <2>1. Len(out') = 1 => 1 \in DOMAIN out'
    BY <1>2
  <2>2. \A i \in DOMAIN out' : out'[i].event # "Rejected"
    BY <1>2
  <2> QED BY <2>1, <2>2 DEF Shadow!IsRejection
<1>8. Ends(who, books[n], lefts[n], out[Len(out)])'
  BY <1>1, <1>6
<1>9. Complete(who, at, books, lefts, n)'
  BY <1>4, <1>6, <1>8 DEF Complete
<1> QED BY <1>5, <1>7, <1>9 DEF FlowAnswered

----------------------------------------------------------------------------
(***************************************************************************)
(* The commands                                                            *)
(***************************************************************************)
\* process() returns: the audit has to know what it has answered.
LEMMA ReturnKeepsAuditInv ==
  ASSUME AuditInv, pc # "done", pc' = "done", UNCHANGED auditVars, Answered'
  PROVE  AuditInv'
  BY DEF AuditInv, MirrorTypeOK, auditVars, PostOnlyRests, InSubmit

\* submit() is called, and the story begins.
LEMMA CallKeepsAuditInv ==
  ASSUME AuditInv, pc # "done", pc' = "submit", UNCHANGED auditVars, IdsTracked',
         Follows(env, live, out, Submitter, 0, orders, taker.remaining)'
  PROVE  AuditInv'
<1>1. Submitting'
  BY DEF Submitting
<1> QED BY <1>1 DEF AuditInv, MirrorTypeOK, auditVars, PostOnlyRests, InSubmit

\* A command with one event.
LEMMA OneAnswer ==
  ASSUME out = <<>>, NEW e, Return(<<e>>), IdsTracked',
         AnsweredAtOnce(env', live', orders', e)
  PROVE  pc' = "done" /\ Answered'
<1>1. out' = <<e>>
  BY Singleton DEF Return
<1> QED BY <1>1 DEF Return, Answered

\* A command that is refused.
LEMMA OneRefusal ==
  ASSUME AuditInv, pc = "ready", out = <<>>, UNCHANGED auditVars,
         NEW reason, Reject(reason),
         AnsweredAtOnce(env', orders, orders, Rejected(reason))
  PROVE  AuditInv'
<1>1. live = orders /\ IdsTracked
  BY DEF AuditInv, Tracks
<1>2. UNCHANGED book /\ Return(<<Rejected(reason)>>)
  BY DEF Reject
<1>3. Issued' = Issued /\ next_seq' = next_seq /\ orders' = orders
  BY <1>2, SameBookSameIssued
<1>4. IdsTracked' /\ live' = live
  BY <1>1, <1>3 DEF IdsTracked, auditVars
<1>5. PICK e : e = Rejected(reason)
  OBVIOUS
<1>6. pc' = "done" /\ Answered'
  BY <1>1, <1>2, <1>3, <1>4, <1>5, OneAnswer
<1> QED BY <1>6, ReturnKeepsAuditInv

\* A command that takes an order off the book.
LEMMA OneRemoval ==
  ASSUME Inv, AuditInv, pc = "ready", out = <<>>, UNCHANGED auditVars,
         NEW o \in orders, RemoveOrder(o), NEW e, Return(<<e>>),
         AnsweredAtOnce(env', orders, orders \ {o}, e)
  PROVE  AuditInv'
<1>1. live = orders /\ IdsTracked
  BY DEF AuditInv, Tracks
<1>2. Issued' = Issued /\ next_seq' = next_seq
  BY RemovalIssuesNone DEF Inv
<1>3. IdsTracked' /\ live' = live
  BY <1>1, <1>2 DEF IdsTracked, auditVars
<1>4. orders' = orders \ {o}
  BY DEF RemoveOrder
<1>5. pc' = "done" /\ Answered'
  BY <1>1, <1>3, <1>4, OneAnswer
<1> QED BY <1>5, ReturnKeepsAuditInv

\* A new order is refused or begins its story.
LEMMA NewOrderKeepsAuditInv ==
  ASSUME Inv, EventInv, AuditInv, UNCHANGED auditVars,
         NEW account \in Accounts, NEW side \in Sides, NEW qty \in InputQtys,
         NEW kind \in Kinds, NewOrder(account, side, qty, kind),
         env' = NewCommand(account, side, qty, kind)
  PROVE  AuditInv'
<1>1. pc = "ready" /\ out = <<>> /\ live = orders /\ IdsTracked /\ live' = live
  BY DEF NewOrder, EventInv, RejectInv, AuditInv, Tracks, auditVars
<1>2. /\ env'.cmd = "New" /\ env'.account = account /\ env'.side = side
      /\ env'.qty = qty /\ env'.kind = kind
  BY DEF NewCommand
<1>3. ASSUME NEW reason \in RejectReasons, Reject(reason),
             reason = StaticRefusal(env')
      PROVE  AuditInv'
  <2>1. AnsweredAtOnce(env', orders, orders, Rejected(reason))
    BY <1>2, <1>3 DEF AnsweredAtOnce, NewRefused
  <2> QED BY <1>1, <1>3, <2>1, OneRefusal
<1>4. CASE Reject("InvalidPrice") /\ kind.price # None /\ ~PriceOk(kind.price)
  BY <1>2, <1>3, <1>4 DEF StaticRefusal, Shadow!ExpectedStaticReject, RejectReasons,
     Shadow!PriceOk, PriceOk
<1>5. CASE /\ Reject("InvalidQty") /\ ~QtyOk(qty)
           /\ ~(kind.price # None /\ ~PriceOk(kind.price))
  BY <1>2, <1>3, <1>5 DEF StaticRefusal, Shadow!ExpectedStaticReject, RejectReasons,
     Shadow!PriceOk, PriceOk, Shadow!QtyOk, QtyOk
<1>6. CASE /\ ~(kind.price # None /\ ~PriceOk(kind.price)) /\ QtyOk(qty)
           /\ CallSubmit(account, side, qty, kind)
           /\ UNCHANGED <<book, out>>
  <2>1. Issued' = Issued /\ next_seq' = next_seq /\ orders' = orders
    BY <1>6, SameBookSameIssued
  <2>2. IdsTracked'
    BY <1>1, <2>1 DEF IdsTracked, auditVars
  <2>3. StaticRefusal(env') = None
    BY <1>2, <1>6 DEF StaticRefusal, Shadow!ExpectedStaticReject,
       Shadow!PriceOk, PriceOk, Shadow!QtyOk, QtyOk
  <2>4. /\ Submitter' = [account |-> account, side |-> side, kind |-> kind]
        /\ taker'.remaining = qty /\ pc' = "submit"
    BY <1>6 DEF CallSubmit, Submitter
  <2>5. Len(out') = 0
    BY <1>1, <1>6
  <2>6. Begins(env', live', out', Submitter', Len(out') + 1, orders', taker'.remaining)
    BY <1>1, <1>2, <2>1, <2>3, <2>4, <2>5 DEF Begins
  <2>7. orders' \in SUBSET Orders /\ qty \in Nat
    BY <2>1, InputsValid DEF Inv, BookInv, BookTypeOK
  <2>8. Follows(env', live', out', Submitter', 0, orders', taker'.remaining)
    BY <2>4, <2>5, <2>6, <2>7, StoryBegins
  <2> QED BY <1>1, <2>2, <2>4, <2>8, CallKeepsAuditInv
<1> QED BY <1>4, <1>5, <1>6 DEF NewOrder

\* A command that names an order: no owner of an order with this id is it.
LEMMA NobodyOwns ==
  ASSUME NEW cmd, Owned(cmd.account, cmd.id) = {}
  PROVE  OwnedIn(orders, cmd) = {}
  BY DEF Owned, OwnedIn

\* A cancellation is answered at once.
LEMMA CancelKeepsAuditInv ==
  ASSUME Inv, EventInv, AuditInv, UNCHANGED auditVars, NEW account, NEW id,
         Cancel(account, id), env' = CancelCommand(account, id)
  PROVE  AuditInv'
<1>1. pc = "ready" /\ out = <<>>
  BY DEF Cancel, EventInv, RejectInv
<1>2. env'.cmd = "Cancel" /\ env'.account = account /\ env'.id = id
  BY DEF CancelCommand
<1>3. CASE Owned(account, id) = {} /\ Reject("UnknownOrStaleId")
  <2>1. OwnedIn(orders, env') = {}
    BY <1>2, <1>3, NobodyOwns
  <2>2. AnsweredAtOnce(env', orders, orders, Rejected("UnknownOrStaleId"))
    BY <1>2, <2>1 DEF AnsweredAtOnce, CancelAnswered
  <2> QED BY <1>1, <1>3, <2>2, OneRefusal
<1>4. ASSUME NEW o \in Owned(account, id), RemoveOrder(o),
             Return(<<Cancelled(id, o.remaining, "User")>>)
      PROVE  AuditInv'
  <2>1. OwnedIn(orders, env') = {o} /\ o \in orders /\ o \in Orders
    BY <1>2, OwnedIsOne DEF Inv
  <2>2. PICK e : e = Cancelled(id, o.remaining, "User")
    OBVIOUS
  <2>3. AnsweredAtOnce(env', orders, orders \ {o}, e)
    BY <1>2, <2>1, <2>2 DEF AnsweredAtOnce, CancelAnswered
  <2> QED BY <1>1, <1>4, <2>1, <2>2, <2>3, OneRemoval
<1> QED BY <1>3, <1>4 DEF Cancel

\* So is a reduction.
LEMMA ReduceKeepsAuditInv ==
  ASSUME Inv, EventInv, AuditInv, UNCHANGED auditVars, NEW account, NEW id,
         NEW total \in Nat, Reduce(account, id, total),
         env' = ReduceCommand(account, id, total)
  PROVE  AuditInv'
<1>1. /\ pc = "ready" /\ out = <<>> /\ live = orders /\ IdsTracked
      /\ live' = live
  BY DEF Reduce, EventInv, RejectInv, AuditInv, Tracks, auditVars
<1>2. /\ env'.cmd = "Reduce" /\ env'.account = account /\ env'.id = id
      /\ env'.total = total
  BY DEF ReduceCommand
<1>3. CASE Owned(account, id) = {} /\ Reject("UnknownOrStaleId")
  <2>1. OwnedIn(orders, env') = {}
    BY <1>2, <1>3, NobodyOwns
  <2>2. AnsweredAtOnce(env', orders, orders, Rejected("UnknownOrStaleId"))
    BY <1>2, <2>1 DEF AnsweredAtOnce, ReduceAnswered
  <2> QED BY <1>1, <1>3, <2>2, OneRefusal
<1>4. ASSUME NEW o \in Owned(account, id), ReduceOwned(o, total)
      PROVE  AuditInv'
  <2>1. OwnedIn(orders, env') = {o} /\ o \in orders /\ o \in Orders /\ o.id = id
    BY <1>2, OwnedIsOne DEF Inv, Owned
  <2>2. CASE /\ total <= o.filled /\ RemoveOrder(o)
             /\ Return(<<Cancelled(o.id, o.remaining, "ReduceToZero")>>)
    <3>1. PICK e : e = Cancelled(id, o.remaining, "ReduceToZero")
      OBVIOUS
    <3>2. AnsweredAtOnce(env', orders, orders \ {o}, e)
      BY <1>2, <2>1, <2>2, <3>1 DEF AnsweredAtOnce, ReduceAnswered
    <3> QED BY <1>1, <2>1, <2>2, <3>1, <3>2, OneRemoval
  <2>3. CASE total > o.filled + o.remaining /\ Reject("InvalidChange")
    <3>1. AnsweredAtOnce(env', orders, orders, Rejected("InvalidChange"))
      BY <1>2, <2>1, <2>3 DEF AnsweredAtOnce, ReduceAnswered
    <3> QED BY <1>1, <2>3, <3>1, OneRefusal
  <2>4. CASE /\ o.filled < total /\ total <= o.filled + o.remaining
             /\ ReduceTo(o, total)
    <3>1. PICK p : p = [o EXCEPT !.remaining = total - o.filled]
      OBVIOUS
    <3>2. p.id = o.id
      BY <2>1, <3>1 DEF Orders
    <3>3. PICK e : e = Reduced(id, o.filled, total - o.filled)
      OBVIOUS
    <3>4. Update(o, p) /\ Return(<<e>>)
      BY <2>1, <2>4, <3>1, <3>3 DEF ReduceTo
    <3>5. Issued' = Issued /\ next_seq' = next_seq
      BY <2>1, <3>2, <3>4, UpdateIssuesNone
    <3>6. IdsTracked'
      BY <1>1, <3>5 DEF IdsTracked, auditVars
    <3>7. orders' = (orders \ {o}) \cup {p}
      BY <3>4 DEF Update
    <3>8. AnsweredAtOnce(env', live', orders', e)
      BY <1>1, <1>2, <2>1, <2>4, <3>1, <3>3, <3>7 DEF AnsweredAtOnce, ReduceAnswered
    <3>9. pc' = "done" /\ Answered'
      BY <1>1, <3>4, <3>6, <3>8, OneAnswer
    <3> QED BY <1>1, <3>9, ReturnKeepsAuditInv
  <2> QED BY <1>4, <2>2, <2>3, <2>4 DEF ReduceOwned
<1> QED BY <1>3, <1>4 DEF Reduce

\* The refusals of replace() that come before the old order is touched.
LEMMA ReplaceRefusalKeepsAuditInv ==
  ASSUME AuditInv, UNCHANGED auditVars, pc = "ready", out = <<>>,
         env'.cmd = "Replace", env'.total \in Nat, env'.price \in InputPrices,
         NEW reason \in RejectReasons, Reject(reason),
         ReplaceRefusedFor(env', orders, reason)
  PROVE  AuditInv'
<1>1. AnsweredAtOnce(env', orders, orders, Rejected(reason))
  BY DEF AnsweredAtOnce, ReplaceAnswered
<1> QED BY <1>1, OneRefusal

\* Once the old order is gone, the story begins with its cancellation.
LEMMA ReplacementKeepsAuditInv ==
  ASSUME Inv, AuditInv, UNCHANGED auditVars, pc = "ready", out = <<>>,
         env'.cmd = "Replace", StaticRefusal(env') = None,
         NEW o \in orders, OwnedIn(orders, env') = {o}, env'.total \in Nat,
         env'.total > o.filled, RemoveOrder(o),
         out' = <<Cancelled(env'.id, o.remaining, "Replaced")>>,
         CallSubmit(o.account, o.side, env'.total - o.filled,
                    Replacement(env', o).kind)
  PROVE  AuditInv'
<1>1. live = orders /\ IdsTracked /\ live' = live
  BY DEF AuditInv, Tracks, auditVars
<1>2. Issued' = Issued /\ next_seq' = next_seq /\ orders' = orders \ {o}
  BY RemovalIssuesNone DEF Inv, RemoveOrder
<1>3. IdsTracked'
  BY <1>1, <1>2 DEF IdsTracked, auditVars
<1>4. PICK e : e = Cancelled(env'.id, o.remaining, "Replaced")
  OBVIOUS
<1>5. out' = <<e>> /\ Len(out') = 1 /\ DOMAIN out' = {1} /\ out'[1] = e
  BY <1>4, Singleton
<1>6. /\ Submitter' = Replacement(env', o)
      /\ taker'.remaining = env'.total - o.filled /\ pc' = "submit"
  BY DEF CallSubmit, Submitter, Replacement
<1>7. o \in Orders /\ orders' \in SUBSET Orders
  BY <1>2, OrderFacts DEF Inv, BookInv, BookTypeOK
<1>8. taker'.remaining \in Nat
  BY <1>6, <1>7 DEF Orders
<1>9. Begins(env', live', out', Submitter', Len(out') + 1, orders', taker'.remaining)
  BY <1>1, <1>2, <1>4, <1>5, <1>6, <1>7 DEF Begins
<1>10. Follows(env', live', out', Submitter', 0, orders', taker'.remaining)
  BY <1>5, <1>7, <1>8, <1>9, StoryBegins
<1> QED BY <1>3, <1>6, <1>10, CallKeepsAuditInv

\* A replacement is answered at once, or begins the story of its new half.
LEMMA ReplaceKeepsAuditInv ==
  ASSUME Inv, EventInv, AuditInv, UNCHANGED auditVars, NEW account, NEW id,
         NEW price \in InputPrices, NEW total \in Nat, NEW post_only \in BOOLEAN,
         Replace(account, id, price, total, post_only),
         env' = ReplaceCommand(account, id, price, total, post_only)
  PROVE  AuditInv'
<1>1. pc = "ready" /\ out = <<>>
  BY DEF Replace, EventInv, RejectInv
<1>2. /\ env'.cmd = "Replace" /\ env'.account = account /\ env'.id = id
      /\ env'.price = price /\ env'.total = total /\ env'.post_only = post_only
  BY DEF ReplaceCommand
<1>3. /\ ~PriceOk(price) => StaticRefusal(env') = "InvalidPrice"
      /\ PriceOk(price) /\ total > MaxOrderQty => StaticRefusal(env') = "InvalidQty"
      /\ PriceOk(price) /\ total <= MaxOrderQty => StaticRefusal(env') = None
  BY <1>2, ConfigValid DEF StaticRefusal
<1>4. CASE ReplaceRefused(account, id, price, total)
  <2>1. CASE ~PriceOk(price) /\ Reject("InvalidPrice")
    <3>1. ReplaceRefusedFor(env', orders, "InvalidPrice")
      BY <1>3, <2>1 DEF ReplaceRefusedFor
    <3> QED BY <1>1, <1>2, <2>1, <3>1, ReplaceRefusalKeepsAuditInv DEF RejectReasons
  <2>2. CASE PriceOk(price) /\ total > MaxOrderQty /\ Reject("InvalidQty")
    <3>1. ReplaceRefusedFor(env', orders, "InvalidQty")
      BY <1>3, <2>2 DEF ReplaceRefusedFor
    <3> QED BY <1>1, <1>2, <2>2, <3>1, ReplaceRefusalKeepsAuditInv DEF RejectReasons
  <2>3. CASE /\ PriceOk(price) /\ total <= MaxOrderQty
             /\ Owned(account, id) = {} /\ Reject("UnknownOrStaleId")
    <3>1. OwnedIn(orders, env') = {}
      BY <1>2, <2>3, NobodyOwns
    <3>2. ReplaceRefusedFor(env', orders, "UnknownOrStaleId")
      BY <1>3, <2>3, <3>1 DEF ReplaceRefusedFor
    <3> QED BY <1>1, <1>2, <2>3, <3>2, ReplaceRefusalKeepsAuditInv DEF RejectReasons
  <2> QED BY <1>4, <2>1, <2>2, <2>3 DEF ReplaceRefused
<1>5. ASSUME PriceOk(price), total <= MaxOrderQty,
             NEW o \in Owned(account, id), ReplaceOwned(o, price, total, post_only)
      PROVE  AuditInv'
  <2>1. OwnedIn(orders, env') = {o} /\ o \in orders /\ o \in Orders /\ o.id = id
    BY <1>2, OwnedIsOne DEF Inv, Owned
  <2>2. StaticRefusal(env') = None
    BY <1>3, <1>5
  <2>3. PICK e : e = Cancelled(id, o.remaining, "Replaced")
    OBVIOUS
  <2>4. CASE total <= o.filled /\ RemoveOrder(o) /\ Return(<<e>>)
    <3>1. AnsweredAtOnce(env', orders, orders \ {o}, e)
      BY <1>2, <2>1, <2>2, <2>3, <2>4 DEF AnsweredAtOnce, ReplaceAnswered
    <3> QED BY <1>1, <2>1, <2>4, <3>1, OneRemoval
  <2>5. CASE /\ total > o.filled
             /\ ReplaceRefusal(o, price, post_only) # None
             /\ Reject(ReplaceRefusal(o, price, post_only))
    <3> DEFINE who == Replacement(env', o)
               reason == ReplaceRefusal(o, price, post_only)
    <3>1. /\ who.side = o.side /\ who.kind.price = price
      BY <1>2 DEF Replacement
    <3>2. LimitOf(who.side, who.kind) = price /\ who.side \in Sides
      BY <2>1, <3>1, InputsValid DEF LimitOf, Orders
    <3>3. /\ Marketable(o.side, price) =>
               NextMaker(who, orders, Best(Opposite(o.side)))
          /\ ~Marketable(o.side, price) => NoMaker(who, orders)
      <4>1. price \in Nat /\ BookInv
        BY InputsValid DEF Inv
      <4> HIDE DEF who
      <4> QED BY <3>1, <3>2, <4>1, MarketHasMaker
    <3>4. \/ /\ reason = "PostOnlyWouldCross" /\ post_only
             /\ \E m : NextMaker(who, orders, m)
          \/ /\ reason = "BookFull" /\ (post_only => NoMaker(who, orders))
      <4> HIDE DEF who
      <4> QED BY <2>5, <3>3 DEF ReplaceRefusal
    <3>5. ReplaceRefusedFor(env', orders, reason)
      <4> HIDE DEF reason
      <4> QED BY <1>2, <2>1, <2>2, <2>5, <3>4 DEF ReplaceRefusedFor
    <3>6. reason \in RejectReasons
      BY <3>4 DEF RejectReasons
    <3> HIDE DEF reason
    <3> QED BY <1>1, <1>2, <2>5, <3>5, <3>6, ReplaceRefusalKeepsAuditInv DEF reason
  <2>6. CASE /\ total > o.filled /\ RemoveOrder(o)
             /\ out' = <<e>>
             /\ CallSubmit(o.account, o.side, total - o.filled,
                           Replacement(env', o).kind)
    BY <1>1, <1>2, <2>1, <2>2, <2>3, <2>6, ReplacementKeepsAuditInv
  <2>7. Replacement(env', o).kind =
          [type |-> IF post_only THEN "PostOnly" ELSE "Gtc", price |-> price]
    BY <1>2 DEF Replacement
  <2>8. \/ total <= o.filled /\ RemoveOrder(o) /\ Return(<<e>>)
        \/ /\ total > o.filled
           /\ ReplaceRefusal(o, price, post_only) # None
           /\ Reject(ReplaceRefusal(o, price, post_only))
        \/ /\ total > o.filled /\ RemoveOrder(o)
           /\ out' = <<e>>
           /\ CallSubmit(o.account, o.side, total - o.filled,
                         Replacement(env', o).kind)
    BY <1>5, <2>1, <2>3, <2>7 DEF ReplaceOwned
  <2> QED BY <2>4, <2>5, <2>6, <2>8
<1> QED BY <1>4, <1>5 DEF Replace

\* Every command up to its return or its call of submit().
LEMMA SendKeepsAuditInv ==
  ASSUME Inv, EventInv, AuditInv, Send
  PROVE  AuditInv'
<1>1. UNCHANGED auditVars
  BY DEF Send
<1>2. InputQtys \subseteq Nat /\ InputKinds \subseteq Kinds
  BY InputsValid DEF InputKinds
<1> QED BY <1>1, <1>2, NewOrderKeepsAuditInv, CancelKeepsAuditInv,
        ReduceKeepsAuditInv, ReplaceKeepsAuditInv DEF Send

----------------------------------------------------------------------------
(***************************************************************************)
(* submit()                                                                *)
(***************************************************************************)
\* What the invariant says while submit() runs.
LEMMA SubmittingFacts ==
  ASSUME Inv, EventInv, AuditInv, InSubmit
  PROVE  /\ taker \in Takers /\ Submitter \in Submitters
         /\ Submitter.account = taker.account /\ Submitter.side = taker.side
         /\ Submitter.kind = taker.kind
         /\ LimitOf(Submitter.side, Submitter.kind) = Limit
         /\ Submitter.side \in Sides /\ Limit \in Nat
         /\ IsSequence(out) /\ \A i \in DOMAIN out : out[i].event # "Rejected"
         /\ IdsTracked /\ apc = "idle" /\ pc # "done"
         /\ \E n \in Nat :
              Follows(env, live, out, Submitter, n, orders, taker.remaining)
<1>1. taker \in Takers /\ Limit \in Nat
  BY LimitIsValid DEF Inv, InSubmit
<1>2. /\ Submitter \in Submitters
      /\ Submitter.account = taker.account /\ Submitter.side = taker.side
      /\ Submitter.kind = taker.kind
  BY <1>1 DEF Takers, Submitter, Submitters
<1>3. LimitOf(Submitter.side, Submitter.kind) = Limit /\ Submitter.side \in Sides
  BY <1>2 DEF Limit, Submitters
<1>4. IsSequence(out) /\ \A i \in DOMAIN out : out[i].event # "Rejected"
  BY DEF EventInv, RejectInv, Events
<1>5. Submitting /\ apc = "idle" /\ pc # "done"
  BY DEF AuditInv, MirrorTypeOK, InSubmit
<1> QED BY <1>1, <1>2, <1>3, <1>4, <1>5 DEF Submitting

\* The taker's market.
LEMMA TakerMarket ==
  ASSUME Inv, EventInv, AuditInv, InSubmit
  PROVE  /\ Marketable(taker.side, Limit) => NextMaker(Submitter, orders, Maker)
         /\ ~Marketable(taker.side, Limit) => NoMaker(Submitter, orders)
<1> DEFINE who == Submitter
<1>1. /\ who.side = taker.side /\ who.side \in Sides
      /\ LimitOf(who.side, who.kind) = Limit /\ Limit \in Nat /\ BookInv
  BY SubmittingFacts DEF Inv
<1> HIDE DEF who
<1>2. /\ Marketable(taker.side, Limit) =>
           NextMaker(who, orders, Best(Opposite(taker.side)))
      /\ ~Marketable(taker.side, Limit) => NoMaker(who, orders)
  BY <1>1, MarketHasMaker
<1> QED BY <1>2 DEF who, Maker

\* An order that submit() refuses is a new one: that of a replacement has
\* passed the same checks.
LEMMA RefusalKeepsAuditInv ==
  ASSUME Inv, EventInv, AuditInv, UNCHANGED <<env, auditVars>>,
         pc = "submit", SubmitRefusal # None, Reject(SubmitRefusal)
  PROVE  AuditInv'
<1>1. InSubmit /\ out = <<>>
  BY DEF InSubmit, EventInv, RejectInv
<1>2. Follows(env, live, out, Submitter, 0, orders, taker.remaining)
  BY <1>1 DEF AuditInv, Submitting
<1>3. /\ env.cmd = "New" /\ StaticRefusal(env) = None /\ orders = live
      /\ env.side = taker.side /\ env.kind = taker.kind
  <2>1. PICK at, books, lefts :
          /\ Begins(env, live, out, Submitter, at[0], books[0], lefts[0])
          /\ at[0] = Len(out) + 1 /\ books[0] = orders
    BY <1>2 DEF Follows
  <2>2. at[0] = 1
    BY <1>1, <2>1
  <2>3. /\ env.cmd = "New" /\ StaticRefusal(env) = None /\ orders = live
        /\ Submitter = [account |-> env.account, side |-> env.side, kind |-> env.kind]
    BY <2>1, <2>2 DEF Begins
  <2> QED BY <2>3 DEF Submitter
<1>4. ASSUME NEW p PROVE Meets(env, p) <=> Meets(Submitter, p)
  BY <1>1, <1>3, SubmittingFacts DEF Meets
<1> DEFINE reason == SubmitRefusal
<1>5. \/ /\ reason = "PostOnlyWouldCross" /\ env.kind.type = "PostOnly"
         /\ NextMaker(env, live, Maker)
      \/ /\ reason = "BookFull" /\ env.kind.type \in {"PostOnly", "Gtc"}
         /\ NoMaker(env, live)
  <2>1. \/ /\ reason = "PostOnlyWouldCross" /\ env.kind.type = "PostOnly"
           /\ Marketable(taker.side, Limit)
        \/ /\ reason = "BookFull" /\ env.kind.type \in {"PostOnly", "Gtc"}
           /\ ~Marketable(taker.side, Limit)
    BY <1>3 DEF SubmitRefusal, Rests
  <2>2. /\ Marketable(taker.side, Limit) => NextMaker(env, live, Maker)
        /\ ~Marketable(taker.side, Limit) => NoMaker(env, live)
    BY <1>1, <1>3, <1>4, TakerMarket DEF NextMaker, NoMaker
  <2> QED BY <2>1, <2>2
<1> HIDE DEF reason
<1>6. UNCHANGED book /\ Return(<<Rejected(reason)>>)
  BY DEF Reject, reason
<1>7. Issued' = Issued /\ next_seq' = next_seq /\ orders' = orders
  BY <1>6, SameBookSameIssued
<1>8. IdsTracked' /\ live' = live /\ env' = env
  BY <1>1, <1>7, SubmittingFacts DEF IdsTracked, auditVars
<1>9. PICK e : e = Rejected(reason)
  OBVIOUS
<1>10. AnsweredAtOnce(env', live', orders', e)
  <2>1. reason \in RejectReasons
    BY <1>5 DEF RejectReasons
  <2>2. env.side \in Sides /\ env.kind \in Kinds
    BY <1>1, <1>3, SubmittingFacts DEF Takers
  <2> QED BY <1>3, <1>5, <1>7, <1>8, <1>9, <2>1, <2>2 DEF AnsweredAtOnce, NewRefused
<1>11. pc' = "done" /\ Answered'
  BY <1>1, <1>6, <1>8, <1>9, <1>10, OneAnswer
<1> QED BY <1>11, ReturnKeepsAuditInv DEF auditVars

\* submit() refuses the order or enters its loop.
LEMMA SubmitKeepsAuditInv ==
  ASSUME Inv, EventInv, AuditInv, UNCHANGED <<env, auditVars>>, Submit
  PROVE  AuditInv'
<1>1. CASE SubmitRefusal # None /\ Reject(SubmitRefusal)
  BY <1>1, RefusalKeepsAuditInv DEF Submit
<1>2. CASE SubmitRefusal = None /\ pc' = "match" /\ UNCHANGED <<book, taker, out>>
  <2>1. InSubmit
    BY DEF Submit, InSubmit
  <2>2. /\ Issued' = Issued /\ next_seq' = next_seq /\ orders' = orders
        /\ IdsTracked
    BY <1>2, <2>1, SameBookSameIssued, SubmittingFacts
  <2>3. PICK n \in Nat : Follows(env, live, out, Submitter, n, orders, taker.remaining)
    BY <2>1, SubmittingFacts
  <2>4. Follows(env, live, out, Submitter, n, orders, taker.remaining)'
    BY <1>2, <2>2, <2>3 DEF auditVars, Submitter
  <2>5. Submitting'
    BY <1>2, <2>2, <2>4 DEF Submitting, IdsTracked, auditVars
  <2>6. PostOnlyRests'
    <3>1. taker.kind.type = "PostOnly" =>
            ~Marketable(taker.side, Limit) /\ free # <<>>
      BY <1>2, InputsValid DEF SubmitRefusal, Rests, RejectReasons
    <3>2. (~Marketable(taker.side, Limit))' = ~Marketable(taker.side, Limit)
      BY <1>2 DEF Marketable, Best, OrdersOn, Limit, book, Before
    <3> QED BY <1>2, <3>1, <3>2 DEF PostOnlyRests, book
  <2> QED BY <1>2, <2>1, <2>5, <2>6, SubmittingFacts
          DEF AuditInv, MirrorTypeOK, auditVars, InSubmit
<1> QED BY <1>1, <1>2 DEF Submit

\* Two more events at the end.
LEMMA TwoMoreEvents ==
  ASSUME IsSequence(out), NEW e, NEW f, out' = out \o <<e, f>>
  PROVE  /\ Begun(out, out') /\ Len(out') = Len(out) + 2
         /\ Len(out) + 1 \in DOMAIN out' /\ out'[Len(out) + 1] = e
         /\ Len(out) + 2 \in DOMAIN out' /\ out'[Len(out) + 2] = f
<1>1. PICK t : t = <<e, f>> /\ IsSequence(t)
  <2>1. <<e, f>> \in Seq({e, f})
    OBVIOUS
  <2> QED BY <2>1 DEF IsSequence
<1>2. t[1] = e /\ t[2] = f /\ DOMAIN t = {1, 2} /\ Len(t) = 2
  BY <1>1
<1>3. IsSequence(out) /\ IsSequence(t)
  BY <1>1
<1>4. /\ IsSequence(out \o t)
      /\ Len(out) \in Nat /\ Len(t) \in Nat
      /\ Len(out \o t) = Len(out) + Len(t)
      /\ DOMAIN out = 1 .. Len(out) /\ DOMAIN t = 1 .. Len(t)
      /\ DOMAIN (out \o t) = 1 .. Len(out) + Len(t)
      /\ \A i \in DOMAIN out : i \in DOMAIN (out \o t) /\ (out \o t)[i] = out[i]
      /\ \A k \in DOMAIN t : /\ Len(out) + k \in DOMAIN (out \o t)
                             /\ (out \o t)[Len(out) + k] = t[k]
      /\ \A i \in DOMAIN (out \o t) :
           \/ i \in DOMAIN out
           \/ \E k \in DOMAIN t : i = Len(out) + k
  BY ONLY <1>3, EmitFacts
<1>5. out' = out \o t
  BY <1>1
<1>6. /\ 1 \in DOMAIN t /\ 2 \in DOMAIN t
      /\ Len(out) + 1 \in DOMAIN out' /\ out'[Len(out) + 1] = t[1]
      /\ Len(out) + 2 \in DOMAIN out' /\ out'[Len(out) + 2] = t[2]
  BY <1>2, <1>4, <1>5
<1>7. Begun(out, out') /\ Len(out') = Len(out) + 2
  <2>1. /\ IsSequence(out') /\ Len(out') = Len(out) + 2 /\ Len(out) \in Nat
        /\ \A i \in DOMAIN out : i \in DOMAIN out' /\ out'[i] = out[i]
    BY <1>2, <1>4, <1>5
  <2>2. Len(out') \in Nat /\ IsSequence(out) /\ DOMAIN out = 1 .. Len(out)
    BY <1>4, <2>1
  <2> QED BY ONLY <2>1, <2>2 DEF Begun
<1> QED BY <1>2, <1>6, <1>7

\* One more.
LEMMA OneMoreBegun ==
  ASSUME IsSequence(out), NEW e, out' = Append(out, e)
  PROVE  /\ Begun(out, out') /\ Len(out') = Len(out) + 1
         /\ Len(out) + 1 \in DOMAIN out' /\ out'[Len(out) + 1] = e
<1>1. out' = out \o <<e>>
  <2>1. PICK S : out \in Seq(S)
    BY DEF IsSequence
  <2>2. out \in Seq(S \cup {e})
    BY <2>1
  <2> QED BY <2>2, AppendIsConcat
<1>2. /\ IsSequence(out') /\ Len(out') = Len(out) + 1 /\ Len(out) \in Nat
      /\ DOMAIN out = 1 .. Len(out)
      /\ \A i \in DOMAIN out : i \in DOMAIN out' /\ out'[i] = out[i]
      /\ Len(out) + 1 \in DOMAIN out' /\ out'[Len(out) + 1] = e
  BY <1>1, OneMoreEvent
<1> QED BY <1>2 DEF Begun

\* A fill is a turn of the story.
LEMMA FillKeepsAuditInv ==
  ASSUME Inv, EventInv, AuditInv, UNCHANGED <<env, auditVars>>, Fill, Inv'
  PROVE  AuditInv'
<1>1. /\ Matching /\ InSubmit /\ pc = "match" /\ pc' = "match"
      /\ Maker.account # taker.account
  BY DEF Fill, Matching, InSubmit
<1> DEFINE who == Submitter
<1>2. /\ who \in Submitters /\ who.account = taker.account
      /\ who.side = taker.side /\ who.kind = taker.kind
      /\ taker \in Takers /\ IsSequence(out) /\ IdsTracked /\ apc = "idle"
  BY <1>1, SubmittingFacts
<1>3. PICK n \in Nat : Follows(env, live, out, who, n, orders, taker.remaining)
  BY <1>1, SubmittingFacts
<1>4. NextMaker(who, orders, Maker)
  BY <1>1, TakerMarket DEF Matching
<1>5. who.kind.type # "PostOnly"
  BY <1>1, <1>2 DEF AuditInv, PostOnlyRests, Matching
<1>6. who' = who
  BY <1>2 DEF Fill, Submitter, Takers
<1>7. PICK m \in orders, q \in Nat :
        /\ m = Maker /\ m \in Orders /\ m.remaining \in Nat
        /\ q = Min({taker.remaining, Maker.remaining})
        /\ taker.remaining \in Nat /\ taker.remaining > 0
        /\ taker.remaining - q \in Nat /\ m.remaining - q \in Nat
        /\ q = IF taker.remaining < m.remaining THEN taker.remaining ELSE m.remaining
  <2>1. PICK m \in orders : /\ m = Maker /\ m \in Orders /\ m.remaining \in Nat
                            /\ taker.remaining \in Nat /\ taker.remaining > 0
    BY <1>1, MakerRests
  <2>2. PICK q \in Nat : /\ q = Min({taker.remaining, Maker.remaining})
                         /\ taker.remaining - q \in Nat /\ m.remaining - q \in Nat
                         /\ taker.remaining = q \/ m.remaining = q
    BY <1>1, <2>1, FillQuantity
  <2>3. q = IF taker.remaining < m.remaining THEN taker.remaining ELSE m.remaining
    BY <2>1, <2>2
  <2> QED BY <2>1, <2>2, <2>3
<1>8. PICK e, f : /\ e = Trade(taker.side, m.id, m.price, q, m.remaining - q)
                  /\ f = MakerFilled(m.id)
  OBVIOUS
<1>9. taker'.remaining = taker.remaining - q
  BY <1>2, <1>7 DEF Fill, Takers
<1>10. orders' \in SUBSET Orders
  BY DEF Inv, BookInv, BookTypeOK
<1>11. \/ m.remaining - q = 0 /\ RemoveOrder(m) /\ out' = out \o <<e, f>>
       \/ /\ m.remaining - q > 0
          /\ Update(m, [m EXCEPT !.remaining = m.remaining - q, !.filled = @ + q])
          /\ out' = Append(out, e)
  BY <1>7, <1>8 DEF Fill
<1>12. ASSUME Begun(out, out'), Len(out) + 1 \in DOMAIN out', out'[Len(out) + 1] = e
       PROVE  Trades(out', who, Len(out) + 1, orders, taker.remaining, m, q)
  <2> HIDE DEF who
  <2> QED BY <1>1, <1>2, <1>4, <1>5, <1>7, <1>8, <1>12 DEF Trades
<1> DEFINE Goal == /\ IdsTracked' /\ Begun(out, out')
                   /\ Turn(out', who, Len(out) + 1, orders, taker.remaining,
                                      Len(out') + 1, orders', taker'.remaining)
<1>13. ASSUME m.remaining - q = 0, RemoveOrder(m), out' = out \o <<e, f>>
       PROVE  Goal
  <2>1. /\ Begun(out, out') /\ Len(out') = Len(out) + 2
        /\ Len(out) + 1 \in DOMAIN out' /\ out'[Len(out) + 1] = e
        /\ Len(out) + 2 \in DOMAIN out' /\ out'[Len(out) + 2] = f
    BY <1>2, <1>13, TwoMoreEvents
  <2>2. Issued' = Issued /\ next_seq' = next_seq
    BY <1>13, RemovalIssuesNone DEF Inv
  <2>3. IdsTracked'
    BY <1>2, <2>2 DEF IdsTracked, auditVars
  <2>4. Len(out) \in Nat /\ Len(out) + 1 + 1 = Len(out) + 2
    BY <2>1 DEF Begun
  <2>5. UsesUp(out', Len(out) + 1, orders, m, Len(out') + 1, orders')
    BY <1>8, <1>13, <2>1, <2>4 DEF UsesUp, RemoveOrder
  <2>6. Trades(out', who, Len(out) + 1, orders, taker.remaining, m, q)
    BY <1>12, <2>1
  <2>7. m.remaining = q
    BY <1>7, <1>13
  <2> HIDE DEF who
  <2> QED BY <1>7, <1>9, <2>1, <2>3, <2>5, <2>6, <2>7 DEF Turn
<1>14. ASSUME m.remaining - q > 0, out' = Append(out, e), NEW p,
              p = [m EXCEPT !.remaining = m.remaining - q, !.filled = @ + q],
              Update(m, p)
       PROVE  Goal
  <2>1. /\ Begun(out, out') /\ Len(out') = Len(out) + 1
        /\ Len(out) + 1 \in DOMAIN out' /\ out'[Len(out) + 1] = e
    BY <1>2, <1>14, OneMoreBegun
  <2>2. p.id = m.id
    BY <1>7, <1>14 DEF Orders
  <2>3. Issued' = Issued /\ next_seq' = next_seq
    BY <1>14, <2>2, UpdateIssuesNone
  <2>4. IdsTracked'
    BY <1>2, <2>3 DEF IdsTracked, auditVars
  <2>5. Shadow!FilledInPart(m, q) = p
    BY <1>7, <1>14 DEF Shadow!FilledInPart
  <2>6. UsesPart(Len(out) + 1, orders, m, q, Len(out') + 1, orders')
    BY <1>14, <2>1, <2>5 DEF UsesPart, Update
  <2>7. Trades(out', who, Len(out) + 1, orders, taker.remaining, m, q)
    BY <1>12, <2>1
  <2>8. m.remaining > q
    BY <1>7, <1>14
  <2> HIDE DEF who
  <2> QED BY <1>7, <1>9, <2>1, <2>4, <2>6, <2>7, <2>8 DEF Turn
<1>15. Goal
  <2>1. PICK p : p = [m EXCEPT !.remaining = m.remaining - q, !.filled = @ + q]
    OBVIOUS
  <2>2. \/ m.remaining - q = 0 /\ RemoveOrder(m) /\ out' = out \o <<e, f>>
        \/ m.remaining - q > 0 /\ Update(m, p) /\ out' = Append(out, e)
    BY <1>11, <2>1
  <2> HIDE DEF Goal
  <2> QED BY <1>13, <1>14, <2>1, <2>2
<1>16. Follows(env, live, out', who, n + 1, orders', taker'.remaining)
  <2> HIDE DEF who
  <2> QED BY <1>3, <1>7, <1>9, <1>10, <1>15, StoryGrows
<1>17. Submitting'
  <2>1. Follows(env, live, out, Submitter, n + 1, orders, taker.remaining)'
    BY <1>6, <1>16 DEF auditVars
  <2>2. n + 1 \in Nat
    OBVIOUS
  <2> QED BY <1>1, <1>15, <2>1, <2>2 DEF Submitting
<1>18. PostOnlyRests'
  BY <1>2, <1>5, <1>6 DEF PostOnlyRests, Submitter
<1> QED BY <1>1, <1>2, <1>17, <1>18 DEF AuditInv, MirrorTypeOK, auditVars, InSubmit

\* submit() returns: its last event says what became of the remainder.
LEMMA EndKeepsAuditInv ==
  ASSUME Inv, EventInv, AuditInv, UNCHANGED <<env, auditVars>>, InSubmit,
         NEW who, who = Submitter, NEW b, b = orders,
         NEW left, left = taker.remaining,
         NEW e, Return(<<e>>), e.event # "Rejected", Ends(who, b, left, e)'
  PROVE  AuditInv'
<1>1. /\ who \in Submitters /\ IsSequence(out) /\ pc # "done"
      /\ \A i \in DOMAIN out : out[i].event # "Rejected"
  BY SubmittingFacts
<1>2. PICK n \in Nat : Follows(env, live, out, who, n, b, left)
  BY SubmittingFacts
<1>3. out' = out \o <<e>> /\ pc' = "done" /\ UNCHANGED <<env, live>>
  BY DEF Return, auditVars
<1>4. FlowAnswered'
  BY <1>1, <1>2, <1>3, StoryEnds
<1>5. Answered'
  BY <1>4 DEF Answered
<1> QED BY <1>1, <1>3, <1>5, ReturnKeepsAuditInv DEF auditVars

\* The taker ends without resting.
LEMMA LeaveKeepsAuditInv ==
  ASSUME Inv, EventInv, AuditInv, UNCHANGED <<env, auditVars>>, InSubmit,
         UNCHANGED book,
         NEW who, who = Submitter, NEW left, left = taker.remaining,
         NEW e, Return(<<e>>),
         \/ e = Filled /\ left = 0
         \/ /\ left > 0
            /\ \/ /\ e = Cancelled(None, left, "Unfilled")
                  /\ ~Rests(who.kind) /\ NoMaker(who, orders)
               \/ /\ e = Cancelled(None, left, "SelfTrade")
                  /\ who.kind.type # "PostOnly"
                  /\ \E m : NextMaker(who, orders, m) /\ m.account = who.account
               \/ /\ e = Cancelled(None, left, "CapacityExhausted")
                  /\ who.kind.type = "Gtc" /\ NoMaker(who, orders)
  PROVE  AuditInv'
<1>1. PICK b : b = orders
  OBVIOUS
<1>2. Issued' = Issued /\ next_seq' = next_seq /\ orders' = orders
  BY SameBookSameIssued
<1>3. IdsTracked' /\ orders' = b
  BY <1>1, <1>2, SubmittingFacts DEF IdsTracked, auditVars
<1>4. Ends(who, b, left, e)'
  BY <1>1, <1>3 DEF Ends
<1>5. e.event # "Rejected"
  BY DEF Filled, Cancelled
<1> QED BY <1>1, <1>4, <1>5, EndKeepsAuditInv

\* The taker rests.
LEMMA RestKeepsAuditInv ==
  ASSUME Inv, EventInv, AuditInv, UNCHANGED <<env, auditVars>>, pc = "match",
         taker.remaining > 0, Rests(taker.kind),
         ~Marketable(taker.side, Limit), Rest
  PROVE  AuditInv'
<1>1. InSubmit
  BY DEF InSubmit
<1>2. PICK who, b, left : who = Submitter /\ b = orders /\ left = taker.remaining
  OBVIOUS
<1>3. /\ who \in Submitters /\ who.account = taker.account
      /\ who.side = taker.side /\ who.kind = taker.kind
      /\ taker \in Takers /\ Limit \in Nat /\ IdsTracked
      /\ LimitOf(who.side, who.kind) = Limit
  BY <1>1, <1>2, SubmittingFacts
<1>4. NoMaker(who, b)
  BY <1>1, <1>2, TakerMarket
<1>5. PICK s \in Slots : s = Last(free) /\ free # <<>>
  <2>1. free \in Seq(Slots) /\ free # <<>>
    BY DEF Inv, BookInv, BookTypeOK, Rest
  <2> QED BY <2>1, FrontLast
<1>6. PICK t : t = [id |-> OrderId(s, generations[s] + 1), account |-> taker.account,
                    side |-> taker.side, price |-> Limit,
                    remaining |-> taker.remaining, filled |-> 0, seq |-> next_seq]
  OBVIOUS
<1>7. PICK e : e = Rested(t.id, left)
  OBVIOUS
<1>8. Insert(t, s) /\ Return(<<e>>)
  BY <1>2, <1>5, <1>6, <1>7 DEF Rest
<1>9. t \in Orders
  <2>1. generations[s] + 1 \in Nat /\ next_seq \in Nat
    BY DEF Inv, BookInv, BookTypeOK
  <2> QED BY <1>3, <1>6, <2>1 DEF Orders, OrderId, Takers
<1>10. /\ t.id \in Slots \X LiveGenerations /\ t.id \notin Issued
       /\ Issued' = Issued \cup {t.id}
       /\ GenerationOf(t.id) % 2 = 1
  BY <1>5, <1>6, <1>8, <1>9, InsertionIssuesOne DEF Inv
<1>11. /\ orders' = b \cup {t} /\ next_seq' = audit_seq' + 1
       /\ Issued' = ever' \cup {t.id} /\ t.id \notin ever'
  BY <1>2, <1>3, <1>8, <1>10 DEF Insert, IdsTracked, auditVars
<1>12. /\ t.id \in Slots \X Nat
       /\ t = [id |-> t.id, account |-> who.account, side |-> who.side,
               price |-> LimitOf(who.side, who.kind), remaining |-> left,
               filled |-> 0, seq |-> audit_seq']
  BY <1>2, <1>3, <1>6, <1>9 DEF Orders, IdsTracked, auditVars
<1>13. Ends(who, b, left, e)'
  <2>1. left > 0 /\ Rests(who.kind) /\ NoMaker(who, b)
    BY <1>2, <1>3, <1>4
  <2>2. PICK id \in Slots \X Nat : id = t.id
    BY <1>12
  <2>3. /\ e = Rested(id, left)
        /\ GenerationOf(id) % 2 = 1 /\ id \notin ever'
        /\ orders' = b \cup
               {[id |-> id, account |-> who.account, side |-> who.side,
                 price |-> LimitOf(who.side, who.kind), remaining |-> left,
                 filled |-> 0, seq |-> audit_seq']}
        /\ next_seq' = audit_seq' + 1
        /\ Issued' = ever' \cup {id}
    BY <1>7, <1>10, <1>11, <1>12, <2>2
  <2> QED BY <2>1, <2>3 DEF Ends
<1>14. e.event # "Rejected"
  BY <1>7 DEF Rested
<1> QED BY <1>1, <1>2, <1>8, <1>13, <1>14, EndKeepsAuditInv

\* The ways out of the loop.
LEMMA FinishKeepsAuditInv ==
  ASSUME Inv, EventInv, AuditInv, UNCHANGED <<env, auditVars>>,
         Finish \/ SelfTrade
  PROVE  AuditInv'
<1>1. InSubmit /\ pc = "match"
  BY DEF Finish, SelfTrade, Matching, InSubmit
<1>2. PICK who, left : who = Submitter /\ left = taker.remaining
  OBVIOUS
<1>3. /\ who.account = taker.account /\ who.kind = taker.kind /\ taker \in Takers
  BY <1>1, <1>2, SubmittingFacts
<1>4. left > 0 /\ ~Matching => NoMaker(who, orders) /\ ~Marketable(taker.side, Limit)
  BY <1>1, <1>2, TakerMarket DEF Matching
<1>5. CASE SelfTrade
  <2>1. PICK e : e = Cancelled(None, left, "SelfTrade")
    OBVIOUS
  <2>2. left > 0 /\ NextMaker(who, orders, Maker) /\ Maker.account = who.account
    BY <1>1, <1>2, <1>3, <1>5, TakerMarket DEF SelfTrade, Matching
  <2>3. Return(<<e>>) /\ UNCHANGED book
    BY <1>2, <1>5, <2>1 DEF SelfTrade
  <2>4. who.kind.type # "PostOnly"
    BY <1>1, <1>3, <1>5 DEF AuditInv, PostOnlyRests, SelfTrade, Matching
  <2> QED BY <1>1, <1>2, <2>1, <2>2, <2>3, <2>4, LeaveKeepsAuditInv
<1>6. CASE Finish
  <2>1. CASE taker.remaining = 0 /\ Return(<<Filled>>) /\ UNCHANGED book
    <3>1. PICK e : e = Filled
      OBVIOUS
    <3> QED BY <1>1, <1>2, <2>1, <3>1, LeaveKeepsAuditInv
  <2>2. CASE /\ taker.remaining > 0 /\ ~Rests(taker.kind)
             /\ Return(<<Cancelled(None, taker.remaining, "Unfilled")>>)
             /\ UNCHANGED book
    <3>1. PICK e : e = Cancelled(None, left, "Unfilled")
      OBVIOUS
    <3>2. left > 0 /\ ~Rests(who.kind) /\ NoMaker(who, orders) /\ Return(<<e>>)
      BY <1>2, <1>3, <1>4, <1>6, <2>2, <3>1 DEF Finish
    <3> QED BY <1>1, <1>2, <2>2, <3>1, <3>2, LeaveKeepsAuditInv
  <2>3. CASE taker.remaining > 0 /\ Rests(taker.kind) /\ Rest
    BY <1>1, <1>2, <1>4, <1>6, <2>3, RestKeepsAuditInv DEF Finish
  <2>4. CASE /\ taker.remaining > 0 /\ Rests(taker.kind) /\ free = <<>>
             /\ Return(<<Cancelled(None, taker.remaining, "CapacityExhausted")>>)
             /\ UNCHANGED book
    <3>1. PICK e : e = Cancelled(None, left, "CapacityExhausted")
      OBVIOUS
    <3>2. who.kind.type = "Gtc"
      BY <1>1, <1>3, <2>4 DEF AuditInv, PostOnlyRests, Rests
    <3>3. left > 0 /\ NoMaker(who, orders) /\ Return(<<e>>)
      BY <1>2, <1>4, <1>6, <2>4, <3>1 DEF Finish
    <3> QED BY <1>1, <1>2, <2>4, <3>1, <3>2, <3>3, LeaveKeepsAuditInv
  <2> QED BY <1>6, <2>1, <2>2, <2>3, <2>4 DEF Finish
<1> QED BY <1>5, <1>6

----------------------------------------------------------------------------
(***************************************************************************)
(* check()                                                                 *)
(***************************************************************************)
\* The audit finds the maker that the engine found.
LEMMA MirrorHasMaker ==
  ASSUME live \subseteq Orders, NEW who, who.side \in Sides,
         NEW m, NextMaker(who, live, m)
  PROVE  /\ Shadow!Best(Opposite(who.side)) = {m}
         /\ Shadow!Crossing(who.side, LimitOf(who.side, who.kind)) = {m}
<1>1. /\ m \in live /\ m.side = Opposite(who.side)
      /\ Crosses(who.side, LimitOf(who.side, who.kind), m.price)
      /\ \A p \in live : p.side = m.side /\ p # m => Before(m, p)
  BY DEF NextMaker, IsBest, Meets
<1>2. \A p \in live : p.price \in Nat /\ p.seq \in Nat
  BY DEF Orders
<1>3. ASSUME NEW p \in live, p.side = m.side, p # m
      PROVE  \/ Shadow!PriceRank(m) < Shadow!PriceRank(p)
             \/ Shadow!PriceRank(m) = Shadow!PriceRank(p) /\ m.seq < p.seq
  <2>1. Before(m, p) /\ m.price \in Nat /\ p.price \in Nat
    BY <1>1, <1>2, <1>3
  <2> QED BY <1>3, <2>1 DEF Before, Crosses, Shadow!PriceRank, Shadow!U16Max
<1>4. ASSUME NEW p \in live
      PROVE  Shadow!PriceRank(p) \in Int
  BY <1>2 DEF Shadow!PriceRank, Shadow!U16Max
<1>5. Shadow!Best(Opposite(who.side)) = {m}
  <2>1. m \in Shadow!Best(Opposite(who.side))
    <3>1. ASSUME NEW p \in live, p.side = m.side
          PROVE  \/ Shadow!PriceRank(m) < Shadow!PriceRank(p)
                 \/ Shadow!PriceRank(m) = Shadow!PriceRank(p) /\ m.seq <= p.seq
      BY <1>1, <1>2, <1>3, <3>1
    <3> QED BY <1>1, <3>1 DEF Shadow!Best
  <2>2. ASSUME NEW p \in Shadow!Best(Opposite(who.side)), p # m
        PROVE  FALSE
    <3>1. /\ p \in live /\ p.side = m.side
          /\ \/ Shadow!PriceRank(p) < Shadow!PriceRank(m)
             \/ Shadow!PriceRank(p) = Shadow!PriceRank(m) /\ p.seq <= m.seq
      BY <1>1 DEF Shadow!Best
    <3> QED BY <1>1, <1>2, <1>3, <1>4, <2>2, <3>1
  <2> QED BY <2>1, <2>2
<1>6. Shadow!Crossing(who.side, LimitOf(who.side, who.kind)) =
        {o \in {m} : Crosses(who.side, LimitOf(who.side, who.kind), o.price)}
  BY <1>5 DEF Shadow!Crossing, Shadow!Opposite, Opposite, Shadow!Crosses, Crosses
<1> QED BY <1>1, <1>5, <1>6

\* Or finds none.
LEMMA MirrorHasNoMaker ==
  ASSUME NEW who, NoMaker(who, live)
  PROVE  Shadow!Crossing(who.side, LimitOf(who.side, who.kind)) = {}
<1>1. Shadow!Best(Opposite(who.side)) \subseteq {o \in live : o.side = Opposite(who.side)}
  BY DEF Shadow!Best
<1> QED BY <1>1 DEF Shadow!Crossing, Shadow!Opposite, Opposite, Shadow!Crosses,
           Crosses, NoMaker, Meets

\* check_command() accepts what it was shown.
LEMMA AcceptKeepsAuditInv ==
  ASSUME AuditInv, pc = "done", UNCHANGED <<vars, env>>,
         Shadow!Accept(orders), ever' \subseteq Slots \X Nat, audit_seq' \in Nat,
         next_seq = audit_seq', Issued = ever', orders \subseteq Orders
  PROVE  AuditInv'
<1>1. orders' = orders /\ next_seq' = next_seq /\ pc' = pc
  BY DEF vars, book
<1>2. Issued' = Issued
  <2>1. UNCHANGED book
    BY DEF vars, book
  <2> QED BY <2>1, SameBookSameIssued
<1>3. Tracks'
  BY <1>1, <1>2 DEF Tracks, IdsTracked, Shadow!Accept
<1>4. MirrorTypeOK' /\ apc' = "book"
  BY <1>1 DEF MirrorTypeOK, Shadow!Accept
<1> QED BY <1>1, <1>3, <1>4 DEF AuditInv, PostOnlyRests, InSubmit

\* It accepts an answer of one event.
LEMMA CheckAnswerKeepsAuditInv ==
  ASSUME Inv, AuditInv, pc = "done", UNCHANGED <<vars, env>>, IdsTracked,
         Shadow!Accept(orders), UNCHANGED <<ever, audit_seq>>
  PROVE  AuditInv'
<1>1. orders \subseteq Orders
  BY DEF Inv, BookInv, BookTypeOK
<1> QED BY <1>1, AcceptKeepsAuditInv DEF AuditInv, MirrorTypeOK, IdsTracked

\* A refused new order.
LEMMA CheckRefusedNew ==
  ASSUME Inv, AuditInv, pc = "done", UNCHANGED <<vars, env>>, IdsTracked,
         NEW e, out = <<e>>, NewRefused(env, live, orders, e),
         Shadow!CheckCommand
  PROVE  AuditInv'
<1>1. PICK reason \in RejectReasons :
        /\ e = Rejected(reason)
        /\ \/ reason = StaticRefusal(env)
           \/ /\ StaticRefusal(env) = None /\ env.kind.type = "PostOnly"
              /\ reason = "PostOnlyWouldCross"
              /\ \E m : NextMaker(env, live, m)
           \/ /\ StaticRefusal(env) = None /\ env.kind.type \in {"PostOnly", "Gtc"}
              /\ reason = "BookFull"
              /\ NoMaker(env, live)
  BY DEF NewRefused
<1>2. env.cmd = "New" /\ env.side \in Sides /\ env.kind \in Kinds /\ orders = live
  BY DEF NewRefused
<1>3. Len(out) = 1 /\ out[1] = e
  BY Singleton
<1>4. Shadow!IsRejection /\ out[1].reason = reason
  BY <1>1, <1>3 DEF Shadow!IsRejection, Rejected
<1>5. StaticRefusal(env) = Shadow!ExpectedStaticReject(env.qty, env.kind)
  BY <1>2 DEF StaticRefusal
<1>6. env.kind.type \in {"PostOnly", "Gtc"} =>
        LimitOf(env.side, env.kind) = env.kind.price
  BY <1>2, InputsValid DEF Kinds, LimitOf
<1>7. live \subseteq Orders
  BY DEF AuditInv, MirrorTypeOK
<1>8. Shadow!NewRejectionOk(env.side, env.qty, env.kind, reason)
  <2>1. CASE reason = StaticRefusal(env)
    <3>1. StaticRefusal(env) # None
      BY <2>1, InputsValid
    <3> QED BY <1>5, <2>1, <3>1 DEF Shadow!NewRejectionOk
  <2>2. ASSUME StaticRefusal(env) = None, env.kind.type = "PostOnly",
               reason = "PostOnlyWouldCross", NEW m, NextMaker(env, live, m)
        PROVE  Shadow!NewRejectionOk(env.side, env.qty, env.kind, reason)
    <3>1. Shadow!Crossing(env.side, env.kind.price) = {m}
      BY <1>2, <1>6, <1>7, <2>2, MirrorHasMaker
    <3> QED BY <1>5, <2>2, <3>1 DEF Shadow!NewRejectionOk
  <2>3. CASE /\ StaticRefusal(env) = None /\ env.kind.type \in {"PostOnly", "Gtc"}
             /\ reason = "BookFull" /\ NoMaker(env, live)
    <3>1. Shadow!Crossing(env.side, env.kind.price) = {}
      BY <1>6, <2>3, MirrorHasNoMaker
    <3> QED BY <1>5, <2>3, <3>1 DEF Shadow!NewRejectionOk
  <2> QED BY <1>1, <2>1, <2>2, <2>3
<1>9. Shadow!CheckNew
  BY <1>2 DEF Shadow!CheckCommand, Shadow!CheckNew, Shadow!CheckCancel,
     Shadow!CheckReduce, Shadow!CheckReplace
<1>10. Shadow!Accept(live) /\ UNCHANGED <<ever, audit_seq>>
  BY <1>4, <1>8, <1>9 DEF Shadow!CheckNew
<1> QED BY <1>2, <1>10, CheckAnswerKeepsAuditInv

\* Which orders the command names, on both sides.
LEMMA SameOwned == OwnedIn(live, env) = Shadow!Owned(env.id, env.account)
  BY DEF OwnedIn, Shadow!Owned

\* A cancellation.
LEMMA CheckCancelAnswer ==
  ASSUME Inv, AuditInv, pc = "done", UNCHANGED <<vars, env>>, IdsTracked,
         NEW e, out = <<e>>, CancelAnswered(env, live, orders, e),
         Shadow!CheckCommand
  PROVE  AuditInv'
<1>1. env.cmd = "Cancel"
  BY DEF CancelAnswered
<1>2. Shadow!CheckCancel
  BY <1>1 DEF Shadow!CheckCommand, Shadow!CheckNew, Shadow!CheckCancel,
     Shadow!CheckReduce, Shadow!CheckReplace
<1>3. \A f : out = <<f>> <=> e = f
  OBVIOUS
<1> DEFINE owned == Shadow!Owned(env.id, env.account)
<1>4. CASE OwnedIn(live, env) = {} /\ orders = live /\ e = Rejected("UnknownOrStaleId")
  <2>1. owned = {} /\ out = <<Shadow!Rejected("UnknownOrStaleId")>>
    BY <1>3, <1>4, SameOwned DEF Rejected, Shadow!Rejected
  <2>2. Shadow!Accept(live) /\ UNCHANGED <<ever, audit_seq>>
    BY <1>2, <2>1 DEF Shadow!CheckCancel
  <2> QED BY <1>4, <2>2, CheckAnswerKeepsAuditInv
<1>5. ASSUME NEW o \in Orders, OwnedIn(live, env) = {o}, orders = live \ {o},
             e = Cancelled(env.id, o.remaining, "User")
      PROVE  AuditInv'
  <2>1. owned = {o} /\ out = <<Shadow!Cancelled(env.id, o.remaining, "User")>>
    BY <1>3, <1>5, SameOwned DEF Cancelled, Shadow!Cancelled
  <2>2. Shadow!Accept(live \ {o}) /\ UNCHANGED <<ever, audit_seq>>
    <3> HIDE DEF owned
    <3> QED BY <1>2, <2>1 DEF Shadow!CheckCancel, owned
  <2> QED BY <1>5, <2>2, CheckAnswerKeepsAuditInv
<1> QED BY <1>4, <1>5 DEF CancelAnswered

\* A reduction.
LEMMA CheckReduceAnswer ==
  ASSUME Inv, AuditInv, pc = "done", UNCHANGED <<vars, env>>, IdsTracked,
         NEW e, out = <<e>>, ReduceAnswered(env, live, orders, e),
         Shadow!CheckCommand
  PROVE  AuditInv'
<1>1. env.cmd = "Reduce" /\ env.total \in Nat
  BY DEF ReduceAnswered
<1>2. Shadow!CheckReduce
  BY <1>1 DEF Shadow!CheckCommand, Shadow!CheckNew, Shadow!CheckCancel,
     Shadow!CheckReduce, Shadow!CheckReplace
<1>3. \A f : out = <<f>> <=> e = f
  OBVIOUS
<1> DEFINE owned == Shadow!Owned(env.id, env.account)
<1>4. CASE OwnedIn(live, env) = {} /\ orders = live /\ e = Rejected("UnknownOrStaleId")
  <2>1. owned = {} /\ out = <<Shadow!Rejected("UnknownOrStaleId")>>
    BY <1>3, <1>4, SameOwned DEF Rejected, Shadow!Rejected
  <2>2. Shadow!Accept(live) /\ UNCHANGED <<ever, audit_seq>>
    BY <1>2, <2>1 DEF Shadow!CheckReduce
  <2> QED BY <1>4, <2>2, CheckAnswerKeepsAuditInv
<1>5. ASSUME NEW o \in Orders, OwnedIn(live, env) = {o},
             env.total > o.filled + o.remaining, orders = live,
             e = Rejected("InvalidChange")
      PROVE  AuditInv'
  <2>1. /\ owned = {o} /\ out = <<Shadow!Rejected("InvalidChange")>>
        /\ o.filled \in Nat /\ o.remaining \in Nat
    BY <1>3, <1>5, SameOwned DEF Rejected, Shadow!Rejected, Orders
  <2>2. Shadow!Accept(live) /\ UNCHANGED <<ever, audit_seq>>
    <3> HIDE DEF owned
    <3> QED BY <1>1, <1>2, <1>5, <2>1 DEF Shadow!CheckReduce, owned
  <2> QED BY <1>5, <2>2, CheckAnswerKeepsAuditInv
<1>6. ASSUME NEW o \in Orders, OwnedIn(live, env) = {o},
             env.total <= o.filled, orders = live \ {o},
             e = Cancelled(env.id, o.remaining, "ReduceToZero")
      PROVE  AuditInv'
  <2>1. /\ owned = {o}
        /\ out = <<Shadow!Cancelled(env.id, o.remaining, "ReduceToZero")>>
        /\ o.filled \in Nat /\ o.remaining \in Nat
    BY <1>3, <1>6, SameOwned DEF Cancelled, Shadow!Cancelled, Orders
  <2>2. Shadow!Accept(live \ {o}) /\ UNCHANGED <<ever, audit_seq>>
    <3> HIDE DEF owned
    <3> QED BY <1>1, <1>2, <1>6, <2>1 DEF Shadow!CheckReduce, owned
  <2> QED BY <1>6, <2>2, CheckAnswerKeepsAuditInv
<1>7. ASSUME NEW o \in Orders, OwnedIn(live, env) = {o},
             o.filled < env.total, env.total <= o.filled + o.remaining,
             orders = (live \ {o}) \cup {[o EXCEPT !.remaining = env.total - o.filled]},
             e = Reduced(env.id, o.filled, env.total - o.filled)
      PROVE  AuditInv'
  <2>1. /\ owned = {o}
        /\ out = <<Shadow!Reduced(env.id, o.filled, env.total - o.filled)>>
        /\ o.filled \in Nat /\ o.remaining \in Nat
    BY <1>3, <1>7, SameOwned DEF Reduced, Shadow!Reduced, Orders
  <2>2. Shadow!Accept(orders) /\ UNCHANGED <<ever, audit_seq>>
    <3> HIDE DEF owned
    <3> QED BY <1>1, <1>2, <1>7, <2>1 DEF Shadow!CheckReduce, owned
  <2> QED BY <2>2, CheckAnswerKeepsAuditInv
<1> QED BY <1>4, <1>5, <1>6, <1>7 DEF ReduceAnswered

\* A replacement that was refused, or that left nothing to submit.
LEMMA CheckReplaceAnswer ==
  ASSUME Inv, AuditInv, pc = "done", UNCHANGED <<vars, env>>, IdsTracked,
         NEW e, out = <<e>>, ReplaceAnswered(env, live, orders, e),
         Shadow!CheckCommand
  PROVE  AuditInv'
<1>1. env.cmd = "Replace" /\ env.total \in Nat /\ env.price \in InputPrices
  BY DEF ReplaceAnswered
<1>2. Shadow!CheckReplace
  BY <1>1 DEF Shadow!CheckCommand, Shadow!CheckNew, Shadow!CheckCancel,
     Shadow!CheckReduce, Shadow!CheckReplace
<1>3. Len(out) = 1 /\ out[1] = e /\ out # <<>>
  BY Singleton
<1>4. StaticRefusal(env) = Shadow!ReplaceStaticReject
  BY <1>1 DEF StaticRefusal, Shadow!ReplaceStaticReject, Shadow!PriceOk, PriceOk
<1>5. live \subseteq Orders
  BY DEF AuditInv, MirrorTypeOK
<1> DEFINE owned == Shadow!Owned(env.id, env.account)
<1>6. ASSUME NEW reason \in RejectReasons, ReplaceRefusedFor(env, live, reason),
             orders = live, e = Rejected(reason)
      PROVE  AuditInv'
  <2>1. Shadow!IsRejection /\ out[1].reason = reason
    BY <1>3, <1>6 DEF Shadow!IsRejection, Rejected
  <2>2. Shadow!ReplaceRejectionOk(reason)
    <3>1. CASE reason = StaticRefusal(env)
      <4>1. StaticRefusal(env) # None
        BY <3>1, InputsValid
      <4> QED BY <1>4, <3>1, <4>1 DEF Shadow!ReplaceRejectionOk
    <3>2. CASE /\ StaticRefusal(env) = None /\ OwnedIn(live, env) = {}
               /\ reason = "UnknownOrStaleId"
      BY <1>4, <3>2, SameOwned DEF Shadow!ReplaceRejectionOk
    <3>3. ASSUME StaticRefusal(env) = None, NEW o \in Orders,
                 OwnedIn(live, env) = {o}, env.total > o.filled,
                 \/ /\ reason = "PostOnlyWouldCross" /\ env.post_only
                    /\ \E m : NextMaker(Replacement(env, o), live, m)
                 \/ /\ reason = "BookFull"
                    /\ env.post_only => NoMaker(Replacement(env, o), live)
          PROVE  Shadow!ReplaceRejectionOk(reason)
      <4>1. PICK who : who = Replacement(env, o)
        OBVIOUS
      <4>2. who.side = o.side /\ o.side \in Sides /\ who.kind.price = env.price
        BY <4>1 DEF Replacement, Orders
      <4>3. env.price # None
        BY <1>1, InputsValid
      <4>4. LimitOf(who.side, who.kind) = env.price
        BY <3>3, <4>2, <4>3 DEF LimitOf
      <4>5. owned = {o}
        BY <3>3, SameOwned
      <4>6. \/ /\ reason = "PostOnlyWouldCross" /\ env.post_only
               /\ Shadow!Crossing(o.side, env.price) # {}
            \/ /\ reason = "BookFull"
               /\ env.post_only => Shadow!Crossing(o.side, env.price) = {}
        <5>1. ASSUME NEW m, NextMaker(who, live, m)
              PROVE  Shadow!Crossing(o.side, env.price) = {m}
          BY <1>5, <4>2, <4>4, <5>1, MirrorHasMaker
        <5>2. NoMaker(who, live) => Shadow!Crossing(o.side, env.price) = {}
          BY <4>2, <4>4, MirrorHasNoMaker
        <5> QED BY <3>3, <4>1, <5>1, <5>2
      <4> HIDE DEF owned
      <4> QED BY <1>4, <3>3, <4>5, <4>6 DEF Shadow!ReplaceRejectionOk, owned
    <3> QED BY <1>6, <3>1, <3>2, <3>3 DEF ReplaceRefusedFor
  <2>3. Shadow!Accept(live) /\ UNCHANGED <<ever, audit_seq>>
    BY <1>2, <2>1, <2>2 DEF Shadow!CheckReplace
  <2> QED BY <1>6, <2>3, CheckAnswerKeepsAuditInv
<1>7. ASSUME NEW o \in Orders, StaticRefusal(env) = None,
             OwnedIn(live, env) = {o}, env.total <= o.filled,
             orders = live \ {o}, e = Cancelled(env.id, o.remaining, "Replaced")
      PROVE  AuditInv'
  <2>1. ~Shadow!IsRejection
    BY <1>3, <1>7 DEF Shadow!IsRejection, Cancelled
  <2>2. /\ owned = {o} /\ out[1] = Shadow!Cancelled(env.id, o.remaining, "Replaced")
        /\ o.filled \in Nat /\ ~(env.total > o.filled)
    BY <1>1, <1>3, <1>7, SameOwned DEF Cancelled, Shadow!Cancelled, Orders
  <2>3. Shadow!CheckReplacement(o) /\ UNCHANGED <<ever, audit_seq>>
    <3> HIDE DEF owned
    <3> QED BY <1>2, <1>3, <1>4, <1>7, <2>1, <2>2 DEF Shadow!CheckReplace, owned
  <2>4. Shadow!Accept(live \ {o})
    BY <1>3, <1>7, <2>2, <2>3 DEF Shadow!CheckReplacement
  <2> QED BY <1>7, <2>3, <2>4, CheckAnswerKeepsAuditInv
<1> QED BY <1>6, <1>7 DEF ReplaceAnswered

\* check_command() reaches check_flow() with the mirror and the quantity that
\* the story begins with.
LEMMA CheckFlowKeepsAuditInv ==
  ASSUME AuditInv, pc = "done", UNCHANGED <<vars, env>>, FlowAnswered,
         Shadow!CheckCommand
  PROVE  AuditInv'
<1>1. ~Shadow!IsRejection
  BY DEF FlowAnswered
<1>2. PICK who, at, books, lefts, n :
        /\ Complete(who, at, books, lefts, n)
        /\ Begins(env, live, out, who, at[0], books[0], lefts[0])
  BY DEF FlowAnswered
<1> DEFINE start == [side |-> who.side, kind |-> who.kind, remaining |-> lefts[0],
                     i |-> at[0]]
           Goal  == /\ apc' = "flow" /\ flow' = start /\ live' = books[0]
                    /\ env.account = who.account /\ UNCHANGED <<ever, audit_seq>>
<1>3. Goal
  <2>1. CASE /\ env.cmd = "New" /\ StaticRefusal(env) = None
             /\ who = [account |-> env.account, side |-> env.side, kind |-> env.kind]
             /\ at[0] = 1 /\ books[0] = live /\ lefts[0] = env.qty
    <3>1. Shadow!CheckNew
      BY <2>1 DEF Shadow!CheckCommand, Shadow!CheckNew, Shadow!CheckCancel,
         Shadow!CheckReduce, Shadow!CheckReplace
    <3>2. Shadow!ExpectedStaticReject(env.qty, env.kind) = None
      BY <2>1 DEF StaticRefusal
    <3>3. /\ Shadow!CallCheckFlow(env.side, env.qty, env.kind, 1)
          /\ UNCHANGED <<live, ever, audit_seq>>
      BY <1>1, <3>1, <3>2 DEF Shadow!CheckNew
    <3> QED BY <2>1, <3>3 DEF Shadow!CallCheckFlow
  <2>2. ASSUME env.cmd = "Replace", env.total \in Nat, StaticRefusal(env) = None,
               NEW o \in Orders, OwnedIn(live, env) = {o}, env.total > o.filled,
               who = Replacement(env, o),
               at[0] = 2, books[0] = live \ {o}, lefts[0] = env.total - o.filled,
               1 \in DOMAIN out,
               out[1] = Cancelled(env.id, o.remaining, "Replaced")
        PROVE  Goal
    <3>1. Shadow!CheckReplace
      BY <2>2 DEF Shadow!CheckCommand, Shadow!CheckNew, Shadow!CheckCancel,
         Shadow!CheckReduce, Shadow!CheckReplace
    <3>2. Shadow!ReplaceStaticReject = None
      BY <2>2 DEF StaticRefusal, Shadow!ReplaceStaticReject, Shadow!PriceOk, PriceOk
    <3>3. Shadow!Owned(env.id, env.account) = {o}
      BY <2>2, SameOwned
    <3>4. /\ out # <<>> /\ out[1] = Shadow!Cancelled(env.id, o.remaining, "Replaced")
          /\ ~(env.total <= o.filled) /\ o.account = env.account
      <4>1. o.account = env.account
        BY <2>2 DEF OwnedIn
      <4> QED BY <2>2, <4>1 DEF Cancelled, Shadow!Cancelled, Orders
    <3>5. Shadow!CheckReplacement(o) /\ UNCHANGED <<ever, audit_seq>>
      BY <1>1, <3>1, <3>2, <3>3, <3>4 DEF Shadow!CheckReplace
    <3>6. /\ live' = live \ {o}
          /\ Shadow!CallCheckFlow(o.side, env.total - o.filled,
               [type |-> IF env.post_only THEN "PostOnly" ELSE "Gtc",
                price |-> env.price], 2)
      BY <3>4, <3>5 DEF Shadow!CheckReplacement
    <3> QED BY <2>2, <3>4, <3>5, <3>6 DEF Shadow!CallCheckFlow, Replacement
  <2> HIDE DEF Goal
  <2> QED BY <1>2, <2>1, <2>2 DEF Begins
<1>4. OnTrack'
  <2>1. Complete(who, at, books, lefts, n)'
    <3>1. UNCHANGED book /\ orders' = orders /\ next_seq' = next_seq /\ out' = out
      BY DEF vars, book
    <3>2. Issued' = Issued
      BY <3>1, SameBookSameIssued
    <3> QED BY <1>2, <1>3, <3>1, <3>2 DEF Complete, Ends, IdsTracked
  <2>2. 0 \in 0 .. n
    BY <1>2 DEF Complete, Told
  <2>3. env' = env
    OBVIOUS
  <2> QED BY <1>3, <2>1, <2>2, <2>3 DEF OnTrack
<1>5. live' \subseteq Orders
  BY <1>2, <1>3 DEF Complete, Told
<1>6. pc' = "done"
  BY DEF vars
<1> QED BY <1>3, <1>4, <1>5, <1>6
        DEF AuditInv, MirrorTypeOK, PostOnlyRests, InSubmit

\* What a submit() ends with.
LEMMA EndingsAreNoTrades ==
  ASSUME NEW who, NEW b, NEW left, NEW e, Ends(who, b, left, e)
  PROVE  e.event # "Trade"
<1>1. \/ e = Filled
      \/ \E qty, reason : e = Cancelled(None, qty, reason)
      \/ \E id, qty : e = Rested(id, qty)
  BY DEF Ends
<1>2. CASE e = Filled
  BY <1>2 DEF Filled
<1>3. CASE \E qty, reason : e = Cancelled(None, qty, reason)
  BY <1>3 DEF Cancelled
<1>4. CASE \E id, qty : e = Rested(id, qty)
  BY <1>4 DEF Rested
<1> QED BY <1>1, <1>2, <1>3, <1>4

\* The last event of a story is no trade, and every turn of it begins with one.
LEMMA WhereTheTradesAre ==
  ASSUME IsSequence(out), NEW who, NEW at, NEW books, NEW lefts, NEW n,
         Complete(who, at, books, lefts, n), NEW k \in 0 .. n
  PROVE  (at[k] <= Len(out) /\ out[at[k]].event = "Trade") <=> k # n
<1>1. CASE k = n
  <2>1. PICK e : e = out[Len(out)] /\ Ends(who, books[n], lefts[n], e)
    BY DEF Complete
  <2>2. e.event # "Trade"
    BY <2>1, EndingsAreNoTrades
  <2> QED BY <1>1, <2>1, <2>2 DEF Complete
<1>2. CASE k # n
  <2>1. n \in Nat /\ k \in 0 .. n - 1
    BY <1>2 DEF Complete, Told
  <2>2. Turn(out, who, at[k], books[k], lefts[k], at[k + 1], books[k + 1], lefts[k + 1])
    BY <2>1 DEF Complete, Told
  <2>3. PICK m, q : Trades(out, who, at[k], books[k], lefts[k], m, q)
    BY <2>2 DEF Turn
  <2>4. at[k] \in DOMAIN out /\ out[at[k]].event = "Trade"
    BY <2>3 DEF Trades, Trade
  <2>5. DOMAIN out = 1 .. Len(out)
    BY DEF IsSequence
  <2> QED BY <1>2, <2>4, <2>5
<1> QED BY <1>1, <1>2

\* A story stays the story while the audit reads it.
LEMMA SameStory ==
  ASSUME UNCHANGED <<vars, ever, audit_seq>>, NEW who, NEW at, NEW books,
         NEW lefts, NEW n, Complete(who, at, books, lefts, n)
  PROVE  Complete(who, at, books, lefts, n)'
<1>1. UNCHANGED book /\ orders' = orders /\ next_seq' = next_seq /\ out' = out
  BY DEF vars, book
<1>2. Issued' = Issued
  BY <1>1, SameBookSameIssued
<1> QED BY <1>1, <1>2 DEF Complete, Ends, IdsTracked

\* The locals of check_flow() after a trade of q, d events further.
LEMMA FlowAdvances ==
  ASSUME NEW side, NEW kind, NEW left, NEW i, NEW q, NEW d, NEW f, NEW g,
         f = [side |-> side, kind |-> kind, remaining |-> left, i |-> i],
         g = [f EXCEPT !.remaining = @ - q, !.i = @ + d]
  PROVE  g = [side |-> side, kind |-> kind, remaining |-> left - q, i |-> i + d]
OBVIOUS

\* check_flow() finds in the next trade what the engine did in this turn.
LEMMA CheckTradeKeepsAuditInv ==
  ASSUME EventInv, AuditInv, UNCHANGED <<vars, env>>, Shadow!CheckTrade
  PROVE  AuditInv'
<1>1. /\ apc = "flow" /\ pc = "done" /\ IsSequence(out) /\ live \subseteq Orders
      /\ Shadow!AtTrade
  BY DEF Shadow!CheckTrade, AuditInv, MirrorTypeOK, EventInv
<1>2. PICK who, at, books, lefts, n, k :
        /\ Complete(who, at, books, lefts, n)
        /\ k \in 0 .. n
        /\ env.account = who.account
        /\ live = books[k]
        /\ flow = [side |-> who.side, kind |-> who.kind, remaining |-> lefts[k],
                   i |-> at[k]]
  BY <1>1 DEF AuditInv, OnTrack
<1>3. /\ flow.side = who.side /\ flow.kind = who.kind /\ flow.remaining = lefts[k]
      /\ flow.i = at[k]
  BY <1>2
<1>4. k # n
  BY <1>1, <1>2, <1>3, WhereTheTradesAre DEF Shadow!AtTrade
<1>5. /\ n \in Nat /\ k \in 0 .. n - 1 /\ k \in Nat /\ k + 1 \in 0 .. n
      /\ lefts[k] \in Nat /\ at[k] \in Nat
  BY <1>2, <1>4 DEF Complete, Told
<1>6. PICK m \in Orders, q \in Nat :
        /\ Trades(out, who, at[k], live, lefts[k], m, q)
        /\ lefts[k + 1] = lefts[k] - q
        /\ \/ m.remaining = q /\ UsesUp(out, at[k], live, m, at[k + 1], books[k + 1])
           \/ m.remaining > q /\ UsesPart(at[k], live, m, q, at[k + 1], books[k + 1])
  BY <1>2, <1>5 DEF Complete, Told, Turn
<1>7. PICK t : t = out[at[k]] /\ t = Trade(who.side, m.id, m.price, q, m.remaining - q)
  BY <1>6 DEF Trades
<1>8. t.qty = q /\ t.maker_remaining = m.remaining - q
  BY <1>7 DEF Trade
<1>9. Shadow!Best(Opposite(flow.side)) = {m} /\ who \in Submitters
  <2>1. who \in Submitters /\ who.side \in Sides
    BY <1>2 DEF Complete, Submitters
  <2> QED BY <1>1, <1>3, <1>6, <2>1, MirrorHasMaker DEF Trades
<1>10. q = IF flow.remaining < m.remaining THEN flow.remaining ELSE m.remaining
  BY <1>3, <1>6 DEF Trades
<1>11. Shadow!TradeOk(t, m, q)
  <2>1. /\ flow.kind.type # "PostOnly" /\ flow.remaining > 0
        /\ Shadow!Crosses(flow.side, Shadow!Limit, m.price)
        /\ m.account # env.account
    BY <1>2, <1>3, <1>6
       DEF Trades, NextMaker, Meets, Shadow!Limit, Shadow!LimitOf, LimitOf,
           Shadow!Crosses, Crosses
  <2>2. t = Shadow!Trade(flow.side, m.id, m.price, q, m.remaining - q)
    BY <1>3, <1>7 DEF Shadow!Trade, Trade
  <2> QED BY <2>1, <2>2 DEF Shadow!TradeOk
<1>12. m.remaining \in Nat /\ m.remaining - q >= 0
  BY <1>6, <1>10, <1>3, <1>5 DEF Orders
<1>13. t.maker_remaining = 0 =>
         flow.i < Len(out) /\ out[flow.i + 1] = Shadow!MakerFilled(m.id)
  <2>1. t.maker_remaining = 0 => m.remaining = q
    BY <1>8, <1>12
  <2>2. DOMAIN out = 1 .. Len(out) /\ Len(out) \in Nat
    BY <1>1 DEF IsSequence
  <2>3. UsesUp(out, at[k], live, m, at[k + 1], books[k + 1]) =>
          flow.i < Len(out) /\ out[flow.i + 1] = Shadow!MakerFilled(m.id)
    BY <1>3, <1>5, <2>2 DEF UsesUp, MakerFilled, Shadow!MakerFilled
  <2> QED BY <1>6, <2>1, <2>3
<1> DEFINE step == [side |-> who.side, kind |-> who.kind, remaining |-> lefts[k + 1],
                    i |-> at[k + 1]]
<1>14. live' = books[k + 1] /\ flow' = step /\ UNCHANGED <<ever, audit_seq, apc>>
  <2>1. /\ \/ /\ t.maker_remaining = 0
              /\ live' = live \ {m}
              /\ flow' = [flow EXCEPT !.remaining = @ - q, !.i = @ + 2]
           \/ /\ t.maker_remaining > 0
              /\ live' = (live \ {m}) \cup {Shadow!FilledInPart(m, q)}
              /\ flow' = [flow EXCEPT !.remaining = @ - q, !.i = @ + 1]
        /\ UNCHANGED <<ever, audit_seq, apc>>
    <3>1. Shadow!Best(Shadow!Opposite(flow.side)) = {m}
      BY <1>9 DEF Opposite, Shadow!Opposite
    <3>2. out[flow.i] = t
      BY <1>3, <1>7
    <3> QED BY <1>8, <1>10, <1>11, <1>13, <3>1, <3>2 DEF Shadow!CheckTrade
  <2>2. /\ t.maker_remaining = 0 => m.remaining = q
        /\ t.maker_remaining > 0 => m.remaining > q
    BY <1>8, <1>12
  <2>3. CASE t.maker_remaining = 0
    <3>1. UsesUp(out, at[k], live, m, at[k + 1], books[k + 1])
      BY <1>6, <1>12, <2>2, <2>3
    <3>2. at[k + 1] = at[k] + 2 /\ books[k + 1] = live \ {m}
      BY <3>1 DEF UsesUp
    <3>3. /\ live' = live \ {m} /\ UNCHANGED <<ever, audit_seq, apc>>
          /\ flow' = [flow EXCEPT !.remaining = @ - q, !.i = @ + 2]
      BY <2>1, <2>3
    <3>4. flow' = step
      BY ONLY <1>2, <1>6, <3>2, <3>3, FlowAdvances
    <3> QED BY <3>2, <3>3, <3>4
  <2>4. CASE t.maker_remaining > 0
    <3>1. UsesPart(at[k], live, m, q, at[k + 1], books[k + 1])
      BY <1>6, <1>12, <2>2, <2>4
    <3>2. /\ at[k + 1] = at[k] + 1
          /\ books[k + 1] = (live \ {m}) \cup {Shadow!FilledInPart(m, q)}
      BY <3>1 DEF UsesPart
    <3>3. /\ live' = (live \ {m}) \cup {Shadow!FilledInPart(m, q)}
          /\ UNCHANGED <<ever, audit_seq, apc>>
          /\ flow' = [flow EXCEPT !.remaining = @ - q, !.i = @ + 1]
      BY <2>1, <2>4
    <3>4. flow' = step
      BY ONLY <1>2, <1>6, <3>2, <3>3, FlowAdvances
    <3> QED BY <3>2, <3>3, <3>4
  <2> QED BY <2>1, <2>3, <2>4
<1>15. Complete(who, at, books, lefts, n)'
  BY <1>2, <1>14, SameStory
<1>16. OnTrack'
  <2> HIDE DEF step
  <2>1. PICK k2 : k2 = k + 1
    OBVIOUS
  <2>2. /\ Complete(who, at, books, lefts, n)' /\ k2 \in 0 .. n
        /\ env'.account = who.account /\ live' = books[k2]
        /\ flow' = [side |-> who.side, kind |-> who.kind, remaining |-> lefts[k2],
                    i |-> at[k2]]
    BY <1>2, <1>5, <1>14, <1>15, <2>1 DEF step
  <2> QED BY <2>2 DEF OnTrack
<1>17. live' \subseteq Orders /\ pc' = "done" /\ apc' = "flow"
  BY <1>1, <1>2, <1>5, <1>14 DEF Complete, Told, vars
<1> QED BY <1>14, <1>16, <1>17 DEF AuditInv, MirrorTypeOK, PostOnlyRests, InSubmit

\* check_flow() understands what became of the remainder.
LEMMA CheckTerminalKeepsAuditInv ==
  ASSUME Inv, EventInv, AuditInv, UNCHANGED <<vars, env>>, Shadow!CheckTerminal
  PROVE  AuditInv'
<1>1. /\ apc = "flow" /\ pc = "done" /\ IsSequence(out) /\ live \subseteq Orders
      /\ ~Shadow!AtTrade /\ orders \subseteq Orders
      /\ ever \subseteq Slots \X Nat /\ audit_seq \in Nat
  BY DEF Shadow!CheckTerminal, AuditInv, MirrorTypeOK, EventInv, Inv, BookInv,
         BookTypeOK
<1>2. PICK who, at, books, lefts, n, k :
        /\ Complete(who, at, books, lefts, n)
        /\ k \in 0 .. n
        /\ env.account = who.account
        /\ live = books[k]
        /\ flow = [side |-> who.side, kind |-> who.kind, remaining |-> lefts[k],
                   i |-> at[k]]
  BY <1>1 DEF AuditInv, OnTrack
<1>3. /\ flow.side = who.side /\ flow.kind = who.kind /\ flow.remaining = lefts[k]
      /\ flow.i = at[k]
  BY <1>2
<1>4. k = n
  BY <1>1, <1>2, <1>3, WhereTheTradesAre DEF Shadow!AtTrade
<1>5. PICK left : left = flow.remaining
  OBVIOUS
<1>6. /\ flow.i = Len(out) /\ who \in Submitters /\ who.side \in Sides
      /\ Ends(who, live, left, out[Len(out)])
  BY <1>2, <1>3, <1>4, <1>5 DEF Complete, Submitters
<1>7. PICK e : e = out[flow.i] /\ Ends(who, live, left, e)
  BY <1>6
<1>8. PICK next : next = Shadow!Crossing(flow.side, Shadow!Limit)
  OBVIOUS
<1>9. next = Shadow!Crossing(who.side, LimitOf(who.side, who.kind))
  BY <1>3, <1>8 DEF Shadow!Limit, Shadow!LimitOf, LimitOf
<1> DEFINE filled == e = Filled /\ left = 0
           rested == e.event = "Rested" /\ Shadow!RestedOk(e, next)
           cancelled == e.event = "Cancelled" /\ Shadow!CancelledOk(e, next)
<1>10. \/ /\ filled \/ cancelled
          /\ Shadow!Accept(live)
          /\ UNCHANGED <<ever, audit_seq>>
       \/ rested /\ Shadow!Insert(e.id)
       \/ ~(filled \/ cancelled \/ rested)
  BY <1>5, <1>6, <1>7, <1>8 DEF Shadow!CheckTerminal, Filled, Shadow!Filled
<1>11. CASE orders = live /\ IdsTracked /\ ~(e.event = "Rested")
            /\ (filled \/ cancelled)
  <2>1. Shadow!Accept(orders) /\ UNCHANGED <<ever, audit_seq>>
    BY <1>10, <1>11
  <2> QED BY <1>1, <1>11, <2>1, CheckAnswerKeepsAuditInv
<1>12. ASSUME e = Filled, left = 0, orders = live, IdsTracked
       PROVE  AuditInv'
  <2>1. ~(e.event = "Rested")
    BY <1>12 DEF Filled
  <2> QED BY <1>11, <1>12, <2>1
<1>13. ASSUME left > 0, orders = live, IdsTracked, NEW reason,
              e = Cancelled(None, left, reason),
              \/ reason = "Unfilled" /\ ~Rests(who.kind) /\ NoMaker(who, live)
              \/ reason = "SelfTrade"
                 /\ \E m : NextMaker(who, live, m) /\ m.account = who.account
              \/ /\ reason = "CapacityExhausted"
                 /\ who.kind.type = "Gtc" /\ NoMaker(who, live)
       PROVE  AuditInv'
  <2>1. /\ e.event = "Cancelled" /\ e.id = None /\ e.qty = left /\ e.reason = reason
    BY <1>13 DEF Cancelled
  <2>2. NoMaker(who, live) => next = {}
    BY <1>9, MirrorHasNoMaker
  <2>3. \A m : NextMaker(who, live, m) => next = {m}
    BY <1>1, <1>6, <1>9, MirrorHasMaker
  <2>4. Shadow!CancelledOk(e, next)
    <3>1. Rests(who.kind) = Shadow!Rests(flow.kind)
      BY <1>3 DEF Rests, Shadow!Rests
    <3>2. (\E m : NextMaker(who, live, m) /\ m.account = who.account)
            => \E o \in next : o.account = env.account
      BY <1>2, <2>3
    <3> QED BY <1>3, <1>5, <1>13, <2>1, <2>2, <3>1, <3>2 DEF Shadow!CancelledOk
  <2> QED BY <1>11, <1>13, <2>1, <2>4
<1>14. ASSUME left > 0, Rests(who.kind), NoMaker(who, live),
              NEW id \in Slots \X Nat, e = Rested(id, left),
              GenerationOf(id) % 2 = 1, id \notin ever,
              orders = live \cup
                {[id |-> id, account |-> who.account, side |-> who.side,
                  price |-> LimitOf(who.side, who.kind), remaining |-> left,
                  filled |-> 0, seq |-> audit_seq]},
              next_seq = audit_seq + 1, Issued = ever \cup {id}
       PROVE  AuditInv'
  <2>1. e.event = "Rested" /\ e.id = id /\ e.qty = left
    BY <1>14 DEF Rested
  <2>2. next = {}
    BY <1>9, <1>14, MirrorHasNoMaker
  <2>3. Shadow!RestedOk(e, next)
    BY <1>3, <1>5, <1>14, <2>1, <2>2
       DEF Shadow!RestedOk, Rests, Shadow!Rests, GenerationOf, Shadow!GenerationOf
  <2>4. ~filled /\ ~cancelled
    BY <2>1 DEF Filled
  <2>5. Shadow!Insert(id)
    BY <1>10, <2>1, <2>3, <2>4
  <2>6. Shadow!Resting(id) =
          [id |-> id, account |-> who.account, side |-> who.side,
           price |-> LimitOf(who.side, who.kind), remaining |-> left,
           filled |-> 0, seq |-> audit_seq]
    BY <1>2, <1>3, <1>5 DEF Shadow!Resting, Shadow!Limit, Shadow!LimitOf, LimitOf
  <2>7. /\ Shadow!Accept(orders) /\ ever' = ever \cup {id}
        /\ audit_seq' = audit_seq + 1
    BY <1>14, <2>5, <2>6 DEF Shadow!Insert
  <2>8. ever' \subseteq Slots \X Nat /\ audit_seq' \in Nat
    BY <1>1, <2>7
  <2> QED BY <1>1, <1>14, <2>7, <2>8, AcceptKeepsAuditInv
<1> HIDE DEF filled, rested, cancelled
<1> QED BY <1>7, <1>12, <1>13, <1>14 DEF Ends

\* check_not_crossed() sees the engine's book.
LEMMA CheckNotCrossedKeepsAuditInv ==
  ASSUME Inv, AuditInv, UNCHANGED <<vars, env>>, Shadow!CheckNotCrossed
  PROVE  AuditInv'
<1>1. apc = "book" /\ Tracks /\ pc = "done" /\ flow = None
  BY DEF Shadow!CheckNotCrossed, AuditInv, MirrorTypeOK
<1>2. Shadow!NotCrossed
  <2>1. /\ Shadow!Best("Buy") \subseteq OrdersOn("Buy")
        /\ Shadow!Best("Sell") \subseteq OrdersOn("Sell")
    BY <1>1 DEF Shadow!Best, OrdersOn, Tracks
  <2>2. BookNotCrossed
    BY DEF Inv, BookInv
  <2> QED BY <2>1, <2>2 DEF Shadow!NotCrossed, BookNotCrossed, OrdersOn
<1>3. apc' = "ok" /\ UNCHANGED <<live, ever, audit_seq, flow>>
  BY <1>2 DEF Shadow!CheckNotCrossed
<1>4. Tracks'
  <2>1. UNCHANGED book
    BY DEF vars, book
  <2>2. Issued' = Issued /\ next_seq' = next_seq /\ orders' = orders
    BY <2>1, SameBookSameIssued
  <2> QED BY <1>1, <1>3, <2>2 DEF Tracks, IdsTracked
<1>5. pc' = "done"
  BY <1>1 DEF vars
<1>6. MirrorTypeOK'
  BY <1>1, <1>3, <1>5 DEF AuditInv, MirrorTypeOK
<1> QED BY <1>3, <1>4, <1>5, <1>6 DEF AuditInv, PostOnlyRests, InSubmit

\* One step of check(), whatever the command was.
LEMMA CheckKeepsAuditInv ==
  ASSUME Inv, EventInv, AuditInv, Check
  PROVE  AuditInv'
<1>1. pc = "done" /\ UNCHANGED <<vars, env>>
  BY DEF Check
<1>2. CASE Shadow!CheckCommand
  <2>1. Answered
    BY <1>1, <1>2 DEF AuditInv, Shadow!CheckCommand, Shadow!CheckNew,
       Shadow!CheckCancel, Shadow!CheckReduce, Shadow!CheckReplace
  <2>2. CASE FlowAnswered
    BY <1>1, <1>2, <2>2, CheckFlowKeepsAuditInv
  <2>3. ASSUME IdsTracked, NEW e, out = <<e>>, AnsweredAtOnce(env, live, orders, e)
        PROVE  AuditInv'
    BY <1>1, <1>2, <2>3, CheckRefusedNew, CheckCancelAnswer, CheckReduceAnswer,
       CheckReplaceAnswer DEF AnsweredAtOnce
  <2> QED BY <2>1, <2>2, <2>3 DEF Answered
<1> QED BY <1>1, <1>2, CheckTradeKeepsAuditInv, CheckTerminalKeepsAuditInv,
        CheckNotCrossedKeepsAuditInv DEF Check, Shadow!Checking

----------------------------------------------------------------------------
(***************************************************************************)
(* The theorems                                                            *)
(***************************************************************************)
\* The verdict is in, and the mirror is the book.
LEMMA ClearKeepsAuditInv ==
  ASSUME AuditInv, Clear
  PROVE  AuditInv'
<1>1. /\ apc = "ok" /\ apc' = "idle" /\ pc' = "ready"
      /\ UNCHANGED <<live, ever, audit_seq, flow, book>>
  BY DEF Clear, Drain, Shadow!Return
<1>2. Tracks /\ flow = None
  BY <1>1 DEF AuditInv, MirrorTypeOK
<1>3. Tracks'
  <2>1. Issued' = Issued /\ next_seq' = next_seq /\ orders' = orders
    BY <1>1, SameBookSameIssued
  <2> QED BY <1>1, <1>2, <2>1 DEF Tracks, IdsTracked
<1>4. MirrorTypeOK'
  BY <1>1, <1>2 DEF AuditInv, MirrorTypeOK
<1> QED BY <1>1, <1>3, <1>4 DEF AuditInv, PostOnlyRests, InSubmit

\* What the audit has to follow does not change by itself.
LEMMA AnsweredUnchanged ==
  ASSUME UNCHANGED auditedVars
  PROVE  Answered' = Answered /\ OnTrack' = OnTrack
<1>1. /\ UNCHANGED <<vars, book, pc, taker, out, env, live, ever, audit_seq, apc, flow>>
      /\ UNCHANGED <<generations, free, retired, orders, next_seq>>
  BY DEF auditedVars, auditVars, vars, book
<1>2. Issued' = Issued
  BY <1>1, SameBookSameIssued
<1>3. IdsTracked' = IdsTracked
  BY <1>1, <1>2 DEF IdsTracked
<1>4. Answered' = Answered
  BY <1>1, <1>2, <1>3 DEF Answered, FlowAnswered, Complete, Ends, Shadow!IsRejection
<1>5. OnTrack' = OnTrack
  BY <1>1, <1>2, <1>3 DEF OnTrack, Complete, Ends
<1> QED BY <1>4, <1>5

\* Nor does a step that changes nothing disturb the invariant.
LEMMA StutterKeepsAuditInv ==
  ASSUME AuditInv, UNCHANGED auditedVars
  PROVE  AuditInv'
<1>1. /\ UNCHANGED <<vars, book, pc, taker, out, env, live, ever, audit_seq, apc, flow>>
      /\ UNCHANGED <<generations, free, retired, orders, next_seq>>
  BY DEF auditedVars, auditVars, vars, book
<1>2. Issued' = Issued
  BY <1>1, SameBookSameIssued
<1>3. IdsTracked' = IdsTracked
  BY <1>1, <1>2 DEF IdsTracked
<1>4. Tracks' = Tracks
  BY <1>1, <1>3 DEF Tracks
<1>5. Answered' = Answered /\ OnTrack' = OnTrack
  BY AnsweredUnchanged
<1>6. Submitting' = Submitting
  BY <1>1, <1>3 DEF Submitting, Follows, Submitter
<1>7. PostOnlyRests' = PostOnlyRests
  BY <1>1 DEF PostOnlyRests, Marketable, Limit, OrdersOn, Best
<1>8. InSubmit' = InSubmit /\ MirrorTypeOK' = MirrorTypeOK
  BY <1>1 DEF InSubmit, MirrorTypeOK
<1> QED BY <1>1, <1>4, <1>5, <1>6, <1>7, <1>8 DEF AuditInv

\* Whatever the audit does, the engine beside it takes a step of its own or none.
LEMMA AuditedNextIsNext == [AuditedNext]_auditedVars => [Next]_vars
<1>1. Send => Command
  BY DEF Send, Command
<1>2. Process => Running
  BY DEF Process
<1>3. Check => UNCHANGED vars
  BY DEF Check
<1>4. Clear => Drain
  BY DEF Clear
<1>5. UNCHANGED auditedVars => UNCHANGED vars
  BY DEF auditedVars
<1> QED BY <1>1, <1>2, <1>3, <1>4, <1>5 DEF AuditedNext, Next

\* An empty mirror beside an empty book.
LEMMA AuditedInitInv == AuditedInit => Inv /\ EventInv /\ AuditInv
<1> SUFFICES ASSUME AuditedInit PROVE Inv /\ EventInv /\ AuditInv
  OBVIOUS
<1>1. Inv /\ EventInv
  BY InitInv, InitEventInv DEF AuditedInit
<1>2. /\ live = {} /\ ever = {} /\ audit_seq = 0 /\ apc = "idle" /\ flow = None
      /\ orders = {} /\ next_seq = 0 /\ pc = "ready"
  BY DEF AuditedInit, Init, Shadow!Init
<1>3. Issued = {}
  <2>1. Lifecycle!Init /\ Lifecycle!OrderIds = Slots \X LiveGenerations
    BY <1>1, InitStatuses, LifecycleIds DEF AuditedInit
  <2>2. Statuses = [id \in Slots \X LiveGenerations |-> "unissued"]
    BY <2>1 DEF Lifecycle!Init
  <2>3. ASSUME NEW id \in Slots \X LiveGenerations
        PROVE  Status(id) = "unissued"
    <3>1. Statuses[id] = Status(id)
      BY <2>3 DEF Statuses
    <3> QED BY <2>2, <3>1
  <2> QED BY <2>3 DEF Issued
<1>4. Tracks /\ MirrorTypeOK
  BY <1>2, <1>3 DEF Tracks, IdsTracked, MirrorTypeOK
<1> QED BY <1>1, <1>2, <1>4 DEF AuditInv, PostOnlyRests, InSubmit

\* The invariant is inductive, together with the engine's own.
LEMMA NextKeepsAuditInv ==
  ASSUME Inv, EventInv, AuditInv, [AuditedNext]_auditedVars
  PROVE  Inv' /\ EventInv' /\ AuditInv'
<1>1. Inv' /\ EventInv'
  BY AuditedNextIsNext, NextKeepsInv, NextKeepsEventInv
<1>2. CASE Process
  BY <1>1, <1>2, SubmitKeepsAuditInv, FillKeepsAuditInv, FinishKeepsAuditInv
     DEF Process, Running
<1> QED BY <1>1, <1>2, SendKeepsAuditInv, CheckKeepsAuditInv, ClearKeepsAuditInv,
        StutterKeepsAuditInv DEF AuditedNext

\* The invariant about the engine and its audit holds in every reachable state.
LEMMA AuditInvHolds == AuditedSpec => [](Inv /\ EventInv /\ AuditInv)
<1>1. Inv /\ EventInv /\ AuditInv /\ [AuditedNext]_auditedVars
        => (Inv /\ EventInv /\ AuditInv)'
  BY NextKeepsAuditInv
<1> QED BY <1>1, AuditedInitInv, PTL DEF AuditedSpec

\* check_flow() stands at one of the events.
LEMMA FlowTyped ==
  ASSUME EventInv, AuditInv, apc = "flow"
  PROVE  /\ flow.kind \in Kinds /\ flow.side \in Sides /\ flow.remaining \in Nat
         /\ flow.i \in 1 .. Len(out) + 1
<1>1. PICK who, at, books, lefts, n, k :
        /\ Complete(who, at, books, lefts, n)
        /\ k \in 0 .. n
        /\ flow = [side |-> who.side, kind |-> who.kind, remaining |-> lefts[k],
                   i |-> at[k]]
  BY DEF AuditInv, OnTrack
<1>2. /\ flow.side = who.side /\ flow.kind = who.kind /\ flow.remaining = lefts[k]
      /\ flow.i = at[k]
  BY <1>1
<1>3. /\ who \in Submitters /\ lefts[k] \in Nat /\ at[k] \in Nat \ {0}
      /\ at[n] = Len(out) /\ n \in Nat
  BY <1>1 DEF Complete, Told
<1>4. IsSequence(out) /\ Len(out) \in Nat
  BY DEF EventInv, IsSequence
<1>5. at[k] <= Len(out)
  <2>1. CASE k = n
    BY <1>3, <1>4, <2>1
  <2>2. CASE k # n
    BY <1>1, <1>4, <2>2, WhereTheTradesAre
  <2> QED BY <2>1, <2>2
<1> QED BY <1>2, <1>3, <1>4, <1>5 DEF Submitters

\* The audit's variables have their types: whatever the events, the mirror is a
\* set of orders, and check_flow() never reads beyond the events it was given.
THEOREM AuditTypesHold == AuditedSpec => []AuditTypeOK
<1>1. EventInv /\ AuditInv => AuditTypeOK
  BY FlowTyped DEF AuditInv, MirrorTypeOK, AuditTypeOK
<1> QED BY <1>1, AuditInvHolds, PTL

\* check() returns Ok for every command in every state of the book: what the
\* audit takes for a fault, the engine never does.
THEOREM NoAlarmIsFalse == AuditedSpec => []NoFalseAlarm
<1>1. AuditInv => NoFalseAlarm
  BY DEF AuditInv, MirrorTypeOK, NoFalseAlarm
<1> QED BY <1>1, AuditInvHolds, PTL

\* The mirror that the audit builds from the events alone is the engine's book,
\* whenever check() has returned.
THEOREM MirrorTracksTheBook == AuditedSpec => []MirrorIsTheBook
<1>1. AuditInv => MirrorIsTheBook
  BY DEF AuditInv, Tracks, IdsTracked, MirrorIsTheBook
<1> QED BY <1>1, AuditInvHolds, PTL

\* The ids that the audit remembers are those the engine has given out, so that
\* it sees a second use of any of them.
THEOREM EverTracksTheIds == AuditedSpec => []EverIsIssued
<1>1. AuditInv => EverIsIssued
  BY DEF AuditInv, Tracks, IdsTracked, Issued, EverIsIssued
<1> QED BY <1>1, AuditInvHolds, PTL

----------------------------------------------------------------------------
(***************************************************************************)
(* The faults of FaultyStream                                              *)
(***************************************************************************)
\* The events of a sequence.
Said(s) == {s[i] : i \in DOMAIN s}

\* A sequence is one of its own events.
LEMMA SequenceFacts ==
  ASSUME NEW s, IsSequence(s)
  PROVE  /\ Len(s) \in Nat /\ DOMAIN s = 1 .. Len(s)
         /\ s \in Seq(Said(s))
<1>1. PICK S : s \in Seq(S)
  BY DEF IsSequence
<1>2. Len(s) \in Nat /\ s \in [1 .. Len(s) -> S] /\ DOMAIN s = 1 .. Len(s)
  BY <1>1, LenProperties
<1>3. PICK n \in Nat : n = Len(s) /\ s \in [1 .. n -> S]
  BY <1>2
<1>4. s \in [1 .. n -> Said(s)]
  BY <1>3 DEF Said
<1>5. s \in Seq(Said(s))
  BY <1>3, <1>4
<1> QED BY <1>2, <1>5

\* Two sequences with the same events are the same.
LEMMA SameEvents ==
  ASSUME NEW s, NEW t, IsSequence(s), IsSequence(t), Len(s) = Len(t),
         \A i \in 1 .. Len(s) : s[i] = t[i]
  PROVE  s = t
<1>1. PICK S, T : s \in Seq(S) /\ t \in Seq(T)
  BY DEF IsSequence
<1>2. s \in Seq(S \cup T) /\ t \in Seq(S \cup T)
  BY <1>1
<1> QED BY <1>2, SeqEqual

\* A sequence without events.
LEMMA EmptySequence ==
  ASSUME NEW s, IsSequence(s), Len(s) = 0
  PROVE  s = <<>>
<1>1. PICK S : s \in Seq(S)
  BY DEF IsSequence
<1> QED BY <1>1, EmptySeq

\* Up to their last events, two sequences are the same.
LEMMA SameFront ==
  ASSUME NEW s, NEW t, IsSequence(s), IsSequence(t), Len(s) = Len(t),
         Len(s) >= 1, \A i \in 1 .. Len(s) - 1 : s[i] = t[i]
  PROVE  Front(s) = Front(t)
<1>1. PICK S, T : s \in Seq(S) /\ t \in Seq(T)
  BY DEF IsSequence
<1>2. s \in Seq(S \cup T) /\ t \in Seq(S \cup T) /\ s # <<>> /\ t # <<>>
  BY <1>1
<1>3. PICK a, b : a = Front(s) /\ b = Front(t)
  OBVIOUS
<1>4. /\ a \in Seq(S \cup T) /\ Len(a) = Len(s) - 1
      /\ \A i \in 1 .. Len(s) - 1 : a[i] = s[i]
  BY <1>2, <1>3, FrontLast
<1>5. /\ b \in Seq(S \cup T) /\ Len(b) = Len(t) - 1
      /\ \A i \in 1 .. Len(t) - 1 : b[i] = t[i]
  BY <1>2, <1>3, FrontLast
<1>6. a = b
  BY <1>4, <1>5, SeqEqual
<1> QED BY <1>3, <1>6

\* A part of a sequence.
LEMMA PartOfSequence ==
  ASSUME NEW S, NEW s \in Seq(S), NEW i \in 1 .. Len(s) + 1, NEW j \in 0 .. Len(s)
  PROVE  /\ SubSeq(s, i, j) \in Seq(S)
         /\ Len(SubSeq(s, i, j)) = IF i <= j THEN j - i + 1 ELSE 0
<1>1. i \in Int /\ j \in Int /\ \A k \in i .. j : s[k] \in S
  BY LenProperties, ElementOfSeq
<1> QED BY <1>1, SubSeqProperties

\* An event that is lost makes the list shorter, and adds nothing to it.
LEMMA LostFacts ==
  ASSUME NEW s, IsSequence(s), NEW t \in Lost(s)
  PROVE  t \in Seq(Said(s)) /\ Len(t) = Len(s) - 1
<1>1. PICK S : S = Said(s)
  OBVIOUS
<1>2. /\ Len(s) \in Nat /\ DOMAIN s = 1 .. Len(s) /\ s \in Seq(S)
  BY <1>1, SequenceFacts
<1>3. PICK i \in 1 .. Len(s) : t = RemoveAt(s, i)
  BY <1>2 DEF Lost
<1>4. PICK a, b : a = SubSeq(s, 1, i - 1) /\ b = SubSeq(s, i + 1, Len(s))
  OBVIOUS
<1>5. a \in Seq(S) /\ Len(a) = i - 1
  <2>1. 1 \in 1 .. Len(s) + 1 /\ i - 1 \in 0 .. Len(s)
    BY <1>2, <1>3
  <2>2. Len(a) = IF 1 <= i - 1 THEN i - 1 - 1 + 1 ELSE 0
    BY <1>2, <1>4, <2>1, PartOfSequence
  <2> QED BY <1>2, <1>3, <1>4, <2>1, <2>2, PartOfSequence
<1>6. b \in Seq(S) /\ Len(b) = Len(s) - i
  <2>1. i + 1 \in 1 .. Len(s) + 1 /\ Len(s) \in 0 .. Len(s)
    BY <1>2, <1>3
  <2>2. /\ b \in Seq(S)
        /\ Len(b) = IF i + 1 <= Len(s) THEN Len(s) - (i + 1) + 1 ELSE 0
    BY <1>2, <1>4, <2>1, PartOfSequence
  <2>3. PICK n \in Nat : n = Len(s) /\ i \in 1 .. n
    BY <1>2
  <2>4. (IF i + 1 <= n THEN n - (i + 1) + 1 ELSE 0) = n - i
    BY ONLY <2>3
  <2> QED BY <2>2, <2>3, <2>4
<1>7. t = a \o b
  BY <1>3, <1>4 DEF RemoveAt
<1>8. t \in Seq(S) /\ Len(t) = Len(a) + Len(b)
  BY <1>5, <1>6, <1>7, ConcatProperties
<1> QED BY <1>1, <1>2, <1>3, <1>5, <1>6, <1>8

\* An event that is emitted twice makes it longer, and adds nothing either.
LEMMA RepeatedFacts ==
  ASSUME NEW s, IsSequence(s), NEW t \in Repeated(s)
  PROVE  t \in Seq(Said(s)) /\ Len(t) = Len(s) + 1
<1>1. PICK S : S = Said(s)
  OBVIOUS
<1>2. /\ Len(s) \in Nat /\ DOMAIN s = 1 .. Len(s) /\ s \in Seq(S)
  BY <1>1, SequenceFacts
<1>3. PICK i \in 1 .. Len(s) : t = InsertAt(s, i, s[i])
  BY <1>2 DEF Repeated
<1>4. PICK a, b, c : /\ a = SubSeq(s, 1, i - 1) /\ b = SubSeq(s, i, Len(s))
                     /\ c = <<s[i]>>
  OBVIOUS
<1>5. a \in Seq(S) /\ Len(a) = i - 1
  <2>1. 1 \in 1 .. Len(s) + 1 /\ i - 1 \in 0 .. Len(s)
    BY <1>2, <1>3
  <2>2. Len(a) = IF 1 <= i - 1 THEN i - 1 - 1 + 1 ELSE 0
    BY <1>2, <1>4, <2>1, PartOfSequence
  <2> QED BY <1>2, <1>3, <1>4, <2>1, <2>2, PartOfSequence
<1>6. b \in Seq(S) /\ Len(b) = Len(s) - i + 1
  <2>1. i \in 1 .. Len(s) + 1 /\ Len(s) \in 0 .. Len(s)
    BY <1>2, <1>3
  <2>2. Len(b) = IF i <= Len(s) THEN Len(s) - i + 1 ELSE 0
    BY <1>2, <1>4, <2>1, PartOfSequence
  <2> QED BY <1>2, <1>3, <1>4, <2>1, <2>2, PartOfSequence
<1>7. c \in Seq(S) /\ Len(c) = 1
  <2>1. s[i] \in S
    BY <1>1, <1>2 DEF Said
  <2> QED BY <1>4, <2>1
<1>8. t = (a \o c) \o b
  BY <1>3, <1>4 DEF InsertAt
<1>9. a \o c \in Seq(S) /\ Len(a \o c) = i
  <2>1. a \o c \in Seq(S) /\ Len(a \o c) = Len(a) + Len(c)
    BY <1>5, <1>7, ConcatProperties
  <2>2. i - 1 + 1 = i
    BY <1>2
  <2> QED BY <1>5, <1>7, <2>1, <2>2
<1>10. t \in Seq(S) /\ Len(t) = i + Len(b)
  BY <1>6, <1>8, <1>9, ConcatProperties
<1> QED BY <1>1, <1>2, <1>3, <1>6, <1>10

\* The elements of a sequence over its own values.
LEMMA AddsNothing ==
  ASSUME NEW s, NEW t \in Seq(Said(s))
  PROVE  IsSequence(t) /\ \A j \in DOMAIN t : \E i \in DOMAIN s : t[j] = s[i]
<1>1. PICK S : S = Said(s) /\ t \in Seq(S)
  OBVIOUS
<1>2. \A j \in DOMAIN t : t[j] \in S
  BY <1>1, LenProperties, ElementOfSeq
<1> QED BY <1>1, <1>2 DEF IsSequence, Said

\* An event that is changed leaves the length and the others as they are.
Changed(s, i, e) == [s EXCEPT ![i] = e]

LEMMA ChangedFacts ==
  ASSUME NEW s, IsSequence(s), NEW i \in DOMAIN s, NEW e
  PROVE  /\ IsSequence(Changed(s, i, e))
         /\ Len(Changed(s, i, e)) = Len(s)
         /\ Changed(s, i, e)[i] = e
         /\ \A j \in 1 .. Len(s) : j # i => Changed(s, i, e)[j] = s[j]
<1>1. PICK S : s \in Seq(S)
  BY DEF IsSequence
<1>2. s \in Seq(S \cup {e}) /\ DOMAIN s = 1 .. Len(s) /\ i \in 1 .. Len(s)
  BY <1>1, SequenceFacts
<1> DEFINE t == [s EXCEPT ![i] = e]
<1>3. /\ t \in Seq(S \cup {e}) /\ Len(t) = Len(s)
      /\ \A j \in 1 .. Len(s) : t[j] = IF j = i THEN e ELSE s[j]
  BY <1>2, ExceptSeq
<1> QED BY <1>2, <1>3 DEF IsSequence, Changed

\* Two events that change places do not leave all but the last as they are.
LEMMA SwappedFacts ==
  ASSUME NEW s, IsSequence(s), NEW t \in Swapped(s)
  PROVE  /\ IsSequence(t) /\ Len(t) = Len(s)
         /\ (\A j \in 1 .. Len(s) - 1 : t[j] = s[j]) => t = s
<1>1. Len(s) \in Nat /\ DOMAIN s = 1 .. Len(s)
  BY SequenceFacts
<1>2. PICK i \in 1 .. Len(s) - 1 :
        t = [s EXCEPT ![i] = s[i + 1], ![i + 1] = s[i]]
  BY DEF Swapped
<1>3. i \in DOMAIN s /\ i + 1 \in DOMAIN s /\ i # i + 1
  BY <1>1, <1>2
<1>4. PICK u : u = Changed(s, i, s[i + 1])
  OBVIOUS
<1>5. /\ IsSequence(u) /\ Len(u) = Len(s) /\ u[i] = s[i + 1]
      /\ \A j \in 1 .. Len(s) : j # i => u[j] = s[j]
  BY <1>3, <1>4, ChangedFacts
<1>6. t = Changed(u, i + 1, s[i])
  BY <1>2, <1>4 DEF Changed
<1>7. i + 1 \in DOMAIN u
  BY <1>1, <1>3, <1>5, SequenceFacts
<1>8. /\ IsSequence(t) /\ Len(t) = Len(s) /\ t[i + 1] = s[i]
      /\ \A j \in 1 .. Len(s) : j # i + 1 => t[j] = u[j]
  BY <1>5, <1>6, <1>7, ChangedFacts
<1>9. ASSUME \A j \in 1 .. Len(s) - 1 : t[j] = s[j]
      PROVE  t = s
  <2>1. t[i] = s[i + 1] /\ t[i] = s[i]
    BY <1>1, <1>2, <1>3, <1>5, <1>8, <1>9
  <2>2. \A j \in 1 .. Len(s) : t[j] = s[j]
    BY <1>5, <1>8, <2>1
  <2> QED BY <1>8, <2>2, SameEvents
<1> QED BY <1>8, <1>9

\* A fault makes the list another one.  If the length is another, the events
\* are those that the engine emitted; if only the last event is another, it is
\* the engine's with another value in a field, or another ending.
LEMMA FaultFacts ==
  ASSUME NEW s, IsSequence(s), NEW t \in Faulty(s)
  PROVE  /\ t # s /\ IsSequence(t)
         /\ Len(t) # Len(s) => \A j \in DOMAIN t : \E i \in DOMAIN s : t[j] = s[i]
         /\ Len(t) = Len(s) /\ (\A j \in 1 .. Len(s) - 1 : t[j] = s[j])
              => t[Len(s)] \in Endings \cup Altered(s[Len(s)])
<1>1. Len(s) \in Nat /\ DOMAIN s = 1 .. Len(s) /\ t # s
  BY SequenceFacts DEF Faulty
<1>2. ASSUME t \in Lost(s) \cup Repeated(s)
      PROVE  /\ IsSequence(t) /\ Len(t) # Len(s)
             /\ \A j \in DOMAIN t : \E i \in DOMAIN s : t[j] = s[i]
  BY <1>1, <1>2, LostFacts, RepeatedFacts, AddsNothing
<1>3. ASSUME NEW i \in DOMAIN s, NEW e \in Altered(s[i]), t = Changed(s, i, e)
      PROVE  /\ IsSequence(t) /\ Len(t) = Len(s)
             /\ (\A j \in 1 .. Len(s) - 1 : t[j] = s[j])
                  => t[Len(s)] \in Altered(s[Len(s)])
  <2>1. /\ IsSequence(t) /\ Len(t) = Len(s) /\ t[i] = e
        /\ \A j \in 1 .. Len(s) : j # i => t[j] = s[j]
    BY <1>3, ChangedFacts
  <2>2. CASE i = Len(s)
    BY <1>3, <2>1, <2>2
  <2>3. ASSUME i # Len(s), \A j \in 1 .. Len(s) - 1 : t[j] = s[j]
        PROVE  FALSE
    <3>1. \A j \in 1 .. Len(s) : t[j] = s[j]
      BY <1>1, <2>1, <2>3
    <3> QED BY <1>1, <2>1, <3>1, SameEvents
  <2> QED BY <2>1, <2>2, <2>3
<1>4. ASSUME NEW e \in Endings, t = Changed(s, Len(s), e)
      PROVE  IsSequence(t) /\ Len(t) = Len(s) /\ t[Len(s)] \in Endings
  <2>1. CASE Len(s) = 0
    <3>1. s = <<>>
      BY <2>1, EmptySequence
    <3>2. t = s
      BY <1>4, <3>1 DEF Changed
    <3> QED BY <1>1, <3>2
  <2>2. CASE Len(s) # 0
    <3>1. Len(s) \in DOMAIN s
      BY <1>1, <2>2
    <3> QED BY <1>4, <3>1, ChangedFacts
  <2> QED BY <2>1, <2>2
<1>5. \/ t \in Lost(s) \cup Repeated(s)
      \/ t \in Swapped(s)
      \/ \E i \in DOMAIN s : \E e \in Altered(s[i]) : t = Changed(s, i, e)
      \/ \E e \in Endings : t = Changed(s, Len(s), e)
  BY DEF Faulty, AlteredOnce, OtherEnding, Changed
<1> QED BY <1>1, <1>2, <1>3, <1>4, <1>5, SwappedFacts

\* The events that are not trades.
Shaped(x) ==
  \/ x = Filled
  \/ \E id, qty : x = Rested(id, qty)
  \/ \E id, qty, reason : x = Cancelled(id, qty, reason)
  \/ \E reason : x = Rejected(reason)

LEMMA EndingFacts ==
  ASSUME NEW x \in Endings
  PROVE  /\ Shaped(x) /\ x.event # "Trade"
         /\ \A id, qty : x # Cancelled(id, qty, "Replaced")
<1>1. CASE x = Filled
  BY <1>1 DEF Shaped, Filled, Cancelled
<1>2. ASSUME NEW id, NEW qty, x = Rested(id, qty)
      PROVE  /\ Shaped(x) /\ x.event # "Trade"
             /\ \A id2, qty2 : x # Cancelled(id2, qty2, "Replaced")
  <2>1. Shaped(x)
    BY <1>2 DEF Shaped
  <2>2. x.event = "Rested"
    BY <1>2 DEF Rested
  <2> QED BY <2>1, <2>2 DEF Cancelled
<1>3. ASSUME NEW qty, NEW reason \in {"Unfilled", "SelfTrade", "CapacityExhausted"},
             x = Cancelled(None, qty, reason)
      PROVE  /\ Shaped(x) /\ x.event # "Trade"
             /\ \A id2, qty2 : x # Cancelled(id2, qty2, "Replaced")
  <2>1. Shaped(x)
    BY <1>3 DEF Shaped
  <2>2. x.event = "Cancelled" /\ x.reason = reason
    BY <1>3 DEF Cancelled
  <2> QED BY <1>3, <2>1, <2>2 DEF Cancelled
<1>4. ASSUME NEW reason, x = Rejected(reason)
      PROVE  /\ Shaped(x) /\ x.event # "Trade"
             /\ \A id2, qty2 : x # Cancelled(id2, qty2, "Replaced")
  <2>1. Shaped(x)
    BY <1>4 DEF Shaped
  <2>2. x.event = "Rejected"
    BY <1>4 DEF Rejected
  <2> QED BY <2>1, <2>2 DEF Cancelled
<1> QED BY <1>1, <1>2, <1>3, <1>4 DEF Endings

\* Another value in a field of a refusal makes it another refusal.
LEMMA AlteredRefusal ==
  ASSUME NEW reason, NEW x \in Altered(Rejected(reason))
  PROVE  \E other : x = Rejected(other)
<1>1. PICK field, v : /\ field \in DOMAIN Rejected(reason) \ {"event"}
                      /\ x = [Rejected(reason) EXCEPT ![field] = v]
  BY DEF Altered
<1>2. field = "reason"
  BY <1>1 DEF Rejected
<1>3. x = Rejected(v)
  BY <1>1, <1>2 DEF Rejected
<1> QED BY <1>3

\* Nor does it make any other event one of another type.
LEMMA AlteredShape ==
  ASSUME NEW e, Shaped(e), NEW x \in Altered(e)
  PROVE  Shaped(x)
<1>1. PICK field, v : /\ field \in DOMAIN e \ {"event"}
                      /\ x = [e EXCEPT ![field] = v]
  BY DEF Altered
<1>2. e # Filled
  BY <1>1 DEF Filled
<1>3. ASSUME NEW id, NEW qty, e = Rested(id, qty)
      PROVE  Shaped(x)
  <2>1. field \in {"id", "qty"}
    BY <1>1, <1>3 DEF Rested
  <2>2. x = Rested(v, qty) \/ x = Rested(id, v)
    BY <1>1, <1>3, <2>1 DEF Rested
  <2> QED BY <2>2 DEF Shaped
<1>4. ASSUME NEW id, NEW qty, NEW reason, e = Cancelled(id, qty, reason)
      PROVE  Shaped(x)
  <2>1. field \in {"id", "qty", "reason"}
    BY <1>1, <1>4 DEF Cancelled
  <2>2. \/ x = Cancelled(v, qty, reason) \/ x = Cancelled(id, v, reason)
        \/ x = Cancelled(id, qty, v)
    BY <1>1, <1>4, <2>1 DEF Cancelled
  <2> QED BY <2>2 DEF Shaped
<1>5. ASSUME NEW reason, e = Rejected(reason)
      PROVE  Shaped(x)
  BY <1>5, AlteredRefusal DEF Shaped
<1> QED BY <1>2, <1>3, <1>4, <1>5 DEF Shaped

----------------------------------------------------------------------------
(***************************************************************************)
(* The audit of faulty events                                              *)
(***************************************************************************)
\* It looks orders up as the audit of the engine's events does.
LEMMA SameLookups ==
  /\ \A side : Misled!Best(side) = Shadow!Best(side)
  /\ \A side, limit : Misled!Crossing(side, limit) = Shadow!Crossing(side, limit)
  /\ \A id, account : Misled!Owned(id, account) = Shadow!Owned(id, account)
<1>1. \A o : Misled!PriceRank(o) = Shadow!PriceRank(o)
  BY DEF Misled!PriceRank, Shadow!PriceRank, Misled!U16Max, Shadow!U16Max
<1>2. \A side : Misled!Best(side) = Shadow!Best(side)
  BY <1>1 DEF Misled!Best, Shadow!Best
<1>3. \A side, limit : Misled!Crossing(side, limit) = Shadow!Crossing(side, limit)
  BY <1>2 DEF Misled!Crossing, Shadow!Crossing, Misled!Opposite, Shadow!Opposite,
     Misled!Crosses, Shadow!Crosses
<1>4. \A id, account : Misled!Owned(id, account) = Shadow!Owned(id, account)
  BY DEF Misled!Owned, Shadow!Owned
<1> QED BY <1>2, <1>3, <1>4

\* So it finds the maker that the engine found, and no other; or none.
LEMMA MisledMarket ==
  ASSUME live \subseteq Orders, NEW who, who.side \in Sides
  PROVE  /\ \A m : NextMaker(who, live, m) =>
              /\ Misled!Best(Opposite(who.side)) = {m}
              /\ Misled!Crossing(who.side, LimitOf(who.side, who.kind)) = {m}
         /\ NoMaker(who, live) =>
              Misled!Crossing(who.side, LimitOf(who.side, who.kind)) = {}
BY MirrorHasMaker, MirrorHasNoMaker, SameLookups

\* The reasons it knows for a refusal that comes first.
LEMMA SameStaticRefusal ==
  /\ env.cmd = "New" =>
       StaticRefusal(env) = Misled!ExpectedStaticReject(env.qty, env.kind)
  /\ env.cmd # "New" => StaticRefusal(env) = Misled!ReplaceStaticReject
BY DEF StaticRefusal, Misled!ReplaceStaticReject, Misled!PriceOk, PriceOk,
   Misled!ExpectedStaticReject, Shadow!ExpectedStaticReject, Shadow!PriceOk,
   Misled!QtyOk, Shadow!QtyOk

\* A new order is refused for one reason only.
LEMMA NewReason ==
  ASSUME live \subseteq Orders, NEW e, NewRefused(env, live, orders, e),
         NEW crossing,
         crossing = Misled!Crossing(env.side, LimitOf(env.side, env.kind))
  PROVE  \E reason \in RejectReasons :
           /\ e = Rejected(reason)
           /\ \A other :
                Misled!NewRejectionOk(env.side, env.qty, env.kind, other)
                  => other = reason
           /\ StaticRefusal(env) = None =>
                \/ /\ env.kind.type = "PostOnly" /\ crossing # {}
                   /\ reason = "PostOnlyWouldCross"
                \/ /\ env.kind.type \in {"PostOnly", "Gtc"} /\ crossing = {}
                   /\ reason = "BookFull"
<1>1. PICK reason \in RejectReasons :
        /\ e = Rejected(reason)
        /\ \/ reason = StaticRefusal(env)
           \/ /\ StaticRefusal(env) = None /\ env.kind.type = "PostOnly"
              /\ reason = "PostOnlyWouldCross"
              /\ \E m : NextMaker(env, live, m)
           \/ /\ StaticRefusal(env) = None /\ env.kind.type \in {"PostOnly", "Gtc"}
              /\ reason = "BookFull"
              /\ NoMaker(env, live)
  BY DEF NewRefused
<1>2. env.cmd = "New" /\ env.side \in Sides /\ env.kind \in Kinds
  BY DEF NewRefused
<1>3. env.kind.type \in {"PostOnly", "Gtc"} =>
        LimitOf(env.side, env.kind) = env.kind.price
  BY <1>2, InputsValid DEF Kinds, LimitOf
<1>4. /\ \A m : NextMaker(env, live, m) => crossing = {m}
      /\ NoMaker(env, live) => crossing = {}
  BY <1>2, MisledMarket
<1>5. reason # None
  BY InputsValid
<1>6. StaticRefusal(env) = Misled!ExpectedStaticReject(env.qty, env.kind)
  BY <1>2, SameStaticRefusal
<1>7. StaticRefusal(env) = None =>
        \/ /\ env.kind.type = "PostOnly" /\ crossing # {}
           /\ reason = "PostOnlyWouldCross"
        \/ /\ env.kind.type \in {"PostOnly", "Gtc"} /\ crossing = {}
           /\ reason = "BookFull"
  BY <1>1, <1>4, <1>5
<1>8. ASSUME NEW other,
             Misled!NewRejectionOk(env.side, env.qty, env.kind, other)
      PROVE  other = reason
  BY <1>1, <1>3, <1>5, <1>6, <1>7, <1>8 DEF Misled!NewRejectionOk
<1> QED BY <1>1, <1>7, <1>8

\* The first i - 1 events are without fault.
Agrees(i) == \A j \in 1 .. i - 1 : j \in DOMAIN events /\ events[j] = out[j]

\* The faults that get past the audit, as FaultsNoticed has them.
Excused ==
  \/ PostOnlySelfTrade(events)
  \/ /\ Front(events) = Front(out)
     /\ EndsByCapacity(events)
     /\ EndsByCapacity(out)
     /\ \/ Last(events).event = "Rejected" \/ Last(out).event = "Rejected"
        \/ Last(events).qty = Last(out).qty

\* check_flow() was called for an order that the engine has refused.
Strayed ==
  /\ StaticRefusal(env) = None
  /\ \E e : out = <<e>> /\ NewRefused(env, live, orders, e)
  /\ flow = [side |-> env.side, kind |-> env.kind, remaining |-> env.qty, i |-> 1]
  /\ \A j \in DOMAIN events : events[j].event # "Trade"
  /\ Len(events) = 1 => events[1] \in Endings

\* There is a fault in the events.  The audit goes along the engine's story as
\* long as they agree with it, or it has been led astray at the beginning.
Faulted ==
  /\ events \in Faulty(out)
  /\ apc \in {"idle", "flow"} => live \subseteq Orders
  /\ apc = "idle" => Answered
  /\ apc = "flow" => \/ OnTrack /\ Agrees(flow.i)
                     \/ Strayed
  /\ apc \in {"book", "ok"} => Excused

\* An error notices the fault.
LEMMA ErrorKeepsFaulted ==
  ASSUME Faulted, UNCHANGED <<vars, events>>, apc' = "error"
  PROVE  Faulted'
BY DEF Faulted, vars

\* A fault that is excused stays excused.
LEMMA ExcuseKeepsFaulted ==
  ASSUME Faulted, UNCHANGED <<vars, env, events>>, apc' \in {"book", "ok"}, Excused
  PROVE  Faulted'
<1>1. out' = out /\ env' = env /\ events' = events
  BY DEF vars
<1>2. Excused'
  BY <1>1 DEF Excused, PostOnlySelfTrade
<1> QED BY <1>1, <1>2 DEF Faulted

\* What the fault can have done to the events.
LEMMA FaultedFacts ==
  ASSUME EventInv, Faulted
  PROVE  /\ events # out /\ IsSequence(events) /\ IsSequence(out)
         /\ Len(events) \in Nat /\ DOMAIN events = 1 .. Len(events)
         /\ Len(out) \in Nat /\ DOMAIN out = 1 .. Len(out)
         /\ Len(out) # 1 => ~Misled!IsRejection
         /\ Len(out) = 1 /\ Len(events) # 1 =>
              \A j \in DOMAIN events : events[j] = out[1]
<1>1. IsSequence(out) /\ events \in Faulty(out) /\ RejectIsAlone
  BY DEF EventInv, Faulted, EventProperties
<1>2. /\ events # out /\ IsSequence(events)
      /\ Len(events) # Len(out) =>
           \A j \in DOMAIN events : \E i \in DOMAIN out : events[j] = out[i]
  BY <1>1, FaultFacts
<1>3. /\ Len(events) \in Nat /\ DOMAIN events = 1 .. Len(events)
      /\ Len(out) \in Nat /\ DOMAIN out = 1 .. Len(out)
  BY <1>1, <1>2, SequenceFacts
<1>4. ASSUME Len(out) # 1, Misled!IsRejection
      PROVE  FALSE
  <2>1. Len(events) = 1 /\ events[1].event = "Rejected"
    BY <1>4 DEF Misled!IsRejection
  <2>2. PICK i \in DOMAIN out : events[1] = out[i]
    BY <1>2, <1>3, <1>4, <2>1
  <2>3. i \in Events("Rejected")
    BY <2>1, <2>2 DEF Events
  <2> QED BY <1>1, <1>4, <2>3 DEF RejectIsAlone
<1>5. ASSUME Len(out) = 1, Len(events) # 1, NEW j \in DOMAIN events
      PROVE  events[j] = out[1]
  <2>1. PICK i \in DOMAIN out : events[j] = out[i]
    BY <1>2, <1>5
  <2>2. i = 1
    BY <1>3, <1>5
  <2> QED BY <2>1, <2>2
<1> QED BY <1>1, <1>2, <1>3, <1>4, <1>5

\* If it is the last event that differs, it is another one, or another ending.
LEMMA LastDiffers ==
  ASSUME EventInv, Faulted, Len(events) = Len(out), Agrees(Len(out))
  PROVE  /\ events[Len(out)] # out[Len(out)]
         /\ events[Len(out)] \in Endings \cup Altered(out[Len(out)])
         /\ Len(out) >= 1 => Front(events) = Front(out)
<1>1. /\ events # out /\ IsSequence(events) /\ IsSequence(out) /\ Len(out) \in Nat
      /\ events \in Faulty(out)
  BY FaultedFacts DEF Faulted
<1>2. \A j \in 1 .. Len(out) - 1 : events[j] = out[j]
  BY DEF Agrees
<1>3. events[Len(out)] # out[Len(out)]
  <2> SUFFICES ASSUME events[Len(out)] = out[Len(out)] PROVE FALSE
    OBVIOUS
  <2>1. \A j \in 1 .. Len(events) : events[j] = out[j]
    BY <1>1, <1>2
  <2> QED BY <1>1, <2>1, SameEvents
<1>4. events[Len(out)] \in Endings \cup Altered(out[Len(out)])
  BY <1>1, <1>2, FaultFacts
<1>5. Len(out) >= 1 => Front(events) = Front(out)
  BY <1>1, <1>2, SameFront
<1> QED BY <1>3, <1>4, <1>5

\* The last of n events is one that depends on the engine's slots.
ByCapacity(e, n) ==
  \/ e.event = "Rested"
  \/ e.event = "Cancelled" /\ e.reason = "CapacityExhausted"
  \/ n = 1 /\ e = Rejected("BookFull")

\* A fault in such an event is excused, unless the quantity is wrong.
LEMMA CapacityExcuses ==
  ASSUME EventInv, Faulted, Len(events) = Len(out), Len(out) >= 1,
         Agrees(Len(out)), NEW x, x = events[Len(out)], NEW y, y = out[Len(out)],
         ByCapacity(x, Len(events)), ByCapacity(y, Len(out)),
         x.event = "Rejected" \/ y.event = "Rejected" \/ x.qty = y.qty
  PROVE  Excused
<1>1. IsSequence(events) /\ IsSequence(out) /\ Front(events) = Front(out)
  BY FaultedFacts, LastDiffers
<1>2. ASSUME NEW s, IsSequence(s), Len(s) >= 1, ByCapacity(s[Len(s)], Len(s))
      PROVE  EndsByCapacity(s)
  <2>1. ASSUME Len(s) = 1, s[1] = Rejected("BookFull")
        PROVE  s = <<Rejected("BookFull")>>
    <3>1. PICK e : e = Rejected("BookFull")
      OBVIOUS
    <3>2. IsSequence(<<e>>) /\ Len(<<e>>) = 1 /\ <<e>>[1] = e
      BY Singleton
    <3>3. s = <<e>>
      BY <1>2, <2>1, <3>1, <3>2, SameEvents
    <3> QED BY <3>1, <3>3
  <2> QED BY <1>2, <2>1 DEF ByCapacity, EndsByCapacity, Last
<1> QED BY <1>1, <1>2 DEF Excused, Last

\* What the engine can have answered to this command.
LEMMA AnsweredCommand ==
  ASSUME Answered
  PROVE  /\ env.cmd = "Cancel" =>
              \E e : out = <<e>> /\ CancelAnswered(env, live, orders, e)
         /\ env.cmd = "Reduce" =>
              \E e : out = <<e>> /\ ReduceAnswered(env, live, orders, e)
         /\ env.cmd = "New" =>
              \/ \E e : out = <<e>> /\ NewRefused(env, live, orders, e)
              \/ FlowAnswered
         /\ env.cmd = "Replace" =>
              \/ \E e : out = <<e>> /\ ReplaceAnswered(env, live, orders, e)
              \/ FlowAnswered
<1>1. FlowAnswered => env.cmd \in {"New", "Replace"}
  BY DEF FlowAnswered, Begins
<1> QED BY <1>1 DEF Answered, AnsweredAtOnce, NewRefused, CancelAnswered,
           ReduceAnswered, ReplaceAnswered

\* A cancellation has one answer.
LEMMA MisledCancel ==
  ASSUME EventInv, Faulted, UNCHANGED <<vars, env, events>>, Misled!CheckCancel
  PROVE  Faulted'
<1>1. apc = "idle" /\ env.cmd = "Cancel" /\ Answered /\ events # out
  BY FaultedFacts DEF Misled!CheckCancel, Faulted
<1>2. PICK e : out = <<e>> /\ CancelAnswered(env, live, orders, e)
  BY <1>1, AnsweredCommand
<1> DEFINE owned == Misled!Owned(env.id, env.account)
<1>3. owned = OwnedIn(live, env)
  BY SameOwned, SameLookups
<1>4. owned = {} => e = Misled!Rejected("UnknownOrStaleId")
  BY <1>2, <1>3 DEF CancelAnswered, Rejected, Misled!Rejected
<1>5. \A o \in owned : e = Misled!Cancelled(env.id, o.remaining, "User")
  BY <1>2, <1>3 DEF CancelAnswered, Cancelled, Misled!Cancelled
<1>6. events # <<e>>
  BY <1>1, <1>2
<1>7. Misled!Fail
  BY <1>4, <1>5, <1>6 DEF Misled!CheckCancel
<1> QED BY <1>7, ErrorKeepsFaulted DEF Misled!Fail

\* So has a reduction.
LEMMA MisledReduce ==
  ASSUME EventInv, Faulted, UNCHANGED <<vars, env, events>>, Misled!CheckReduce
  PROVE  Faulted'
<1>1. apc = "idle" /\ env.cmd = "Reduce" /\ Answered /\ events # out
  BY FaultedFacts DEF Misled!CheckReduce, Faulted
<1>2. PICK e : out = <<e>> /\ ReduceAnswered(env, live, orders, e)
  BY <1>1, AnsweredCommand
<1> DEFINE owned == Misled!Owned(env.id, env.account)
           total == env.total
<1>3. owned = OwnedIn(live, env) /\ total \in Nat
  BY <1>2, SameOwned, SameLookups DEF ReduceAnswered
<1>4. owned = {} => e = Misled!Rejected("UnknownOrStaleId")
  BY <1>2, <1>3 DEF ReduceAnswered, Rejected, Misled!Rejected
<1>5. ASSUME NEW o \in owned
      PROVE  /\ total > o.filled + o.remaining => e = Misled!Rejected("InvalidChange")
             /\ total <= o.filled =>
                  e = Misled!Cancelled(env.id, o.remaining, "ReduceToZero")
             /\ o.filled < total /\ total <= o.filled + o.remaining =>
                  e = Misled!Reduced(env.id, o.filled, total - o.filled)
  <2>1. /\ OwnedIn(live, env) = {o} /\ o \in Orders
        /\ \/ total > o.filled + o.remaining /\ e = Rejected("InvalidChange")
           \/ /\ total <= o.filled
              /\ e = Cancelled(env.id, o.remaining, "ReduceToZero")
           \/ /\ o.filled < total /\ total <= o.filled + o.remaining
              /\ e = Reduced(env.id, o.filled, total - o.filled)
    BY <1>2, <1>3 DEF ReduceAnswered
  <2>2. o.filled \in Nat /\ o.remaining \in Nat
    BY <2>1 DEF Orders
  <2> QED BY <1>3, <2>1, <2>2 DEF Rejected, Misled!Rejected, Cancelled,
             Misled!Cancelled, Reduced, Misled!Reduced
<1>6. events # <<e>>
  BY <1>1, <1>2
<1>7. Misled!Fail
  BY <1>4, <1>5, <1>6 DEF Misled!CheckReduce
<1> QED BY <1>7, ErrorKeepsFaulted DEF Misled!Fail

\* The call of check_flow() is the beginning of the engine's story.
LEMMA FlowBegins ==
  ASSUME UNCHANGED <<vars, env, ever, audit_seq>>, NEW who, NEW at, NEW books,
         NEW lefts, NEW n, Complete(who, at, books, lefts, n),
         env.account = who.account, live' = books[0],
         flow' = [side |-> who.side, kind |-> who.kind, remaining |-> lefts[0],
                  i |-> at[0]]
  PROVE  OnTrack' /\ live' \subseteq Orders /\ flow'.i = at[0]
<1>1. Complete(who, at, books, lefts, n)'
  BY SameStory
<1>2. 0 \in 0 .. n
  BY DEF Complete, Told
<1>3. OnTrack'
  BY <1>1, <1>2 DEF OnTrack
<1>4. live' \subseteq Orders
  BY DEF Complete, Told
<1> QED BY <1>3, <1>4

\* check_flow() goes on where the events agree.
LEMMA FlowKeepsFaulted ==
  ASSUME Faulted, UNCHANGED <<vars, events>>, apc' = "flow", OnTrack',
         live' \subseteq Orders, NEW i, i = flow'.i, Agrees(i)
  PROVE  Faulted'
<1>1. out' = out /\ events' = events
  BY DEF vars
<1>2. Agrees(flow.i)'
  BY <1>1 DEF Agrees
<1> QED BY <1>1, <1>2 DEF Faulted

\* The answer of the engine and that of the audit, if each is one event.
LEMMA OneForOne ==
  ASSUME EventInv, Faulted, NEW e, out = <<e>>, Len(events) = 1, NEW x,
         x = events[1]
  PROVE  /\ x # e /\ x \in Endings \cup Altered(e)
         /\ Shaped(e) => Shaped(x)
<1>1. Len(out) = 1 /\ out[1] = e /\ Agrees(Len(out))
  BY Singleton DEF Agrees
<1>2. x # e /\ x \in Endings \cup Altered(e)
  BY <1>1, LastDiffers
<1> QED BY <1>2, EndingFacts, AlteredShape

\* A story of no more than its end.
LEMMA StoryIsItsEnd ==
  ASSUME IsSequence(out), NEW who, NEW at, NEW books, NEW lefts, NEW n,
         Complete(who, at, books, lefts, n), at[0] = 1, Len(out) = 1
  PROVE  Ends(who, books[0], lefts[0], out[1])
<1>1. /\ n \in Nat /\ 0 \in 0 .. n /\ at[n] = 1
      /\ Ends(who, books[n], lefts[n], out[1])
  BY DEF Complete, Told
<1>2. out[1].event # "Trade"
  BY <1>1, EndingsAreNoTrades
<1>3. 0 = n
  BY <1>1, <1>2, WhereTheTradesAre
<1> QED BY <1>1, <1>3

\* What a submit() ends with is no trade and no refusal.
LEMMA EndShapes ==
  ASSUME NEW who, NEW b, NEW left, NEW e, Ends(who, b, left, e)
  PROVE  Shaped(e) /\ e.event # "Rejected"
<1>1. \/ e = Filled
      \/ \E qty, reason : e = Cancelled(None, qty, reason)
      \/ \E id, qty : e = Rested(id, qty)
  BY DEF Ends
<1>2. Shaped(e)
  BY <1>1 DEF Shaped
<1> QED BY <1>1, <1>2 DEF Filled, Cancelled, Rested

\* A new order that the engine refused is refused for another reason, which is
\* an error, or is taken for an order that was let in.
LEMMA MisledRefusedNew ==
  ASSUME EventInv, Faulted, UNCHANGED <<vars, env, events>>, Misled!CheckNew,
         NEW e, out = <<e>>, NewRefused(env, live, orders, e)
  PROVE  Faulted'
<1>1. /\ apc = "idle" /\ env.cmd = "New" /\ live \subseteq Orders
      /\ UNCHANGED <<out, orders>>
  BY DEF Misled!CheckNew, Faulted, vars, book
<1>2. PICK reason \in RejectReasons :
        /\ e = Rejected(reason)
        /\ \A other : Misled!NewRejectionOk(env.side, env.qty, env.kind, other)
                        => other = reason
  BY <1>1, NewReason
<1>3. CASE Misled!IsRejection
  <2>1. Len(events) = 1 /\ events[1].event = "Rejected"
    BY <1>3 DEF Misled!IsRejection
  <2>2. PICK x : x = events[1]
    OBVIOUS
  <2>3. Shaped(x) /\ x # e
    BY <1>2, <2>1, <2>2, OneForOne DEF Shaped
  <2>4. PICK other : x = Rejected(other)
    BY <2>1, <2>2, <2>3 DEF Shaped, Filled, Rested, Cancelled
  <2>5. other # reason /\ x.reason = other
    BY <1>2, <2>3, <2>4 DEF Rejected
  <2>6. Misled!Fail
    BY <1>2, <1>3, <2>2, <2>5 DEF Misled!CheckNew
  <2> QED BY <2>6, ErrorKeepsFaulted DEF Misled!Fail
<1>4. CASE ~Misled!IsRejection /\ StaticRefusal(env) # None
  <2>1. Misled!Fail
    BY <1>1, <1>4, SameStaticRefusal DEF Misled!CheckNew
  <2> QED BY <2>1, ErrorKeepsFaulted DEF Misled!Fail
<1>5. CASE ~Misled!IsRejection /\ StaticRefusal(env) = None
  <2>1. /\ Misled!CallCheckFlow(env.side, env.qty, env.kind, 1)
        /\ UNCHANGED <<live, ever, audit_seq>>
    BY <1>1, <1>5, SameStaticRefusal DEF Misled!CheckNew
  <2>2. /\ apc' = "flow"
        /\ flow' = [side |-> env.side, kind |-> env.kind, remaining |-> env.qty,
                    i |-> 1]
    BY <2>1 DEF Misled!CallCheckFlow
  <2>3. Len(events) = 1 => events[1] \in Endings /\ events[1].event # "Trade"
    <3> SUFFICES ASSUME Len(events) = 1
                 PROVE  events[1] \in Endings /\ events[1].event # "Trade"
      OBVIOUS
    <3>1. PICK x : x = events[1] /\ x.event # "Rejected"
      BY <1>5 DEF Misled!IsRejection
    <3>2. x \in Endings \cup Altered(e)
      BY <3>1, OneForOne
    <3>3. x \notin Altered(e)
      BY <1>2, <3>1, AlteredRefusal DEF Rejected
    <3> QED BY <3>1, <3>2, <3>3, EndingFacts
  <2>4. \A j \in DOMAIN events : events[j].event # "Trade"
    <3>1. CASE Len(events) = 1
      BY <2>3, <3>1, FaultedFacts
    <3>2. CASE Len(events) # 1
      <4>1. Len(out) = 1 /\ out[1] = e
        BY Singleton
      <4>2. \A j \in DOMAIN events : events[j] = e
        BY <3>2, <4>1, FaultedFacts
      <4>3. e.event # "Trade"
        BY <1>2 DEF Rejected
      <4> QED BY <4>2, <4>3
    <3> QED BY <3>1, <3>2
  <2>5. Strayed'
    <3>1. /\ StaticRefusal(env') = None /\ out' = <<e>>
          /\ NewRefused(env', live', orders', e)
          /\ \A j \in DOMAIN events' : events'[j].event # "Trade"
          /\ Len(events') = 1 => events'[1] \in Endings
          /\ flow' = [side |-> env'.side, kind |-> env'.kind,
                      remaining |-> env'.qty, i |-> 1]
      BY <1>1, <1>5, <2>1, <2>2, <2>3, <2>4
    <3> QED BY <3>1 DEF Strayed
  <2> QED BY <1>1, <2>1, <2>2, <2>5 DEF Faulted
<1> QED BY <1>3, <1>4, <1>5

\* A refusal in place of the end of a new order's story: only that of a full
\* book can pass, in place of an end that depends on the slots as well.
LEMMA RefusalForAnEnd ==
  ASSUME EventInv, Faulted, live \subseteq Orders, NEW y, out = <<y>>,
         NEW who \in Submitters, who.account = env.account,
         who.side = env.side, who.kind = env.kind,
         StaticRefusal(env) = None, env.cmd = "New",
         Ends(who, live, env.qty, y),
         NEW reason, events[1] = Rejected(reason), Len(events) = 1,
         Misled!NewRejectionOk(env.side, env.qty, env.kind, reason)
  PROVE  Excused
<1> DEFINE crossing == Misled!Crossing(who.side, LimitOf(who.side, who.kind))
<1>1. who.side \in Sides /\ who.kind \in Kinds
  BY DEF Submitters
<1>2. who.kind.type \in {"PostOnly", "Gtc"} =>
        LimitOf(who.side, who.kind) = who.kind.price
  BY <1>1, InputsValid DEF Kinds, LimitOf
<1>3. /\ \A m : NextMaker(who, live, m) => crossing = {m}
      /\ NoMaker(who, live) => crossing = {}
  BY <1>1, MisledMarket
<1>4. Misled!ExpectedStaticReject(env.qty, env.kind) = None
  BY SameStaticRefusal
<1>5. \/ /\ who.kind.type = "PostOnly"
         /\ reason = IF crossing # {} THEN "PostOnlyWouldCross" ELSE "BookFull"
      \/ who.kind.type = "Gtc" /\ reason = "BookFull" /\ crossing = {}
  <2> HIDE DEF crossing
  <2> QED BY <1>2, <1>4 DEF Misled!NewRejectionOk, crossing
<1>6. env.qty # 0
  BY <1>4, InputsValid DEF Misled!ExpectedStaticReject, Misled!QtyOk, RejectReasons
<1>7. /\ reason = "BookFull"
      /\ \/ y = Cancelled(None, env.qty, "CapacityExhausted")
         \/ \E id : y = Rested(id, env.qty)
  <2> HIDE DEF crossing
  <2> QED BY <1>3, <1>5, <1>6 DEF Ends, Rests
<1>8. PICK x : x = events[1] /\ x = Rejected("BookFull")
  BY <1>7
<1>9. Len(out) = 1 /\ out[1] = y /\ Agrees(Len(out))
  BY Singleton DEF Agrees
<1>10. ByCapacity(x, Len(events)) /\ x.event = "Rejected"
  BY <1>8 DEF ByCapacity, Rejected
<1>11. ByCapacity(y, Len(out))
  BY <1>7 DEF ByCapacity, Rested, Cancelled
<1> QED BY <1>8, <1>9, <1>10, <1>11, CapacityExcuses

\* A new order that the engine let in.
LEMMA MisledNewFlow ==
  ASSUME EventInv, Faulted, UNCHANGED <<vars, env, events>>, Misled!CheckNew,
         FlowAnswered
  PROVE  Faulted'
<1>1. /\ apc = "idle" /\ env.cmd = "New" /\ live \subseteq Orders
      /\ IsSequence(out)
  BY DEF Misled!CheckNew, Faulted, EventInv
<1>2. PICK who, at, books, lefts, n :
        /\ Complete(who, at, books, lefts, n)
        /\ Begins(env, live, out, who, at[0], books[0], lefts[0])
  BY DEF FlowAnswered
<1>3. /\ StaticRefusal(env) = None
      /\ who = [account |-> env.account, side |-> env.side, kind |-> env.kind]
      /\ at[0] = 1 /\ books[0] = live /\ lefts[0] = env.qty
  BY <1>1, <1>2 DEF Begins
<1>4. /\ who.account = env.account /\ who.side = env.side /\ who.kind = env.kind
      /\ who \in Submitters
  BY <1>2, <1>3 DEF Complete
<1>5. CASE Misled!IsRejection
  <2>1. Len(events) = 1 /\ events[1].event = "Rejected" /\ Len(out) = 1
    BY <1>5, FaultedFacts DEF Misled!IsRejection
  <2>2. PICK y : y = out[1] /\ out = <<y>>
    <3>1. PICK y : y = out[1]
      OBVIOUS
    <3>2. IsSequence(<<y>>) /\ Len(<<y>>) = 1 /\ <<y>>[1] = y
      BY Singleton
    <3>3. out = <<y>>
      BY <1>1, <2>1, <3>1, <3>2, SameEvents
    <3> QED BY <3>1, <3>3
  <2>3. Ends(who, live, env.qty, y)
    BY <1>1, <1>2, <1>3, <2>1, <2>2, StoryIsItsEnd
  <2>4. PICK x : x = events[1] /\ Shaped(x)
    BY <2>1, <2>2, <2>3, OneForOne, EndShapes
  <2>5. PICK reason : x = Rejected(reason)
    BY <2>1, <2>4 DEF Shaped, Filled, Rested, Cancelled
  <2>6. x.reason = reason
    BY <2>5 DEF Rejected
  <2>7. CASE Misled!NewRejectionOk(env.side, env.qty, env.kind, reason)
    <3>1. Excused
      BY <1>1, <1>3, <1>4, <2>1, <2>2, <2>3, <2>4, <2>5, <2>7, RefusalForAnEnd
    <3>2. Misled!Accept(live)
      BY <1>5, <2>4, <2>6, <2>7 DEF Misled!CheckNew
    <3> QED BY <3>1, <3>2, ExcuseKeepsFaulted DEF Misled!Accept
  <2>8. CASE ~Misled!NewRejectionOk(env.side, env.qty, env.kind, reason)
    <3>1. Misled!Fail
      BY <1>5, <2>4, <2>6, <2>8 DEF Misled!CheckNew
    <3> QED BY <3>1, ErrorKeepsFaulted DEF Misled!Fail
  <2> QED BY <2>7, <2>8
<1>6. CASE ~Misled!IsRejection
  <2>1. /\ Misled!CallCheckFlow(env.side, env.qty, env.kind, 1)
        /\ UNCHANGED <<live, ever, audit_seq>>
    BY <1>1, <1>3, <1>6, SameStaticRefusal DEF Misled!CheckNew
  <2>2. /\ apc' = "flow" /\ live' = books[0]
        /\ flow' = [side |-> who.side, kind |-> who.kind, remaining |-> lefts[0],
                    i |-> at[0]]
    BY <1>3, <1>4, <2>1 DEF Misled!CallCheckFlow
  <2>3. OnTrack' /\ live' \subseteq Orders /\ flow'.i = at[0]
    BY <1>2, <1>4, <2>1, <2>2, FlowBegins
  <2>4. Agrees(at[0])
    BY <1>3 DEF Agrees
  <2> QED BY <2>2, <2>3, <2>4, FlowKeepsFaulted
<1> QED BY <1>5, <1>6

\* A replacement is refused for one reason only.
LEMMA ReplaceReason ==
  ASSUME live \subseteq Orders, env.cmd = "Replace", env.total \in Nat,
         env.price \in InputPrices,
         NEW reason \in RejectReasons, ReplaceRefusedFor(env, live, reason),
         NEW other, Misled!ReplaceRejectionOk(other)
  PROVE  other = reason
<1>1. /\ StaticRefusal(env) = Misled!ReplaceStaticReject /\ reason # None
      /\ env.price # None
  BY SameStaticRefusal, InputsValid
<1>2. Misled!Owned(env.id, env.account) = OwnedIn(live, env)
  BY SameOwned, SameLookups
<1>3. CASE reason = StaticRefusal(env)
  BY <1>1, <1>3 DEF Misled!ReplaceRejectionOk
<1>4. CASE /\ StaticRefusal(env) = None /\ OwnedIn(live, env) = {}
           /\ reason = "UnknownOrStaleId"
  BY <1>1, <1>2, <1>4 DEF Misled!ReplaceRejectionOk
<1>5. ASSUME StaticRefusal(env) = None, NEW o \in Orders,
             OwnedIn(live, env) = {o}, env.total > o.filled,
             \/ /\ reason = "PostOnlyWouldCross" /\ env.post_only
                /\ \E m : NextMaker(Replacement(env, o), live, m)
             \/ /\ reason = "BookFull"
                /\ env.post_only => NoMaker(Replacement(env, o), live)
      PROVE  other = reason
  <2>1. PICK who : who = Replacement(env, o)
    OBVIOUS
  <2>2. who.side = o.side /\ o.side \in Sides /\ who.kind.price = env.price
    BY <2>1 DEF Replacement, Orders
  <2>3. LimitOf(who.side, who.kind) = env.price
    BY <1>1, <2>2 DEF LimitOf
  <2>4. /\ \A m : NextMaker(who, live, m) =>
             Misled!Crossing(o.side, env.price) = {m}
        /\ NoMaker(who, live) => Misled!Crossing(o.side, env.price) = {}
    BY <2>2, <2>3, MisledMarket
  <2>5. reason = IF env.post_only /\ Misled!Crossing(o.side, env.price) # {}
                 THEN "PostOnlyWouldCross" ELSE "BookFull"
    BY <1>5, <2>1, <2>4
  <2> QED BY <1>1, <1>2, <1>5, <2>5 DEF Misled!ReplaceRejectionOk
<1> QED BY <1>3, <1>4, <1>5 DEF ReplaceRefusedFor

\* A replacement that the engine refused.
LEMMA MisledRefusedReplace ==
  ASSUME EventInv, Faulted, UNCHANGED <<vars, env, events>>, Misled!CheckReplace,
         env.total \in Nat, env.price \in InputPrices,
         NEW reason \in RejectReasons, ReplaceRefusedFor(env, live, reason),
         NEW e, e = Rejected(reason), out = <<e>>
  PROVE  Faulted'
<1>1. /\ apc = "idle" /\ env.cmd = "Replace" /\ live \subseteq Orders
  BY DEF Misled!CheckReplace, Faulted
<1>2. PICK x : x = events[1]
  OBVIOUS
<1>3. CASE Misled!IsRejection
  <2>1. Len(events) = 1 /\ x.event = "Rejected"
    BY <1>2, <1>3 DEF Misled!IsRejection
  <2>2. Shaped(x) /\ x # e
    BY <1>2, <2>1, OneForOne DEF Shaped
  <2>3. PICK other : x = Rejected(other)
    BY <2>1, <2>2 DEF Shaped, Filled, Rested, Cancelled
  <2>4. other # reason /\ x.reason = other
    BY <2>2, <2>3 DEF Rejected
  <2>5. ~Misled!ReplaceRejectionOk(other)
    BY <1>1, <2>4, ReplaceReason
  <2>6. Misled!Fail
    BY <1>2, <1>3, <2>4, <2>5 DEF Misled!CheckReplace
  <2> QED BY <2>6, ErrorKeepsFaulted DEF Misled!Fail
<1>4. CASE ~Misled!IsRejection
  <2>1. ASSUME events # <<>>, NEW id, NEW qty, x = Cancelled(id, qty, "Replaced")
        PROVE  FALSE
    <3>1. x.event = "Cancelled" /\ e.event = "Rejected"
      BY <2>1 DEF Cancelled, Rejected
    <3>2. CASE Len(events) = 1
      <4>1. x \in Endings \cup Altered(e)
        BY <1>2, <3>2, OneForOne
      <4>2. x \notin Altered(e)
        BY <3>1, AlteredRefusal DEF Rejected
      <4> QED BY <2>1, <4>1, <4>2, EndingFacts
    <3>3. CASE Len(events) # 1
      <4>1. Len(out) = 1 /\ out[1] = e
        BY Singleton
      <4>2. 1 \in DOMAIN events
        BY <2>1, FaultedFacts, EmptySequence
      <4>3. events[1] = e
        BY <3>3, <4>1, <4>2, FaultedFacts
      <4> QED BY <1>2, <3>1, <4>3
    <3> QED BY <3>2, <3>3
  <2>2. Misled!Fail
    BY <1>2, <1>4, <2>1 DEF Misled!CheckReplace, Cancelled, Misled!Cancelled
  <2> QED BY <2>2, ErrorKeepsFaulted DEF Misled!Fail
<1> QED BY <1>3, <1>4

\* A replacement that left nothing to submit.
LEMMA MisledEmptyReplace ==
  ASSUME EventInv, Faulted, UNCHANGED <<vars, env, events>>, Misled!CheckReplace,
         env.total \in Nat, StaticRefusal(env) = None,
         NEW o \in Orders, OwnedIn(live, env) = {o}, env.total <= o.filled,
         NEW e, e = Cancelled(env.id, o.remaining, "Replaced"), out = <<e>>
  PROVE  Faulted'
<1>1. apc = "idle" /\ env.cmd = "Replace" /\ o.filled \in Nat
  BY DEF Misled!CheckReplace, Orders
<1>2. /\ Misled!Owned(env.id, env.account) = {o}
      /\ Misled!ReplaceStaticReject = None
  BY <1>1, SameOwned, SameLookups, SameStaticRefusal
<1>3. \A other : ~Misled!ReplaceRejectionOk(other)
  BY <1>1, <1>2 DEF Misled!ReplaceRejectionOk
<1>4. \/ Misled!Fail
      \/ events[1] = e /\ Misled!CheckReplacement(o)
  BY <1>2, <1>3 DEF Misled!CheckReplace, Cancelled, Misled!Cancelled
<1>5. CASE Misled!Fail
  BY <1>5, ErrorKeepsFaulted DEF Misled!Fail
<1>6. CASE events[1] = e /\ Misled!CheckReplacement(o)
  <2>1. Len(events) # 1
    BY <1>6, OneForOne
  <2>2. apc' = "error"
    BY <1>1, <1>6, <2>1 DEF Misled!CheckReplacement
  <2> QED BY <2>2, ErrorKeepsFaulted
<1> QED BY <1>4, <1>5, <1>6

\* A replacement that the engine submitted.
LEMMA MisledReplaceFlow ==
  ASSUME EventInv, Faulted, UNCHANGED <<vars, env, events>>, Misled!CheckReplace,
         FlowAnswered
  PROVE  Faulted'
<1>1. apc = "idle" /\ env.cmd = "Replace" /\ IsSequence(out)
  BY DEF Misled!CheckReplace, EventInv
<1>2. PICK who, at, books, lefts, n :
        /\ Complete(who, at, books, lefts, n)
        /\ Begins(env, live, out, who, at[0], books[0], lefts[0])
  BY DEF FlowAnswered
<1>3. PICK o \in Orders :
        /\ StaticRefusal(env) = None /\ env.total \in Nat
        /\ OwnedIn(live, env) = {o} /\ env.total > o.filled
        /\ who = Replacement(env, o)
        /\ at[0] = 2 /\ books[0] = live \ {o} /\ lefts[0] = env.total - o.filled
        /\ 1 \in DOMAIN out
        /\ out[1] = Cancelled(env.id, o.remaining, "Replaced")
  BY <1>1, <1>2 DEF Begins
<1>4. ~Misled!IsRejection
  <2>1. n \in Nat /\ 0 \in 0 .. n /\ at[n] = Len(out)
    BY <1>2 DEF Complete, Told
  <2>2. 0 # n => at[0] <= Len(out)
    BY <1>1, <1>2, <2>1, WhereTheTradesAre
  <2>3. at[0] = 2
    BY <1>3
  <2>4. Len(out) # 1
    <3>1. CASE 0 = n
      BY ONLY <2>1, <2>3, <3>1
    <3>2. CASE 0 # n
      <4>1. PICK len \in Nat : len = Len(out)
        BY <1>1, SequenceFacts
      <4>2. 2 <= len
        BY <2>2, <2>3, <3>2, <4>1
      <4>3. len # 1
        BY ONLY <4>1, <4>2
      <4> QED BY <4>1, <4>3
    <3> QED BY <3>1, <3>2
  <2> QED BY <2>4, FaultedFacts
<1>5. /\ Misled!Owned(env.id, env.account) = {o}
      /\ Misled!ReplaceStaticReject = None
      /\ o.account = env.account /\ o.filled \in Nat
  <2>1. o.account = env.account
    BY <1>3 DEF OwnedIn
  <2> QED BY <1>1, <1>3, <2>1, SameOwned, SameLookups, SameStaticRefusal DEF Orders
<1>6. \/ Misled!Fail
      \/ /\ events # <<>> /\ events[1] = out[1] /\ Misled!CheckReplacement(o)
         /\ UNCHANGED <<ever, audit_seq>>
  BY <1>3, <1>4, <1>5 DEF Misled!CheckReplace, Cancelled, Misled!Cancelled
<1>7. CASE Misled!Fail
  BY <1>7, ErrorKeepsFaulted DEF Misled!Fail
<1>8. CASE /\ events # <<>> /\ events[1] = out[1] /\ Misled!CheckReplacement(o)
           /\ UNCHANGED <<ever, audit_seq>>
  <2>1. /\ live' = live \ {o}
        /\ Misled!CallCheckFlow(o.side, env.total - o.filled,
             [type |-> IF env.post_only THEN "PostOnly" ELSE "Gtc",
              price |-> env.price], 2)
    BY <1>3, <1>5, <1>8 DEF Misled!CheckReplacement
  <2>2. /\ apc' = "flow" /\ live' = books[0] /\ env.account = who.account
        /\ flow' = [side |-> who.side, kind |-> who.kind, remaining |-> lefts[0],
                    i |-> at[0]]
    BY <1>3, <1>5, <2>1 DEF Misled!CallCheckFlow, Replacement
  <2>3. OnTrack' /\ live' \subseteq Orders /\ flow'.i = at[0]
    BY <1>2, <1>8, <2>2, FlowBegins
  <2>4. Agrees(at[0])
    <3>1. 1 \in DOMAIN events
      BY <1>8, FaultedFacts, EmptySequence
    <3> QED BY <1>3, <1>8, <3>1 DEF Agrees
  <2> QED BY <2>2, <2>3, <2>4, FlowKeepsFaulted
<1> QED BY <1>6, <1>7, <1>8

\* A replacement of faulty events, whatever the engine's answer was.
LEMMA MisledReplace ==
  ASSUME EventInv, Faulted, UNCHANGED <<vars, env, events>>, Misled!CheckReplace
  PROVE  Faulted'
<1>1. Answered /\ env.cmd = "Replace"
  BY DEF Misled!CheckReplace, Faulted
<1>2. CASE FlowAnswered
  BY <1>2, MisledReplaceFlow
<1>3. ASSUME NEW e, out = <<e>>, ReplaceAnswered(env, live, orders, e)
      PROVE  Faulted'
  BY <1>3, MisledRefusedReplace, MisledEmptyReplace DEF ReplaceAnswered
<1> QED BY <1>1, <1>2, <1>3, AnsweredCommand

\* Where the engine's story has ended the audit takes nothing for a trade.
LEMMA NoTradeAtTheEnd ==
  ASSUME live \subseteq Orders, NEW who \in Submitters, env.account = who.account,
         flow.side = who.side, flow.kind = who.kind,
         NEW left, left = flow.remaining, NEW y, Ends(who, live, left, y),
         NEW maker \in Misled!Best(Misled!Opposite(flow.side)), NEW t, NEW fill
  PROVE  ~Misled!TradeOk(t, maker, fill)
<1> SUFFICES ASSUME Misled!TradeOk(t, maker, fill) PROVE FALSE
  OBVIOUS
<1>1. who.side \in Sides
  BY DEF Submitters
<1>2. /\ maker \in live /\ maker \in Misled!Best(Opposite(who.side))
      /\ maker.side = Opposite(who.side)
  BY DEF Misled!Best, Misled!Opposite, Opposite
<1>3. /\ left > 0 /\ maker.account # env.account
      /\ Crosses(who.side, LimitOf(who.side, who.kind), maker.price)
  BY DEF Misled!TradeOk, Misled!Crosses, Crosses, Misled!Limit, Misled!LimitOf,
     LimitOf
<1>4. ~NoMaker(who, live)
  BY <1>2, <1>3 DEF NoMaker, Meets
<1>5. \A m : NextMaker(who, live, m) => m = maker
  BY <1>1, <1>2, MisledMarket
<1> QED BY <1>3, <1>4, <1>5 DEF Ends

\* Where it has not, the audit takes nothing for the end.
LEMMA NoEndAtATrade ==
  ASSUME live \subseteq Orders, NEW who \in Submitters, env.account = who.account,
         flow.side = who.side, flow.kind = who.kind,
         NEW m, NextMaker(who, live, m), m.account # who.account,
         flow.remaining > 0, NEW e,
         NEW next, next = Misled!Crossing(flow.side, Misled!Limit)
  PROVE  flow.remaining # 0 /\ ~Misled!CancelledOk(e, next) /\ ~Misled!RestedOk(e, next)
<1>1. who.side \in Sides
  BY DEF Submitters
<1>2. next = Misled!Crossing(who.side, LimitOf(who.side, who.kind))
  BY DEF Misled!Limit, Misled!LimitOf, LimitOf
<1>3. next = {m}
  BY <1>1, <1>2, MisledMarket
<1> QED BY <1>3 DEF Misled!CancelledOk, Misled!RestedOk

\* What it takes for the end is the engine's, or both depend on the slots.
LEMMA WhatPassesAtTheEnd ==
  ASSUME live \subseteq Orders, NEW who \in Submitters, env.account = who.account,
         flow.side = who.side, flow.kind = who.kind,
         NEW left, left = flow.remaining, NEW y, Ends(who, live, left, y),
         NEW next, next = Misled!Crossing(flow.side, Misled!Limit),
         NEW e, e # y, Shaped(e),
         \/ e = Filled /\ left = 0
         \/ e.event = "Cancelled" /\ Misled!CancelledOk(e, next)
         \/ e.event = "Rested" /\ Misled!RestedOk(e, next)
  PROVE  /\ e.qty = left
         /\ \/ e.event = "Rested"
            \/ e.event = "Cancelled" /\ e.reason = "CapacityExhausted"
         /\ \/ y = Cancelled(None, left, "CapacityExhausted")
            \/ \E id : y = Rested(id, left)
<1>1. who.side \in Sides
  BY DEF Submitters
<1>2. next = Misled!Crossing(who.side, LimitOf(who.side, who.kind))
  BY DEF Misled!Limit, Misled!LimitOf, LimitOf
<1>3. /\ \A m : NextMaker(who, live, m) => next = {m}
      /\ NoMaker(who, live) => next = {}
  BY <1>1, <1>2, MisledMarket
<1>4. ~(e = Filled /\ left = 0)
  BY DEF Ends
<1>5. CASE e.event = "Cancelled" /\ Misled!CancelledOk(e, next)
  <2>1. e = Cancelled(e.id, e.qty, e.reason)
    BY <1>5 DEF Shaped, Filled, Rested, Rejected, Cancelled
  <2>2. /\ e = Cancelled(None, left, e.reason) /\ e.qty = left /\ left > 0
        /\ \/ e.reason = "Unfilled" /\ ~Rests(who.kind) /\ next = {}
           \/ /\ e.reason = "SelfTrade"
              /\ \E o \in next : o.account = who.account
           \/ /\ e.reason = "CapacityExhausted"
              /\ who.kind.type = "Gtc" /\ next = {}
    BY <1>5, <2>1 DEF Misled!CancelledOk, Misled!Rests, Rests
  <2>3. \/ y = Cancelled(None, left, "Unfilled") /\ ~Rests(who.kind) /\ next = {}
        \/ y = Cancelled(None, left, "SelfTrade") /\ next # {}
        \/ /\ y = Cancelled(None, left, "CapacityExhausted")
           /\ who.kind.type = "Gtc" /\ next = {}
        \/ next = {} /\ Rests(who.kind) /\ \E id : y = Rested(id, left)
    BY <1>3, <2>2 DEF Ends
  <2> QED BY <1>5, <2>2, <2>3 DEF Rests
<1>6. CASE e.event = "Rested" /\ Misled!RestedOk(e, next)
  <2>1. e.qty = left /\ left > 0 /\ next = {} /\ Rests(who.kind)
    BY <1>6 DEF Misled!RestedOk, Misled!Rests, Rests
  <2> QED BY <1>3, <1>6, <2>1 DEF Ends
<1> QED BY <1>4, <1>5, <1>6

\* check_flow() notices the first trade that is not the engine's.
LEMMA MisledTrade ==
  ASSUME EventInv, Faulted, UNCHANGED <<vars, env, events>>, Misled!CheckTrade
  PROVE  Faulted'
<1>1. /\ apc = "flow" /\ IsSequence(out) /\ live \subseteq Orders
      /\ Misled!AtTrade
  BY DEF Misled!CheckTrade, Faulted, EventInv
<1>2. /\ Len(events) \in Nat /\ DOMAIN events = 1 .. Len(events)
      /\ Len(out) \in Nat /\ DOMAIN out = 1 .. Len(out)
  BY FaultedFacts
<1>3. ~Strayed
  <2> SUFFICES ASSUME Strayed PROVE FALSE
    OBVIOUS
  <2>1. flow.i = 1 /\ \A j \in DOMAIN events : events[j].event # "Trade"
    BY DEF Strayed
  <2>2. 1 <= Len(events) /\ events[1].event = "Trade"
    BY <1>1, <2>1 DEF Misled!AtTrade
  <2> QED BY <1>2, <2>1, <2>2
<1>4. OnTrack /\ Agrees(flow.i)
  BY <1>1, <1>3 DEF Faulted
<1>5. PICK who, at, books, lefts, n, k :
        /\ Complete(who, at, books, lefts, n)
        /\ k \in 0 .. n
        /\ env.account = who.account
        /\ live = books[k]
        /\ flow = [side |-> who.side, kind |-> who.kind, remaining |-> lefts[k],
                   i |-> at[k]]
  BY <1>4 DEF OnTrack
<1>6. /\ flow.side = who.side /\ flow.kind = who.kind /\ flow.remaining = lefts[k]
      /\ flow.i = at[k] /\ who \in Submitters /\ who.side \in Sides
  BY <1>5 DEF Complete, Submitters
<1>7. CASE k = n
  <2>1. PICK left, y : left = flow.remaining /\ Ends(who, live, left, y)
    BY <1>5, <1>6, <1>7 DEF Complete
  <2>2. \A maker \in Misled!Best(Misled!Opposite(flow.side)) :
          \A t, fill : ~Misled!TradeOk(t, maker, fill)
    BY <1>1, <1>5, <1>6, <2>1, NoTradeAtTheEnd
  <2>3. Misled!Fail
    BY <2>2 DEF Misled!CheckTrade
  <2> QED BY <2>3, ErrorKeepsFaulted DEF Misled!Fail
<1>8. CASE k # n
  <2>1. /\ n \in Nat /\ k \in 0 .. n - 1 /\ k \in Nat /\ k + 1 \in 0 .. n
        /\ lefts[k] \in Nat /\ at[k] \in Nat \ {0}
    BY <1>5, <1>8 DEF Complete, Told
  <2>2. PICK m \in Orders, q \in Nat :
          /\ Trades(out, who, at[k], live, lefts[k], m, q)
          /\ lefts[k + 1] = lefts[k] - q
          /\ \/ m.remaining = q /\ UsesUp(out, at[k], live, m, at[k + 1], books[k + 1])
             \/ m.remaining > q /\ UsesPart(at[k], live, m, q, at[k + 1], books[k + 1])
    BY <1>5, <2>1 DEF Complete, Told, Turn
  <2>3. /\ q = IF flow.remaining < m.remaining THEN flow.remaining ELSE m.remaining
        /\ NextMaker(who, live, m)
        /\ out[at[k]] = Trade(who.side, m.id, m.price, q, m.remaining - q)
    BY <1>6, <2>2 DEF Trades
  <2>4. m.remaining \in Nat /\ m.remaining - q >= 0
    BY <1>6, <2>1, <2>2, <2>3 DEF Orders
  <2>5. Misled!Best(Misled!Opposite(flow.side)) = {m}
    BY <1>1, <1>6, <2>3, MisledMarket DEF Opposite, Misled!Opposite
  <2>6. PICK t : t = events[flow.i]
    OBVIOUS
  <2>7. CASE Misled!Fail
    BY <2>7, ErrorKeepsFaulted DEF Misled!Fail
  <2>8. ASSUME Misled!TradeOk(t, m, q),
               t.maker_remaining = 0 =>
                 /\ flow.i < Len(events)
                 /\ events[flow.i + 1] = Misled!MakerFilled(m.id),
               \/ /\ t.maker_remaining = 0
                  /\ live' = live \ {m}
                  /\ flow' = [flow EXCEPT !.remaining = @ - t.qty, !.i = @ + 2]
               \/ /\ t.maker_remaining > 0
                  /\ live' = (live \ {m}) \cup {Misled!FilledInPart(m, t.qty)}
                  /\ flow' = [flow EXCEPT !.remaining = @ - t.qty, !.i = @ + 1],
               UNCHANGED <<ever, audit_seq, apc>>
        PROVE  Faulted'
    <3>1. t = Trade(who.side, m.id, m.price, q, m.remaining - q)
      BY <1>6, <2>8 DEF Misled!TradeOk, Misled!Trade, Trade
    <3>2. /\ t.qty = q /\ t.maker_remaining = m.remaining - q
          /\ events[at[k]] = out[at[k]]
      BY <1>6, <2>3, <2>6, <3>1 DEF Trade
    <3>3. /\ t.maker_remaining = 0 => m.remaining = q
          /\ t.maker_remaining > 0 => m.remaining > q
      BY <2>4, <3>2
    <3>4. at[k] \in DOMAIN events /\ \A j \in 1 .. at[k] - 1 :
                                       j \in DOMAIN events /\ events[j] = out[j]
      BY SMTT(30), <1>1, <1>2, <1>4, <1>6, <2>1 DEF Agrees, Misled!AtTrade
    <3> DEFINE step == [side |-> who.side, kind |-> who.kind,
                        remaining |-> lefts[k + 1], i |-> at[k + 1]]
    <3>5. /\ live' = books[k + 1] /\ flow' = step /\ at[k + 1] \in Nat
          /\ Agrees(at[k + 1])
      <4>1. CASE t.maker_remaining = 0
        <5>1. UsesUp(out, at[k], live, m, at[k + 1], books[k + 1])
          BY <2>2, <2>4, <3>3, <4>1
        <5>2. /\ at[k + 1] = at[k] + 2 /\ books[k + 1] = live \ {m}
              /\ out[at[k] + 1] = MakerFilled(m.id)
          BY <5>1 DEF UsesUp
        <5>3. live' = live \ {m} /\ flow' = [flow EXCEPT !.remaining = @ - q, !.i = @ + 2]
          BY <2>8, <3>2, <4>1
        <5>4. flow' = step
          BY ONLY <1>5, <2>2, <5>2, <5>3, FlowAdvances
        <5>5. /\ at[k] + 1 \in DOMAIN events
              /\ events[at[k] + 1] = out[at[k] + 1]
          BY <1>2, <1>6, <2>1, <2>8, <4>1, <5>2 DEF MakerFilled, Misled!MakerFilled
        <5>6. PICK i : i = at[k + 1] /\ i = at[k] + 2 /\ i \in Nat
          BY <2>1, <5>2
        <5>7. \A j \in 1 .. i - 1 : j \in DOMAIN events /\ events[j] = out[j]
          BY <2>1, <3>2, <3>4, <5>5, <5>6
        <5>8. Agrees(i)
          BY <5>7 DEF Agrees
        <5> HIDE DEF step
        <5> QED BY <5>2, <5>3, <5>4, <5>6, <5>8
      <4>2. CASE t.maker_remaining > 0
        <5>1. UsesPart(at[k], live, m, q, at[k + 1], books[k + 1])
          BY <2>2, <2>4, <3>3, <4>2
        <5>2. /\ at[k + 1] = at[k] + 1
              /\ books[k + 1] = (live \ {m}) \cup {Shadow!FilledInPart(m, q)}
          BY <5>1 DEF UsesPart
        <5>3. /\ live' = (live \ {m}) \cup {Shadow!FilledInPart(m, q)}
              /\ flow' = [flow EXCEPT !.remaining = @ - q, !.i = @ + 1]
          BY <2>8, <3>2, <4>2 DEF Shadow!FilledInPart, Misled!FilledInPart
        <5>4. flow' = step
          BY ONLY <1>5, <2>2, <5>2, <5>3, FlowAdvances
        <5>5. PICK i : i = at[k + 1] /\ i = at[k] + 1 /\ i \in Nat
          BY <2>1, <5>2
        <5>6. \A j \in 1 .. i - 1 : j \in DOMAIN events /\ events[j] = out[j]
          BY <2>1, <3>2, <3>4, <5>5
        <5>7. Agrees(i)
          BY <5>6 DEF Agrees
        <5> HIDE DEF step
        <5> QED BY <5>2, <5>3, <5>4, <5>5, <5>7
      <4> QED BY <2>8, <4>1, <4>2
    <3>6. Complete(who, at, books, lefts, n)'
      BY <1>5, <2>8, SameStory
    <3>7. PICK k2 : k2 = k + 1 /\ k2 \in 0 .. n
      BY <2>1
    <3>8. flow' = [side |-> who.side, kind |-> who.kind, remaining |-> lefts[k2],
                   i |-> at[k2]]
      BY <3>5, <3>7
    <3>9. OnTrack'
      <4> HIDE DEF step
      <4>1. env'.account = who.account /\ live' = books[k2]
        BY <1>5, <3>5, <3>7
      <4> QED BY <3>6, <3>7, <3>8, <4>1 DEF OnTrack
    <3>10. live' \subseteq Orders
      BY <1>5, <3>5, <2>1 DEF Complete, Told
    <3>11. flow'.i = at[k + 1]
      BY <3>7, <3>8
    <3>12. apc' = "flow"
      BY <1>1, <2>8
    <3> HIDE DEF step
    <3> QED BY <3>5, <3>9, <3>10, <3>11, <3>12, FlowKeepsFaulted
  <2>9. \/ Misled!Fail
        \/ /\ Misled!TradeOk(t, m, q)
           /\ t.maker_remaining = 0 =>
                /\ flow.i < Len(events)
                /\ events[flow.i + 1] = Misled!MakerFilled(m.id)
           /\ \/ /\ t.maker_remaining = 0
                 /\ live' = live \ {m}
                 /\ flow' = [flow EXCEPT !.remaining = @ - t.qty, !.i = @ + 2]
              \/ /\ t.maker_remaining > 0
                 /\ live' = (live \ {m}) \cup {Misled!FilledInPart(m, t.qty)}
                 /\ flow' = [flow EXCEPT !.remaining = @ - t.qty, !.i = @ + 1]
           /\ UNCHANGED <<ever, audit_seq, apc>>
    BY <2>3, <2>5, <2>6 DEF Misled!CheckTrade
  <2> QED BY <2>7, <2>8, <2>9
<1> QED BY <1>7, <1>8

\* Led astray, check_flow() takes the one event for the end, and only what
\* depends on the engine's slots can pass; or self-trade prevention in place of
\* the refusal of a post-only order.
LEMMA StrayedEnd ==
  ASSUME EventInv, Faulted, Strayed, live \subseteq Orders,
         NEW x, x = events[1], Len(events) = 1,
         NEW next, next = Misled!Crossing(flow.side, Misled!Limit),
         \/ x = Misled!Filled /\ flow.remaining = 0
         \/ x.event = "Cancelled" /\ Misled!CancelledOk(x, next)
         \/ x.event = "Rested" /\ Misled!RestedOk(x, next)
  PROVE  Excused
<1>1. PICK e : out = <<e>> /\ NewRefused(env, live, orders, e)
  BY DEF Strayed
<1>2. /\ StaticRefusal(env) = None /\ x \in Endings /\ env.cmd = "New"
      /\ env.side \in Sides /\ env.kind \in Kinds
  BY <1>1 DEF Strayed, NewRefused
<1>3. flow.side = env.side /\ flow.kind = env.kind /\ flow.remaining = env.qty
  BY DEF Strayed
<1>4. next = Misled!Crossing(env.side, LimitOf(env.side, env.kind))
  BY <1>3 DEF Misled!Limit, Misled!LimitOf, LimitOf
<1>5. PICK reason \in RejectReasons :
        /\ e = Rejected(reason)
        /\ \/ /\ env.kind.type = "PostOnly" /\ next # {}
              /\ reason = "PostOnlyWouldCross"
           \/ /\ env.kind.type \in {"PostOnly", "Gtc"} /\ next = {}
              /\ reason = "BookFull"
  BY <1>1, <1>2, <1>4, NewReason
<1>6. env.qty # 0
  <2>1. Misled!ExpectedStaticReject(env.qty, env.kind) = None
    BY <1>2, SameStaticRefusal
  <2> QED BY <2>1, InputsValid DEF Misled!ExpectedStaticReject, Misled!QtyOk, RejectReasons
<1>7. Shaped(x) /\ x # Filled
  BY <1>2, <1>3, <1>6, EndingFacts DEF Filled
<1>8. /\ Len(out) = 1 /\ out[1] = e /\ Agrees(Len(out))
  BY <1>1, Singleton DEF Agrees
<1>9. CASE x.event = "Cancelled" /\ Misled!CancelledOk(x, next)
  <2>1. x = Cancelled(x.id, x.qty, x.reason)
    BY <1>7, <1>9 DEF Shaped, Filled, Rested, Rejected, Cancelled
  <2>2. /\ x = Cancelled(None, env.qty, x.reason)
        /\ \/ x.reason = "Unfilled" /\ ~Rests(env.kind)
           \/ x.reason = "SelfTrade" /\ next # {}
           \/ x.reason = "CapacityExhausted" /\ next = {}
    BY <1>3, <1>9, <2>1 DEF Misled!CancelledOk, Misled!Rests, Rests
  <2>3. x.reason # "Unfilled"
    BY <1>5, <2>2 DEF Rests
  <2>4. CASE x.reason = "SelfTrade"
    <3>1. env.kind.type = "PostOnly" /\ e = Rejected("PostOnlyWouldCross")
      BY <1>5, <2>2, <2>4
    <3>2. IsSequence(events)
      BY FaultedFacts
    <3>3. IsSequence(<<x>>) /\ Len(<<x>>) = 1 /\ <<x>>[1] = x
      BY Singleton
    <3>4. events = <<x>>
      BY <3>2, <3>3, SameEvents
    <3> QED BY <1>1, <1>2, <2>2, <2>4, <3>1, <3>4 DEF Excused, PostOnlySelfTrade
  <2>5. CASE x.reason = "CapacityExhausted"
    <3>1. e = Rejected("BookFull")
      BY <1>5, <2>2, <2>5
    <3>2. ByCapacity(x, Len(events))
      BY <1>9, <2>5 DEF ByCapacity
    <3>3. ByCapacity(e, Len(out)) /\ e.event = "Rejected"
      BY <1>8, <3>1 DEF ByCapacity, Rejected
    <3> QED BY <1>8, <3>2, <3>3, CapacityExcuses
  <2> QED BY <2>2, <2>3, <2>4, <2>5
<1>10. CASE x.event = "Rested" /\ Misled!RestedOk(x, next)
  <2>1. e = Rejected("BookFull")
    BY <1>5, <1>10 DEF Misled!RestedOk
  <2>2. ByCapacity(x, Len(events))
    BY <1>10 DEF ByCapacity
  <2>3. ByCapacity(e, Len(out)) /\ e.event = "Rejected"
    BY <1>8, <2>1 DEF ByCapacity, Rejected
  <2> QED BY <1>8, <2>2, <2>3, CapacityExcuses
<1> QED BY <1>3, <1>6, <1>9, <1>10

\* On the track of the engine's story, it takes for the end what the engine
\* ends with, or both depend on the slots.
LEMMA TrackedEnd ==
  ASSUME EventInv, Faulted, OnTrack, Agrees(flow.i), live \subseteq Orders,
         flow.i = Len(events), NEW e, e = events[flow.i],
         NEW next, next = Misled!Crossing(flow.side, Misled!Limit),
         \/ e = Misled!Filled /\ flow.remaining = 0
         \/ e.event = "Cancelled" /\ Misled!CancelledOk(e, next)
         \/ e.event = "Rested" /\ Misled!RestedOk(e, next)
  PROVE  Excused
<1>1. PICK who, at, books, lefts, n, k :
        /\ Complete(who, at, books, lefts, n)
        /\ k \in 0 .. n
        /\ env.account = who.account
        /\ live = books[k]
        /\ flow = [side |-> who.side, kind |-> who.kind, remaining |-> lefts[k],
                   i |-> at[k]]
  BY DEF OnTrack
<1>2. /\ flow.side = who.side /\ flow.kind = who.kind /\ flow.remaining = lefts[k]
      /\ flow.i = at[k] /\ who \in Submitters
  BY <1>1 DEF Complete
<1>3. k = n
  <2> SUFFICES ASSUME k # n PROVE FALSE
    OBVIOUS
  <2>1. n \in Nat /\ k \in 0 .. n - 1
    BY <1>1 DEF Complete, Told
  <2>2. PICK m, q : Trades(out, who, at[k], live, lefts[k], m, q)
    BY <1>1, <2>1 DEF Complete, Told, Turn
  <2>3. /\ NextMaker(who, live, m) /\ m.account # who.account
        /\ flow.remaining > 0
    BY <1>2, <2>2 DEF Trades
  <2> QED BY <1>1, <1>2, <2>3, NoEndAtATrade
<1>4. /\ flow.i = Len(out) /\ Len(out) >= 1 /\ Len(events) = Len(out)
      /\ Agrees(Len(out))
  <2>1. at[n] = Len(out) /\ at[n] \in Nat \ {0} /\ n \in Nat
    BY <1>1 DEF Complete, Told
  <2> QED BY <1>2, <1>3, <2>1
<1>5. PICK left, y : /\ left = flow.remaining /\ Ends(who, live, left, y)
                     /\ y = out[Len(out)]
  BY <1>1, <1>2, <1>3 DEF Complete
<1>6. e # y /\ e \in Endings \cup Altered(y)
  BY <1>4, <1>5, LastDiffers
<1>7. Shaped(e)
  BY <1>5, <1>6, EndShapes, EndingFacts, AlteredShape
<1>8. \/ e = Filled /\ left = 0
      \/ e.event = "Cancelled" /\ Misled!CancelledOk(e, next)
      \/ e.event = "Rested" /\ Misled!RestedOk(e, next)
  BY <1>5 DEF Filled, Misled!Filled
<1>9. /\ e.qty = left
      /\ \/ e.event = "Rested"
         \/ e.event = "Cancelled" /\ e.reason = "CapacityExhausted"
      /\ \/ y = Cancelled(None, left, "CapacityExhausted")
         \/ \E id : y = Rested(id, left)
  BY <1>1, <1>2, <1>5, <1>6, <1>7, <1>8, WhatPassesAtTheEnd
<1>10. ByCapacity(e, Len(events)) /\ ByCapacity(y, Len(out)) /\ y.qty = left
  BY <1>9 DEF ByCapacity, Cancelled, Rested
<1> QED BY <1>4, <1>5, <1>9, <1>10, CapacityExcuses

\* After the loop.
LEMMA MisledTerminal ==
  ASSUME EventInv, Faulted, UNCHANGED <<vars, env, events>>, Misled!CheckTerminal
  PROVE  Faulted'
<1>1. apc = "flow" /\ live \subseteq Orders
  BY DEF Misled!CheckTerminal, Faulted
<1>2. PICK e : e = events[flow.i]
  OBVIOUS
<1>3. PICK next : next = Misled!Crossing(flow.side, Misled!Limit)
  OBVIOUS
<1> DEFINE passes ==
      /\ flow.i = Len(events)
      /\ \/ e = Misled!Filled /\ flow.remaining = 0
         \/ e.event = "Cancelled" /\ Misled!CancelledOk(e, next)
         \/ e.event = "Rested" /\ Misled!RestedOk(e, next)
<1>4. \/ Misled!Fail
      \/ passes /\ apc' = "book"
  BY <1>2, <1>3 DEF Misled!CheckTerminal, Misled!Insert, Misled!Accept
<1>5. CASE Misled!Fail
  BY <1>5, ErrorKeepsFaulted DEF Misled!Fail
<1>6. CASE passes /\ apc' = "book"
  <2>1. CASE Strayed
    <3>1. flow.i = 1
      BY <2>1 DEF Strayed
    <3>2. Excused
      BY <1>1, <1>2, <1>3, <1>6, <2>1, <3>1, StrayedEnd
    <3> QED BY <1>6, <3>2, ExcuseKeepsFaulted
  <2>2. CASE OnTrack /\ Agrees(flow.i)
    <3>1. Excused
      BY <1>1, <1>2, <1>3, <1>6, <2>2, TrackedEnd
    <3> QED BY <1>6, <3>1, ExcuseKeepsFaulted
  <2> QED BY <1>1, <2>1, <2>2 DEF Faulted
<1> QED BY <1>4, <1>5, <1>6

\* A new order, whatever the engine's answer was.
LEMMA MisledNew ==
  ASSUME EventInv, Faulted, UNCHANGED <<vars, env, events>>, Misled!CheckNew
  PROVE  Faulted'
<1>1. Answered /\ env.cmd = "New"
  BY DEF Misled!CheckNew, Faulted
<1> QED BY <1>1, MisledRefusedNew, MisledNewFlow, AnsweredCommand

\* check_not_crossed() excuses nothing.
LEMMA MisledNotCrossed ==
  ASSUME Faulted, UNCHANGED <<vars, env, events>>, Misled!CheckNotCrossed
  PROVE  Faulted'
<1>1. Excused /\ (apc' = "ok" \/ apc' = "error")
  BY DEF Misled!CheckNotCrossed, Faulted
<1> QED BY <1>1, ErrorKeepsFaulted, ExcuseKeepsFaulted

\* One step of check() with faulty events.
LEMMA CheckFaultyKeepsFaulted ==
  ASSUME EventInv, Faulted, CheckFaulty
  PROVE  Faulted'
BY MisledNew, MisledCancel, MisledReduce, MisledReplace, MisledTrade,
   MisledTerminal, MisledNotCrossed
   DEF CheckFaulty, Misled!CheckCommand, Misled!Checking

\* The faulty events reach the audit.
LEMMA FaultBeginsFaulted ==
  ASSUME AuditInv, Fault
  PROVE  Faulted'
<1>1. /\ apc = "idle" /\ pc = "done" /\ events' \in Faulty(out)
      /\ UNCHANGED auditedVars
  BY DEF Fault
<1>2. UNCHANGED <<out, live, apc>>
  BY <1>1 DEF auditedVars, auditVars, vars
<1>3. Answered' /\ live \subseteq Orders
  BY <1>1, AnsweredUnchanged DEF AuditInv, MirrorTypeOK
<1> QED BY <1>1, <1>2, <1>3 DEF Faulted

\* A step that changes nothing.
LEMMA StutterKeepsFaulted ==
  ASSUME Faulted, UNCHANGED <<auditedVars, events>>
  PROVE  Faulted'
<1>1. /\ UNCHANGED <<env, live, apc, flow, out, orders, events>>
      /\ UNCHANGED auditedVars
  BY DEF auditedVars, auditVars, vars, book
<1>2. Answered' = Answered /\ OnTrack' = OnTrack
  BY <1>1, AnsweredUnchanged
<1>3. /\ Agrees(flow.i)' = Agrees(flow.i) /\ Excused' = Excused
      /\ Strayed' = Strayed
  BY <1>1 DEF Agrees, Excused, PostOnlySelfTrade, Strayed
<1> QED BY <1>1, <1>2, <1>3 DEF Faulted

----------------------------------------------------------------------------
\* The invariant of the faulty stream: until there is a fault it is that of the
\* audit without faults.
FaultyInv ==
  /\ Inv /\ EventInv
  /\ events = None => AuditInv
  /\ events # None => Faulted

\* With or without a fault, the invariant is inductive.
LEMMA NextKeepsFaultyInv ==
  ASSUME FaultyInv, [FaultyNext]_faultyVars
  PROVE  FaultyInv'
<1>1. CASE UNCHANGED faultyVars
  <2>1. UNCHANGED auditedVars /\ UNCHANGED events
    BY <1>1 DEF faultyVars
  <2>2. Inv' /\ EventInv'
    BY <2>1, AuditedNextIsNext, NextKeepsInv, NextKeepsEventInv DEF FaultyInv
  <2> QED BY <2>1, <2>2, StutterKeepsAuditInv, StutterKeepsFaulted DEF FaultyInv
<1>2. CASE events = None /\ AuditedNext /\ UNCHANGED events
  BY <1>2, NextKeepsAuditInv DEF FaultyInv
<1>3. CASE Fault
  <2>1. UNCHANGED auditedVars /\ events = None /\ AuditInv
    BY <1>3 DEF Fault, FaultyInv
  <2>2. Inv' /\ EventInv' /\ AuditInv'
    BY <2>1, NextKeepsAuditInv DEF FaultyInv
  <2> QED BY <1>3, <2>1, <2>2, FaultBeginsFaulted DEF FaultyInv
<1>4. CASE CheckFaulty
  <2>1. UNCHANGED vars /\ UNCHANGED events /\ events # None
    BY <1>4 DEF CheckFaulty
  <2>2. Inv' /\ EventInv'
    BY <2>1, NextKeepsInv, NextKeepsEventInv DEF FaultyInv
  <2> QED BY <1>4, <2>1, <2>2, CheckFaultyKeepsFaulted DEF FaultyInv
<1> QED BY <1>1, <1>2, <1>3, <1>4 DEF FaultyNext

\* docs/invariants.md, the checks marked Stream: check() returns an error for
\* every fault in the events, but for those that depend on the engine's slots,
\* which it cannot see, and for the self-trade of a post-only order.
THEOREM FaultsAreNoticed == FaultySpec => []FaultsNoticed
<1>1. FaultyInit => FaultyInv
  BY AuditedInitInv DEF FaultyInit, FaultyInv
<1>2. FaultyInv /\ [FaultyNext]_faultyVars => FaultyInv'
  BY NextKeepsFaultyInv
<1>3. FaultyInv => FaultsNoticed
  BY DEF FaultyInv, Faulted, Excused, FaultsNoticed
<1> QED BY <1>1, <1>2, <1>3, PTL DEF FaultySpec
=============================================================================
