------------------------------ MODULE FastBook ------------------------------
(***************************************************************************)
(* The production engine of src/book.rs: preallocated slots, per side an   *)
(* array of price levels whose orders are doubly linked through the slots, *)
(* and an occupancy bitset that finds the best level.                      *)
(*                                                                         *)
(* The state is one record, as the code's is one struct, and each helper   *)
(* of the code is an operator from a book to a book, so that a handler     *)
(* calls them in the order the code does.  Steps, pc, taker and out are as *)
(* in module Reference.                                                    *)
(*                                                                         *)
(* A word of the bitset is the set of its 1 bits and has WordBits bits (64 *)
(* in the code), so that a small instance has prices in both words.  The   *)
(* code asserts that a level's total does not underflow; here it is an     *)
(* integer, and a negative total is the failed assertion.  An empty slot's *)
(* account is None where the code has 0; it is read for live slots only.   *)
(***************************************************************************)
EXTENDS EngineTypes, FiniteSets, SequencesExt

CONSTANTS NIL, WordBits

WORDS == 2

MAX_TICKS == WORDS * WordBits

\* The assertion of FastBook::new; NIL is no slot, and None no price.
ASSUME TicksFit ==
  /\ WordBits \in Nat \ {0}
  /\ MaxTick < MAX_TICKS
  /\ NIL \notin Slots
  /\ None \notin 0 .. MAX_TICKS - 1

VARIABLES
  book,   \* the struct FastBook, without its configuration
  pc, taker, out

vars == <<book, pc, taker, out>>

EmptySlot == [generation |-> 0, prev |-> NIL, next |-> NIL, remaining |-> 0,
              filled |-> 0, account |-> None, price |-> 0, side |-> "Buy"]

EmptyLevel == [head |-> NIL, tail |-> NIL, total |-> 0]

Ticks == 0 .. MAX_TICKS - 1

Init ==
  /\ book = [slots   |-> [s \in Slots |-> EmptySlot],
             free    |-> [i \in 1 .. Capacity |-> Capacity - i],
             retired |-> 0,
             live    |-> 0,
             levels  |-> [side \in Sides |-> [p \in Ticks |-> EmptyLevel]],
             bits    |-> [side \in Sides |-> [w \in 0 .. WORDS - 1 |-> {}]]]
  /\ pc = "ready"
  /\ taker = None
  /\ out = <<>>

----------------------------------------------------------------------------
\* BookSide: the bitset of one side

SetBit(words, p) == [words EXCEPT ![p \div WordBits] = @ \cup {p % WordBits}]

\* Mutant: the word is masked with the bit, not with its complement.
ClearWord(words, p) == [words EXCEPT ![p \div WordBits] = @ \cap {p % WordBits}]

\* Mutant: the bit of an emptied level stays.
ClearNothing(words, p) == words

ClearBit(words, p) == [words EXCEPT ![p \div WordBits] = @ \ {p % WordBits}]

NonZero(words) == {w \in DOMAIN words : words[w] # {}}

\* Mutant: looks at the low word first.
HighestOfLowWord(words) ==
  LET w == Min(NonZero(words)) IN w * WordBits + Max(words[w])

\* The first non-zero word from the top, and its highest bit.
Highest(words) ==
  LET w == Max(NonZero(words)) IN w * WordBits + Max(words[w])

Lowest(words) ==
  LET w == Min(NonZero(words)) IN w * WordBits + Min(words[w])

----------------------------------------------------------------------------
\* The three helpers that write level state

\* A slot with other neighbours.
Linked(slot, prev, next) == [slot EXCEPT !.prev = prev, !.next = next]

\* Mutant: a new order goes to the head of the queue.
LevelPushFront(b, side, p, s) ==
  LET level == b.levels[side][p]
      first == level.tail = NIL
  IN  [b EXCEPT
        !.slots = [i \in Slots |->
           Linked(@[i],
                  IF i = s THEN NIL ELSE IF i = level.head THEN s ELSE @[i].prev,
                  IF i = s THEN level.head ELSE @[i].next)],
        !.levels[side][p] = [head  |-> s,
                             tail  |-> IF first THEN s ELSE level.tail,
                             total |-> level.total + b.slots[s].remaining],
        !.bits[side] = IF first THEN SetBit(@, p) ELSE @]

\* s is linked behind the slot tail, if there is one.
Appended(slots, tail, s) ==
  [i \in Slots |->
     Linked(slots[i],
            IF i = s THEN tail ELSE slots[i].prev,
            IF i = s THEN NIL ELSE IF i = tail THEN s ELSE slots[i].next)]

LevelPush(b, side, p, s) ==
  LET level == b.levels[side][p]
      first == level.tail = NIL
  IN  [b EXCEPT
        !.slots = Appended(@, level.tail, s),
        !.levels[side][p] = [head  |-> IF first THEN s ELSE level.head,
                             tail  |-> s,
                             total |-> level.total + b.slots[s].remaining],
        !.bits[side] = IF first THEN SetBit(@, p) ELSE @]

\* Mutant: the slot after s still points back to s.
UnlinkedForward(slots, s) ==
  LET prev == slots[s].prev
      next == slots[s].next
  IN  [i \in Slots |->
         Linked(slots[i],
                IF i = s THEN NIL ELSE slots[i].prev,
                IF i = s THEN NIL ELSE IF i = prev THEN next ELSE slots[i].next)]

\* s leaves its neighbours linked to each other and is itself detached.
Unlinked(slots, s) ==
  LET prev == slots[s].prev
      next == slots[s].next
  IN  [i \in Slots |->
         Linked(slots[i],
                IF i = s THEN NIL ELSE IF i = next THEN prev ELSE slots[i].prev,
                IF i = s THEN NIL ELSE IF i = prev THEN next ELSE slots[i].next)]

LevelRemove(b, side, p, s) ==
  LET slot  == b.slots[s]
      level == b.levels[side][p]
      head  == IF slot.prev = NIL THEN slot.next ELSE level.head
  IN  [b EXCEPT
        !.slots = Unlinked(@, s),
        !.levels[side][p] =
           [head  |-> head,
            tail  |-> IF slot.next = NIL THEN slot.prev ELSE level.tail,
            total |-> level.total - slot.remaining],
        !.bits[side] = IF head = NIL THEN ClearBit(@, p) ELSE @]

LevelSubQty(b, side, p, qty) == [b EXCEPT !.levels[side][p].total = @ - qty]

----------------------------------------------------------------------------
\* Slots

IsLive(s) == book.slots[s].generation % 2 = 1

WillRetire(b, s) == b.slots[s].generation + 2 > GenerationLimit

\* alloc() takes the last free slot; it is called only when there is one.
Alloc(b) ==
  [b EXCEPT !.free = Front(@),
            !.slots[Last(b.free)].generation = @ + 1,
            !.live = @ + 1]

\* Mutant: a slot that retires is still counted as live.
ReleaseUncounted(b, s) ==
  IF WillRetire(b, s)
  THEN [b EXCEPT !.slots[s].generation = @ - 1,
                 !.retired = @ + 1]
  ELSE [b EXCEPT !.live = @ - 1,
                 !.slots[s].generation = @ + 1,
                 !.free = Append(@, s)]

Release(b, s) ==
  IF WillRetire(b, s)
  THEN [b EXCEPT !.live = @ - 1,
                 !.slots[s].generation = @ - 1,
                 !.retired = @ + 1]
  ELSE [b EXCEPT !.live = @ - 1,
                 !.slots[s].generation = @ + 1,
                 !.free = Append(@, s)]

RemoveSlot(b, s) ==
  Release(LevelRemove(b, b.slots[s].side, b.slots[s].price, s), s)

IdOf(b, s) == OrderId(s, b.slots[s].generation)

\* lookup(): the slot of this id, if it is live, current and account's.
Owned(account, id) ==
  {s \in Slots : /\ s = SlotOf(id)
                 /\ IsLive(s)
                 /\ book.slots[s].generation = GenerationOf(id)
                 /\ book.slots[s].account = account}

----------------------------------------------------------------------------
\* The best price of a side, None if the side is empty.
Best(side) ==
  IF NonZero(book.bits[side]) = {} THEN None
  ELSE IF side = "Buy" THEN Highest(book.bits[side]) ELSE Lowest(book.bits[side])

Marketable(side, limit) ==
  LET best == Best(Opposite(side))
  IN  best # None /\ Crosses(side, limit, best)

Return(events) ==
  /\ pc' = "done"
  /\ taker' = None
  /\ out' = out \o events

Reject(reason) == Return(<<Rejected(reason)>>) /\ UNCHANGED book

CallSubmit(account, side, qty, kind) ==
  /\ pc' = "submit"
  /\ taker' = [account |-> account, side |-> side, kind |-> kind,
               qty |-> qty, remaining |-> qty]

----------------------------------------------------------------------------
\* Commands

NewOrder(account, side, qty, kind) ==
  LET badPrice == kind.price # None /\ ~PriceOk(kind.price)
  IN  /\ pc = "ready"
      /\ \/ badPrice /\ Reject("InvalidPrice")
         \/ ~badPrice /\ ~QtyOk(qty) /\ Reject("InvalidQty")
         \/ /\ ~badPrice /\ QtyOk(qty)
            /\ CallSubmit(account, side, qty, kind)
            /\ UNCHANGED <<book, out>>

Cancel(account, id) ==
  /\ pc = "ready"
  /\ \/ Owned(account, id) = {} /\ Reject("UnknownOrStaleId")
     \/ \E s \in Owned(account, id) :
          /\ book' = RemoveSlot(book, s)
          /\ Return(<<Cancelled(id, book.slots[s].remaining, "User")>>)

\* Mutant: the level gives up the quantity, the order does not.
ReducedInLevelOnly(b, s, left) ==
  LET slot == b.slots[s]
  IN  LevelSubQty(b, slot.side, slot.price, slot.remaining - left)

\* The order keeps its place with a smaller remainder.
ReducedInPlace(b, s, left) ==
  LET slot == b.slots[s]
  IN  [LevelSubQty(b, slot.side, slot.price, slot.remaining - left)
         EXCEPT !.slots[s].remaining = left]

\* The rest of reduce(), for the slot s it found.
ReduceOwned(id, s, total) ==
  LET slot == book.slots[s]
      left == total - slot.filled
  IN  \/ /\ total <= slot.filled
         /\ book' = RemoveSlot(book, s)
         /\ Return(<<Cancelled(id, slot.remaining, "ReduceToZero")>>)
      \/ total > slot.filled + slot.remaining /\ Reject("InvalidChange")
      \/ /\ slot.filled < total /\ total <= slot.filled + slot.remaining
         /\ book' = ReducedInPlace(book, s, left)
         /\ Return(<<Reduced(id, slot.filled, left)>>)

Reduce(account, id, total) ==
  /\ pc = "ready"
  /\ \/ Owned(account, id) = {} /\ Reject("UnknownOrStaleId")
     \/ \E s \in Owned(account, id) : ReduceOwned(id, s, total)

ReplaceRefused(account, id, price, total) ==
  \/ ~PriceOk(price) /\ Reject("InvalidPrice")
  \/ PriceOk(price) /\ total > MaxOrderQty /\ Reject("InvalidQty")
  \/ /\ PriceOk(price) /\ total <= MaxOrderQty
     /\ Owned(account, id) = {}
     /\ Reject("UnknownOrStaleId")

\* Why the order cannot be replaced, None if it can.
ReplaceRefusal(s, price, post_only) ==
  IF post_only /\ Marketable(book.slots[s].side, price) THEN "PostOnlyWouldCross"
  ELSE IF book.free = <<>> /\ WillRetire(book, s) THEN "BookFull"
  ELSE None

\* The rest of replace(), for the slot s it found.
ReplaceOwned(account, id, s, price, total, post_only) ==
  LET old       == book.slots[s]
      refusal   == ReplaceRefusal(s, price, post_only)
      cancelOld == <<Cancelled(id, old.remaining, "Replaced")>>
      kind      == [type |-> IF post_only THEN "PostOnly" ELSE "Gtc",
                    price |-> price]
  IN  \/ /\ total <= old.filled
         /\ book' = RemoveSlot(book, s)
         /\ Return(cancelOld)
      \/ total > old.filled /\ refusal # None /\ Reject(refusal)
      \/ /\ total > old.filled /\ refusal = None
         /\ book' = RemoveSlot(book, s)
         /\ out' = cancelOld
         /\ CallSubmit(account, old.side, total - old.filled, kind)

Replace(account, id, price, total, post_only) ==
  /\ pc = "ready"
  /\ \/ ReplaceRefused(account, id, price, total)
     \/ /\ PriceOk(price) /\ total <= MaxOrderQty
        /\ \E s \in Owned(account, id) :
             ReplaceOwned(account, id, s, price, total, post_only)

----------------------------------------------------------------------------
\* submit()

Limit == LimitOf(taker.side, taker.kind)

\* Mutant: a post-only order that would trade is let through.
SubmitRefusalOfFull ==
  LET crosses == Marketable(taker.side, Limit)
  IN  IF Rests(taker.kind) /\ ~crosses /\ book.free = <<>> THEN "BookFull"
      ELSE None

SubmitRefusal ==
  LET crosses == Marketable(taker.side, Limit)
  IN  IF taker.kind.type = "PostOnly" /\ crosses THEN "PostOnlyWouldCross"
      ELSE IF Rests(taker.kind) /\ ~crosses /\ book.free = <<>> THEN "BookFull"
      ELSE None

Submit ==
  /\ pc = "submit"
  /\ \/ SubmitRefusal # None /\ Reject(SubmitRefusal)
     \/ /\ SubmitRefusal = None
        /\ pc' = "match"
        /\ UNCHANGED <<book, taker, out>>

Matching ==
  /\ pc = "match"
  /\ taker.remaining > 0
  /\ Marketable(taker.side, Limit)

MakerSide == Opposite(taker.side)

\* Mutant: the youngest order of the level.
MakerAtTail == book.levels[MakerSide][Best(MakerSide)].tail

\* The slot at the head of the best level.
Maker == book.levels[MakerSide][Best(MakerSide)].head

Fill ==
  /\ Matching
  /\ book.slots[Maker].account # taker.account
  /\ LET s      == Maker
         p      == Best(MakerSide)
         fill   == Min({taker.remaining, book.slots[s].remaining})
         left   == book.slots[s].remaining - fill
         filled == [LevelSubQty(book, MakerSide, p, fill) EXCEPT
                      !.slots[s].remaining = left,
                      !.slots[s].filled = @ + fill]
         trade  == Trade(taker.side, IdOf(book, s), p, fill, left)
     IN  /\ taker' = [taker EXCEPT !.remaining = @ - fill]
         /\ \/ /\ left = 0
               /\ book' = Release(LevelRemove(filled, MakerSide, p, s), s)
               /\ out' = out \o <<trade, MakerFilled(IdOf(book, s))>>
            \/ /\ left > 0
               /\ book' = filled
               /\ out' = Append(out, trade)
         /\ UNCHANGED pc

\* Mutant: goes round the loop again instead of giving up.
SelfTradeSkipped ==
  /\ Matching
  /\ book.slots[Maker].account = taker.account
  /\ UNCHANGED vars

SelfTrade ==
  /\ Matching
  /\ book.slots[Maker].account = taker.account
  /\ Return(<<Cancelled(None, taker.remaining, "SelfTrade")>>)
  /\ UNCHANGED book

\* Mutant: the slot keeps the filled quantity of its last order.
WithTakerStale(slot) ==
  [slot EXCEPT !.remaining = taker.remaining, !.account = taker.account,
               !.price = Limit, !.side = taker.side]

\* A slot, written over with what is left of the taker.
WithTaker(slot) ==
  [slot EXCEPT !.remaining = taker.remaining, !.filled = 0,
               !.account = taker.account, !.price = Limit, !.side = taker.side]

Rest ==
  LET s      == Last(book.free)
      rested == LevelPush([Alloc(book) EXCEPT !.slots[s] = WithTaker(@)],
                          taker.side, Limit, s)
  IN  /\ book.free # <<>>
      /\ book' = rested
      /\ Return(<<Rested(IdOf(rested, s), taker.remaining)>>)

Finish ==
  /\ pc = "match"
  /\ ~Matching
  /\ \/ taker.remaining = 0 /\ Return(<<Filled>>) /\ UNCHANGED book
     \/ /\ taker.remaining > 0 /\ ~Rests(taker.kind)
        /\ Return(<<Cancelled(None, taker.remaining, "Unfilled")>>)
        /\ UNCHANGED book
     \/ taker.remaining > 0 /\ Rests(taker.kind) /\ Rest
     \/ /\ taker.remaining > 0 /\ Rests(taker.kind) /\ book.free = <<>>
        /\ Return(<<Cancelled(None, taker.remaining, "CapacityExhausted")>>)
        /\ UNCHANGED book

\* The caller reads the events and clears the sink for the next command.
Drain ==
  /\ pc = "done"
  /\ pc' = "ready"
  /\ out' = <<>>
  /\ UNCHANGED <<book, taker>>

----------------------------------------------------------------------------
Command ==
  \E account \in Accounts :
    \/ \E side \in Sides, qty \in InputQtys, kind \in InputKinds :
         NewOrder(account, side, qty, kind)
    \/ \E id \in InputIds :
         \/ Cancel(account, id)
         \/ \E total \in InputQtys :
              \/ Reduce(account, id, total)
              \/ \E price \in InputPrices, post_only \in BOOLEAN :
                   Replace(account, id, price, total, post_only)

Running == Submit \/ Fill \/ SelfTrade \/ Finish

Next == Command \/ Running \/ Drain

Spec == Init /\ [][Next]_vars

\* process() runs on one thread without blocking, so a command that has
\* begun goes on; nothing obliges the caller to send another.
FairSpec == Spec /\ WF_vars(Running)
----------------------------------------------------------------------------
(***************************************************************************)
(* Properties.  The letters are the ids of docs/invariants.md.             *)
(***************************************************************************)
Links == Slots \cup {NIL}

Books ==
  [slots   : [Slots -> [generation : Nat, prev : Links, next : Links,
                        remaining : Nat, filled : Nat,
                        account : Accounts \cup {None}, price : Ticks,
                        side : Sides]],
   free    : Seq(Slots),
   retired : Nat,
   live    : Nat,
   levels  : [Sides -> [Ticks -> [head : Links, tail : Links, total : Nat]]],
   bits    : [Sides -> [0 .. WORDS - 1 -> SUBSET (0 .. WordBits - 1)]]]

Takers == [account : Accounts, side : Sides, kind : Kinds,
           qty : Nat, remaining : Nat]

\* The state has the types of the code's structs: links are slots or NIL, no
\* total or counter is negative ("level total underflow" is never asserted),
\* and a taker exists exactly while submit() runs.
TypeOK ==
  /\ book \in Books
  /\ pc \in {"ready", "submit", "match", "done"}
  /\ IF pc \in {"submit", "match"} THEN taker \in Takers ELSE taker = None

LiveSlots == {s \in Slots : IsLive(s)}

At(side, p) ==
  {s \in LiveSlots : book.slots[s].side = side /\ book.slots[s].price = p}

\* The n-th slot of a level, following the links from its head; NIL past the
\* end of the queue.
Walk(side, p) ==
  LET at[n \in 0 .. Capacity] ==
        IF n = 0 THEN book.levels[side][p].head
        ELSE IF at[n - 1] = NIL THEN NIL ELSE book.slots[at[n - 1]].next
  IN  at

\* S2, L3, L4: from its head, each level's links lead through exactly the live
\* slots of its side and price, each once and each linked back to the one
\* before it, to its tail.
QueuesWellLinked ==
  \A side \in Sides, p \in Ticks :
    LET at == Walk(side, p)
    IN  /\ at[Capacity] = NIL
        /\ {at[n] : n \in DOMAIN at} \ {NIL} = At(side, p)
        /\ \A n \in 0 .. Capacity - 1 : at[n] # NIL =>
             /\ book.slots[at[n]].prev = IF n = 0 THEN NIL ELSE at[n - 1]
             /\ at[n + 1] = NIL => book.levels[side][p].tail = at[n]

\* What is left of the order in each slot.
Remainders == [s \in Slots |-> book.slots[s].remaining]

\* L1, L2: a level's total is the sum of what is left of its orders, and its
\* head, tail, total and occupancy bit agree on whether it has any.
LevelsAgree ==
  \A side \in Sides, p \in Ticks :
    LET level == book.levels[side][p]
        bit   == p % WordBits \in book.bits[side][p \div WordBits]
    IN  /\ level.total = SumFunctionOnSet(Remainders, At(side, p))
        /\ (level.head = NIL) = ~bit
        /\ (level.tail = NIL) = ~bit
        /\ (level.total = 0) = ~bit

\* S1, S3, S4: the live counter counts the live slots; the free stack holds
\* distinct slots that are not live and are linked to nothing; every other
\* slot is retired, and no generation passes the limit.
SlotAccounting ==
  /\ book.live = Cardinality(LiveSlots)
  /\ book.live + Len(book.free) + book.retired = Capacity
  /\ IsInjective(book.free)
  /\ \A i \in DOMAIN book.free :
       LET s == book.free[i]
       IN  ~IsLive(s) /\ book.slots[s].prev = NIL /\ book.slots[s].next = NIL
  /\ \A s \in Slots : book.slots[s].generation <= GenerationLimit

\* 012: whenever the matching loop goes on, the bit that names the best price
\* leads to a slot that is live, on that side and at that price, with
\* something left to trade.
MakerIsLive ==
  Matching => /\ Maker \in At(MakerSide, Best(MakerSide))
              /\ book.slots[Maker].remaining > 0

\* Every call of submit() comes to its last event.
CommandsFinish == pc \in {"submit", "match"} ~> pc = "done"
=============================================================================
