-------------------------------- MODULE Audit --------------------------------
(***************************************************************************)
(* The shadow checker of src/audit.rs.  It sees each command and the       *)
(* events an engine emitted for it, keeps a mirror of the book that it     *)
(* builds from the events alone, and returns an error when they are not    *)
(* what a correct engine could have emitted.                               *)
(*                                                                         *)
(* check() runs after the command and reads all of its events.  The model  *)
(* has one step for check_command() up to its return or its call of        *)
(* check_flow(), one per turn of the loop in check_flow(), one for the     *)
(* code after the loop, and one for check_not_crossed().  The text of an   *)
(* error is left out; and so are the checks that every event carries the   *)
(* command's req and ts, which EngineTypes abstracts.  After an error      *)
(* nobody calls check() again, and what is left of the mirror is not read. *)
(***************************************************************************)
EXTENDS EngineTypes, FiniteSets

VARIABLES
  env,        \* argument of check(): the command, None before the first
  events,     \* argument of check(): what the engine emitted for it
  live,       \* the mirror: the orders that should be resting
  ever,       \* every id that has rested
  audit_seq,  \* next_seq of the audit: the next arrival number
  apc,        \* where check() is: "idle", "flow", "book", or how it ended
  flow        \* arguments and locals of check_flow(), None outside it

auditVars == <<live, ever, audit_seq, apc, flow>>

Init ==
  /\ live = {}
  /\ ever = {}
  /\ audit_seq = 0
  /\ apc = "idle"
  /\ flow = None

----------------------------------------------------------------------------
\* Looking orders up.  An Option<Live> is a set with at most one order.

U16Max == 65535

\* Mutant: the cheapest order first on both sides.
PriceRankUninverted(o) == o.price

PriceRank(o) == IF o.side = "Buy" THEN U16Max - o.price ELSE o.price

\* Mutant: by price alone, so that any order of the best price will do.
BestOfPrice(side) ==
  {o \in live : o.side = side
     /\ \A p \in live : p.side = side => PriceRank(o) <= PriceRank(p)}

\* The order of this side with the least (price rank, seq).
Best(side) ==
  {o \in live : o.side = side
     /\ \A p \in live : p.side = side =>
          \/ PriceRank(o) < PriceRank(p)
          \/ PriceRank(o) = PriceRank(p) /\ o.seq <= p.seq}

Crossing(side, limit) ==
  {o \in Best(Opposite(side)) : Crosses(side, limit, o.price)}

Owned(id, account) == {o \in live : o.id = id /\ o.account = account}

NotCrossed ==
  \A b \in Best("Buy"), a \in Best("Sell") : b.price < a.price

----------------------------------------------------------------------------
\* Ways for check_command() to go on

\* Return Ok with this mirror: check_not_crossed() is next.
Accept(mirror) ==
  /\ live' = mirror
  /\ apc' = "book"
  /\ flow' = None

Fail ==
  /\ apc' = "error"
  /\ flow' = None
  /\ UNCHANGED <<live, ever, audit_seq>>

\* Call check_flow(); the events from number i on are its argument.
CallCheckFlow(side, qty, kind, i) ==
  /\ apc' = "flow"
  /\ flow' = [side |-> side, kind |-> kind, remaining |-> qty, i |-> i]

\* The only event is a rejection.
IsRejection == Len(events) = 1 /\ events[1].event = "Rejected"

----------------------------------------------------------------------------
\* New orders

ExpectedStaticReject(qty, kind) ==
  IF kind.price # None /\ ~PriceOk(kind.price) THEN "InvalidPrice"
  ELSE IF ~QtyOk(qty) THEN "InvalidQty" ELSE None

\* check_new_rejection(): could a correct engine refuse the order with reason?
NewRejectionOk(side, qty, kind, reason) ==
  LET static   == ExpectedStaticReject(qty, kind)
      crossing == Crossing(side, kind.price)
  IN  \/ static # None /\ reason = static
      \/ /\ static = None /\ kind.type = "PostOnly"
         /\ reason = IF crossing # {} THEN "PostOnlyWouldCross" ELSE "BookFull"
      \/ /\ static = None /\ kind.type = "Gtc"
         /\ reason = "BookFull" /\ crossing = {}

CheckNew ==
  /\ apc = "idle" /\ env.cmd = "New"
  /\ LET static == ExpectedStaticReject(env.qty, env.kind)
         ok     == NewRejectionOk(env.side, env.qty, env.kind, events[1].reason)
     IN  \/ IsRejection /\ ok /\ Accept(live) /\ UNCHANGED <<ever, audit_seq>>
         \/ IsRejection /\ ~ok /\ Fail
         \/ ~IsRejection /\ static # None /\ Fail
         \/ /\ ~IsRejection /\ static = None
            /\ CallCheckFlow(env.side, env.qty, env.kind, 1)
            /\ UNCHANGED <<live, ever, audit_seq>>

----------------------------------------------------------------------------
\* Cancellations and reductions

CheckCancel ==
  /\ apc = "idle" /\ env.cmd = "Cancel"
  /\ LET owned == Owned(env.id, env.account)
         refused == owned = {} /\ events = <<Rejected("UnknownOrStaleId")>>
         cancelled(o) == events = <<Cancelled(env.id, o.remaining, "User")>>
     IN  \/ refused /\ Accept(live) /\ UNCHANGED <<ever, audit_seq>>
         \/ \E o \in owned : /\ cancelled(o)
                             /\ Accept(live \ {o})
                             /\ UNCHANGED <<ever, audit_seq>>
         \/ ~refused /\ (\A o \in owned : ~cancelled(o)) /\ Fail

CheckReduce ==
  /\ apc = "idle" /\ env.cmd = "Reduce"
  /\ LET owned == Owned(env.id, env.account)
         total == env.total
         refused ==
           \/ owned = {} /\ events = <<Rejected("UnknownOrStaleId")>>
           \/ \E o \in owned : /\ total > o.filled + o.remaining
                               /\ events = <<Rejected("InvalidChange")>>
         cancelled(o) ==
           /\ total <= o.filled
           /\ events = <<Cancelled(env.id, o.remaining, "ReduceToZero")>>
         reduced(o) ==
           /\ o.filled < total /\ total <= o.filled + o.remaining
           /\ events = <<Reduced(env.id, o.filled, total - o.filled)>>
         smaller(o) == [o EXCEPT !.remaining = total - o.filled]
     IN  \/ refused /\ Accept(live) /\ UNCHANGED <<ever, audit_seq>>
         \/ \E o \in owned : /\ cancelled(o)
                             /\ Accept(live \ {o})
                             /\ UNCHANGED <<ever, audit_seq>>
         \/ \E o \in owned : /\ reduced(o)
                             /\ Accept((live \ {o}) \cup {smaller(o)})
                             /\ UNCHANGED <<ever, audit_seq>>
         \/ /\ ~refused
            /\ \A o \in owned : ~cancelled(o) /\ ~reduced(o)
            /\ Fail

----------------------------------------------------------------------------
\* Replacements

ReplaceStaticReject ==
  IF ~PriceOk(env.price) THEN "InvalidPrice"
  ELSE IF env.total > MaxOrderQty THEN "InvalidQty" ELSE None

\* Could a correct engine refuse the replacement with this reason?
ReplaceRejectionOk(reason) ==
  LET owned == Owned(env.id, env.account)
      wouldCross(o) == env.post_only /\ Crossing(o.side, env.price) # {}
  IN  \/ ReplaceStaticReject # None /\ reason = ReplaceStaticReject
      \/ /\ ReplaceStaticReject = None /\ owned = {}
         /\ reason = "UnknownOrStaleId"
      \/ /\ ReplaceStaticReject = None
         /\ \E o \in owned :
              /\ env.total > o.filled
              /\ reason = IF wouldCross(o) THEN "PostOnlyWouldCross"
                                           ELSE "BookFull"

\* What follows once the old order is out of the mirror: nothing, or the flow
\* of an order for what is left of the new total.
CheckReplacement(o) ==
  LET kind == [type |-> IF env.post_only THEN "PostOnly" ELSE "Gtc",
               price |-> env.price]
  IN  \/ /\ env.total <= o.filled /\ Len(events) = 1
         /\ Accept(live \ {o})
      \/ /\ env.total <= o.filled /\ Len(events) # 1
         /\ live' = live \ {o} /\ apc' = "error" /\ UNCHANGED flow
      \/ /\ env.total > o.filled
         /\ live' = live \ {o}
         /\ CallCheckFlow(o.side, env.total - o.filled, kind, 2)

CheckReplace ==
  /\ apc = "idle" /\ env.cmd = "Replace"
  /\ LET ok == ReplaceRejectionOk(events[1].reason)
         cancelled(o) ==
           /\ ReplaceStaticReject = None /\ events # <<>>
           /\ events[1] = Cancelled(env.id, o.remaining, "Replaced")
         owned == Owned(env.id, env.account)
     IN  \/ IsRejection /\ ok /\ Accept(live) /\ UNCHANGED <<ever, audit_seq>>
         \/ IsRejection /\ ~ok /\ Fail
         \/ /\ ~IsRejection
            /\ \E o \in owned : cancelled(o) /\ CheckReplacement(o)
            /\ UNCHANGED <<ever, audit_seq>>
         \/ ~IsRejection /\ (\A o \in owned : ~cancelled(o)) /\ Fail

----------------------------------------------------------------------------
\* check_flow()

AtTrade == flow.i <= Len(events) /\ events[flow.i].event = "Trade"

Limit == LimitOf(flow.side, flow.kind)

\* Is the trade t the one the taker must make next, with this maker?
TradeOk(t, maker, fill) ==
  /\ flow.kind.type # "PostOnly"
  /\ flow.remaining > 0
  /\ Crosses(flow.side, Limit, maker.price)
  /\ maker.account # env.account
  /\ t = Trade(flow.side, maker.id, maker.price, fill, maker.remaining - fill)

\* Mutant: forgets to count what the maker has filled.
FilledUncounted(maker, fill) == [maker EXCEPT !.remaining = @ - fill]

\* Mutant: the difference the wrong way round.
FilledSwapped(maker, fill) ==
  [maker EXCEPT !.remaining = fill - @, !.filled = @ + fill]

\* The maker after a fill that leaves something of it.
FilledInPart(maker, fill) ==
  [maker EXCEPT !.remaining = @ - fill, !.filled = @ + fill]

\* One turn of the loop: a trade, and MakerFilled if it used the maker up.
CheckTrade ==
  /\ apc = "flow" /\ AtTrade
  /\ LET t == events[flow.i]
         fill(maker) == IF flow.remaining < maker.remaining
                        THEN flow.remaining ELSE maker.remaining
         ok(maker) ==
           /\ TradeOk(t, maker, fill(maker))
           /\ t.maker_remaining = 0 =>
                /\ flow.i < Len(events)
                /\ events[flow.i + 1] = MakerFilled(maker.id)
         makers == Best(Opposite(flow.side))
     IN  \/ \E maker \in makers :
              /\ ok(maker)
              /\ \/ /\ t.maker_remaining = 0
                    /\ live' = live \ {maker}
                    /\ flow' = [flow EXCEPT !.remaining = @ - t.qty, !.i = @ + 2]
                 \/ /\ t.maker_remaining > 0
                    /\ live' = (live \ {maker}) \cup {FilledInPart(maker, t.qty)}
                    /\ flow' = [flow EXCEPT !.remaining = @ - t.qty, !.i = @ + 1]
              /\ UNCHANGED <<ever, audit_seq, apc>>
         \/ (\A maker \in makers : ~ok(maker)) /\ Fail

\* May the remainder of the taker end with this event?  next: the order it
\* would trade with.
RestedOk(e, next) ==
  /\ Rests(flow.kind)
  /\ flow.remaining > 0 /\ e.qty = flow.remaining
  /\ next = {}
  /\ GenerationOf(e.id) % 2 = 1
  /\ e.id \notin ever

CancelledOk(e, next) ==
  /\ e.id = None
  /\ flow.remaining > 0 /\ e.qty = flow.remaining
  /\ \/ e.reason = "Unfilled" /\ ~Rests(flow.kind) /\ next = {}
     \/ e.reason = "SelfTrade" /\ \E o \in next : o.account = env.account
     \/ e.reason = "CapacityExhausted" /\ flow.kind.type = "Gtc" /\ next = {}

Resting(id) ==
  [id |-> id, account |-> env.account, side |-> flow.side, price |-> Limit,
   remaining |-> flow.remaining, filled |-> 0, seq |-> audit_seq]

\* Mutant: remembers the ids of live orders only.
InsertForgetting(id) ==
  /\ Accept(live \cup {Resting(id)})
  /\ ever' = {o.id : o \in live} \cup {id}
  /\ audit_seq' = audit_seq + 1

\* What is left of the taker becomes an order of the mirror.
Insert(id) ==
  /\ Accept(live \cup {Resting(id)})
  /\ ever' = ever \cup {id}
  /\ audit_seq' = audit_seq + 1

\* After the loop: exactly one event is left, and says what became of the rest.
CheckTerminal ==
  /\ apc = "flow" /\ ~AtTrade
  /\ LET e      == events[flow.i]
         next   == Crossing(flow.side, Limit)
         one    == flow.i = Len(events)
         filled == one /\ e = Filled /\ flow.remaining = 0
         rested == one /\ e.event = "Rested" /\ RestedOk(e, next)
         cancelled == one /\ e.event = "Cancelled" /\ CancelledOk(e, next)
     IN  \/ /\ filled \/ cancelled
            /\ Accept(live)
            /\ UNCHANGED <<ever, audit_seq>>
         \/ rested /\ Insert(e.id)
         \/ ~(filled \/ cancelled \/ rested) /\ Fail

----------------------------------------------------------------------------
CheckCommand == CheckNew \/ CheckCancel \/ CheckReduce \/ CheckReplace

CheckNotCrossed ==
  /\ apc = "book"
  /\ apc' = IF NotCrossed THEN "ok" ELSE "error"
  /\ UNCHANGED <<live, ever, audit_seq, flow>>

\* The caller takes the verdict and may call check() again.
Return ==
  /\ apc = "ok"
  /\ apc' = "idle"
  /\ UNCHANGED <<live, ever, audit_seq, flow>>

\* The rest of a check() that check_command() has begun.
Checking == CheckTrade \/ CheckTerminal \/ CheckNotCrossed
=============================================================================
