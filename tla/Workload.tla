------------------------------ MODULE Workload ------------------------------
(***************************************************************************)
(* The synthetic order flow of src/workload.rs.  It keeps a list of the    *)
(* orders it believes to be live and an index from their ids to their      *)
(* positions, makes the next command from them and the best prices, and    *)
(* learns from the events of each command.                                 *)
(*                                                                         *)
(* The random choices of next() are nondeterministic: GeneratedCommands is *)
(* the set of commands that some outcome of its draws leads to.  observe() *)
(* has one step for its beginning and one per event.  Positions count from *)
(* 1, where the code counts from 0.                                        *)
(*                                                                         *)
(* The numbers that next() has as literals are constants here, so that a   *)
(* small instance has small ones: prices go from MinTick to MaxTick (1 to  *)
(* 99), and an empty side has the price FirstBid (49) or FirstAsk (51).    *)
(***************************************************************************)
EXTENDS EngineTypes, SequencesExt

CONSTANTS
  target_live,         \* more live orders than this are crowded
  FirstBid, FirstAsk,  \* the best prices assumed of an empty side
  MaxDepth,            \* how far below the best price an order is put (8)
  MaxOver,             \* how far beyond the other side's best price (2)
  SmallQty, LargeQty   \* the largest orders that rest, and that match (20, 40)

VARIABLES
  env, events,  \* arguments of observe(): the command and its events
  live,         \* the tracked orders
  index,        \* id -> position in live
  side,         \* local of observe(): the side of an order that rests, or None
  seen          \* how many events observe() has been through, None outside it

flowVars == <<live, index, side, seen>>

Init ==
  /\ live = <<>>
  /\ index = <<>>
  /\ side = None
  /\ seen = None

----------------------------------------------------------------------------
\* next()

\* Mutant: bounded above only.
ClampAbove(p) == IF p > MaxTick THEN MaxTick ELSE p

Clamp(p) == IF p < MinTick THEN MinTick ELSE IF p > MaxTick THEN MaxTick ELSE p

\* Prices behind the best of the other side, which do not trade unless clamped
\* to it, and prices at it or beyond, which do.
Passive(s, bid, ask) ==
  {Clamp(IF s = "Buy" THEN ask - 1 - depth ELSE bid + 1 + depth) :
     depth \in 0 .. MaxDepth}

Aggressive(s, bid, ask) ==
  {Clamp(IF s = "Buy" THEN ask + over ELSE bid - over) : over \in 0 .. MaxOver}

Kind(type, prices) == [type : {type}, price : prices]

\* The new orders for one side: with their quantities, by what was drawn.
NewOrders(s, bid, ask) ==
  LET passive    == Passive(s, bid, ask)
      aggressive == Aggressive(s, bid, ask)
      protection == aggressive \cup {None}
  IN  ((1 .. SmallQty) \X (Kind("Gtc", passive)
                             \cup Kind("PostOnly", passive \cup aggressive)))
        \cup ((1 .. LargeQty) \X (Kind("Gtc", aggressive)
                                    \cup Kind("Ioc", aggressive)
                                    \cup Kind("Market", protection)))

Tracked == {live[i] : i \in DOMAIN live}

crowded == Len(live) > target_live

\* With a crowd the draws that reduce or replace are used to cancel.
GeneratedCommands(best_bid, best_ask) ==
  LET bid == IF best_bid = None THEN FirstBid ELSE best_bid
      ask == IF best_ask = None THEN FirstAsk ELSE best_ask
      changed == IF crowded THEN {} ELSE Tracked
  IN  {CancelCommand(o.account, o.id) : o \in Tracked}
        \cup (UNION {{ReduceCommand(o.account, o.id, total) :
                        total \in 1 .. o.qty} : o \in changed})
        \cup (UNION {{ReplaceCommand(o.account, o.id, price, total, post_only) :
                        price \in Passive(o.side, bid, ask),
                        total \in 1 .. SmallQty,
                        post_only \in BOOLEAN} : o \in changed})
        \cup (UNION {{NewCommand(account, s, new[1], new[2]) :
                        account \in Accounts,
                        new \in NewOrders(s, bid, ask)} : s \in Sides})

----------------------------------------------------------------------------
\* observe()

\* The last element moves to position i, where one is removed.
SwapRemove(s, i) ==
  IF i = Len(s) THEN Front(s) ELSE [Front(s) EXCEPT ![i] = Last(s)]

\* Mutant: the order that moved keeps its old entry in the index.
ForgetWithoutMoving(id) ==
  \/ id \notin DOMAIN index /\ UNCHANGED <<live, index>>
  \/ /\ id \in DOMAIN index
     /\ live' = SwapRemove(live, index[id])
     /\ index' = [k \in DOMAIN index \ {id} |-> index[k]]

Forget(id) ==
  \/ id \notin DOMAIN index /\ UNCHANGED <<live, index>>
  \/ /\ id \in DOMAIN index
     /\ LET i     == index[id]
            kept  == SwapRemove(live, i)
            moved == IF i <= Len(kept) THEN {kept[i].id} ELSE {}
        IN  /\ live' = kept
            /\ index' = [k \in (DOMAIN index \ {id}) \cup moved |->
                           IF k \in moved THEN i ELSE index[k]]

Track(id, qty) ==
  /\ live' = Append(live, [id |-> id, account |-> env.account, side |-> side,
                           qty |-> qty])
  /\ index' = [k \in DOMAIN index \cup {id} |->
                 IF k = id THEN Len(live) + 1 ELSE index[k]]

\* Mutant: only a new order has a side.
SideOfNew ==
  IF env.cmd = "New" THEN env.side ELSE None

\* The side of the order that the command may put in the book, looked up
\* before the events of a replacement take the old order out of the index.
SideOf ==
  IF env.cmd = "New" THEN env.side
  ELSE IF env.cmd = "Replace" /\ env.id \in DOMAIN index
       THEN live[index[env.id]].side
  ELSE None

BeginObserve ==
  /\ seen = None
  /\ side' = SideOf
  /\ seen' = 0
  /\ UNCHANGED <<live, index>>

\* "only New and Replace of a tracked order rest": the expect() of observe().
Panics == LET e == events[seen + 1] IN e.event = "Rested" /\ side = None

\* Mutant: only a cancellation ends an order.
EndsByCancel(e) == e.event = "Cancelled" /\ e.id # None

\* The event e says that the order it names is live no more.
Ends(e) ==
  \/ e.event = "MakerFilled"
  \/ e.event = "Cancelled" /\ e.id # None

ObserveEvent ==
  /\ seen # None /\ seen < Len(events)
  /\ ~Panics
  /\ LET e == events[seen + 1]
     IN  \/ e.event = "Rested" /\ Track(e.id, e.qty)
         \/ Ends(e) /\ Forget(e.id)
         \/ e.event # "Rested" /\ ~Ends(e) /\ UNCHANGED <<live, index>>
  /\ seen' = seen + 1
  /\ UNCHANGED side

\* Mutant: the side of this command is there for the next one.
EndObserveKeepingSide ==
  /\ seen = Len(events)
  /\ seen' = None
  /\ UNCHANGED <<live, index, side>>

EndObserve ==
  /\ seen = Len(events)
  /\ seen' = None
  /\ side' = None
  /\ UNCHANGED <<live, index>>

----------------------------------------------------------------------------
\* Op::classify: the label the benchmark gives the command.
Classify ==
  LET traded   == \E i \in DOMAIN events : events[i].event = "Trade"
      rejected == Len(events) = 1 /\ events[1].event = "Rejected"
      rested   == Len(events) = 1 /\ events[1].event = "Rested"
      type     == env.kind.type
  IN  IF env.cmd # "New" THEN env.cmd
      ELSE IF type = "PostOnly"
           THEN IF traded THEN "unreachable"
                ELSE IF rested THEN "PostOnlyRest" ELSE "PostOnlyReject"
      ELSE IF rejected THEN "OtherReject"
      ELSE IF type = "Gtc" THEN IF traded THEN "GtcMatch" ELSE "GtcRest"
      ELSE type
=============================================================================
