---------------------------- MODULE RecordedFlow ----------------------------
(***************************************************************************)
(* FastBook driven by Workload, as record() of src/bin/latency/main.rs and *)
(* soak() of tests/differential.rs drive it: the generator reads the best  *)
(* prices and makes a command, the engine runs it, the generator observes  *)
(* the events, the command is labelled.  The two share nothing else: that  *)
(* the generator addresses the engine's orders at all rests on its list.   *)
(***************************************************************************)
EXTENDS FastBook

CONSTANTS target_live, FirstBid, FirstAsk, MaxDepth, MaxOver, SmallQty, LargeQty

\* The generator is written for a configuration that accepts what it makes:
\* Config::binary_cents with an upper limit above its quantities.  Each tick
\* is one of the prices that Kinds is made of.
ASSUME FlowFits ==
  /\ FirstBid \in MinTick .. MaxTick /\ FirstAsk \in MinTick .. MaxTick
  /\ MaxDepth \in Nat /\ MaxOver \in Nat /\ target_live \in Nat
  /\ SmallQty \in Nat \ {0} /\ LargeQty \in SmallQty .. MaxOrderQty
  /\ MinTick .. MaxTick \subseteq InputPrices

\* What an envelope may hold.
Commands ==
  [cmd : {"New"}, account : Accounts, side : Sides, qty : Nat, kind : Kinds]
    \cup [cmd : {"Cancel"}, account : Accounts, id : Slots \X Nat]
    \cup [cmd : {"Reduce"}, account : Accounts, id : Slots \X Nat, total : Nat]
    \cup [cmd : {"Replace"}, account : Accounts, id : Slots \X Nat,
          price : InputPrices, total : Nat, post_only : BOOLEAN]

\* Where the code has no command, no side or no count of events read, None is
\* not one.
ASSUME NoneIsNoValue == None \notin Commands \cup Sides \cup Nat

VARIABLES env, live, index, side, seen

Flow == INSTANCE Workload WITH events <- out

flowVars == <<live, index, side, seen>>
recordVars == <<vars, env, flowVars>>

RecordInit == Init /\ env = None /\ Flow!Init

----------------------------------------------------------------------------
\* FastBook::process, on the envelope e.
Begin(e) ==
  \/ e.cmd = "New" /\ NewOrder(e.account, e.side, e.qty, e.kind)
  \/ e.cmd = "Cancel" /\ Cancel(e.account, e.id)
  \/ e.cmd = "Reduce" /\ Reduce(e.account, e.id, e.total)
  \/ /\ e.cmd = "Replace"
     /\ Replace(e.account, e.id, e.price, e.total, e.post_only)

\* flow.next(engine.best_bid(), engine.best_ask()), and the engine begins.
Generate ==
  /\ pc = "ready"
  /\ \E e \in Flow!GeneratedCommands(Best("Buy"), Best("Sell")) :
       Begin(e) /\ env' = e
  /\ UNCHANGED flowVars

Process == Running /\ UNCHANGED <<env, flowVars>>

\* flow.observe(), called when process() has returned; env is the command
\* until the generator has observed it.
Observe ==
  /\ pc = "done" /\ env # None
  /\ \/ (Flow!BeginObserve \/ Flow!ObserveEvent) /\ UNCHANGED env
     \/ Flow!EndObserve /\ env' = None
  /\ UNCHANGED vars

Clear ==
  /\ Drain
  /\ env = None
  /\ UNCHANGED <<env, flowVars>>

RecordNext == Generate \/ Process \/ Observe \/ Clear

RecordSpec == RecordInit /\ [][RecordNext]_recordVars

----------------------------------------------------------------------------
TrackedOrders ==
  [id : Slots \X Nat, account : Accounts, side : Sides, qty : Nat \ {0}]

\* The list is a list of orders, and observe() has its locals while it runs.
FlowTypeOK ==
  /\ live \in Seq(TrackedOrders)
  /\ DOMAIN index \subseteq Slots \X Nat
  /\ side \in Sides \cup {None}
  /\ seen \in 0 .. Len(out) \cup {None}
  /\ seen = None => side = None

\* At every event inside observe(), the index holds just the tracked orders
\* and leads to each: no order is listed twice, and none is out of reach of
\* the event that ends it.
IndexLeadsToOrders ==
  /\ \A i \in DOMAIN live : index[live[i].id] = i
  /\ DOMAIN index = {live[i].id : i \in DOMAIN live}

\* The tracked order t stands for the order in slot s.
Stands(t, s) ==
  LET slot == book.slots[s]
  IN  /\ t.id = IdOf(book, s)
      /\ t.account = slot.account /\ t.side = slot.side
      /\ slot.remaining + slot.filled <= t.qty

\* Between commands the list holds just the engine's live orders, each with
\* its owner and side, through fills, replacements, slot reuse and retirement.
\* Its quantity is the one it rested with, an upper bound of what it is now.
TracksTheBook ==
  pc = "ready" =>
    /\ \A i \in DOMAIN live : \E s \in LiveSlots : Stands(live[i], s)
    /\ \A s \in LiveSlots : \E i \in DOMAIN live : Stands(live[i], s)

\* "only New and Replace of a tracked order rest", src/workload.rs:232.
NeverPanics == seen \in 0 .. Len(out) - 1 => ~Flow!Panics

\* No command of the flow is wasted on an order that is gone or on a value the
\* engine does not accept: it is refused only for want of a slot, as a
\* post-only order that would trade, or as a reduction to more than is left.
OnlyLiveOrdersAddressed ==
  \A i \in DOMAIN out : out[i].event = "Rejected" =>
    out[i].reason \in {"BookFull", "PostOnlyWouldCross", "InvalidChange"}

Only(type) == Len(out) = 1 /\ out[1].event = type

\* The labels of the benchmark say what happened: a post-only order never
\* trades, one that is not labelled as resting was refused, and a GTC order
\* that is has put all of its quantity in the book, except that self-trade
\* prevention may have cancelled it.
LabelsFit ==
  pc = "done" /\ env # None =>
    LET label == Flow!Classify
    IN  /\ label # "unreachable"
        /\ label \in {"PostOnlyReject", "OtherReject"} => Only("Rejected")
        /\ label = "GtcRest" =>
             \/ Only("Rested") /\ out[1].qty = env.qty
             \/ out = <<Cancelled(None, env.qty, "SelfTrade")>>
        /\ label = "Cancel" => out[1].id = env.id
=============================================================================
