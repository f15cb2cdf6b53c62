------------------------- MODULE FastBookRefinement -------------------------
(***************************************************************************)
(* FastBook implements Reference, the claim that tests/differential.rs     *)
(* tests on random command streams.  FastBook keeps no sequence numbers:   *)
(* the order of a level's queue stands for them.  Two history variables    *)
(* record when each resting order arrived, so that the queues can be       *)
(* compared with the sequence numbers of Reference.                        *)
(***************************************************************************)
EXTENDS FastBook

VARIABLES
  arrival,    \* slot -> when its order came to rest, 0 if it has none
  arrivals    \* how many orders have come to rest

historyVars == <<book, pc, taker, out, arrival, arrivals>>

HistoryInit == Init /\ arrival = [s \in Slots |-> 0] /\ arrivals = 0

\* The slots that go from free to live in a step, one at most.
BecomesLive(s) == ~IsLive(s) /\ IsLive(s)'

RecordArrivals ==
  /\ arrival' = [s \in Slots |->
                   IF BecomesLive(s) THEN arrivals
                   ELSE IF IsLive(s)' THEN arrival[s] ELSE 0]
  /\ arrivals' = arrivals + Cardinality({s \in Slots : BecomesLive(s)})

HistoryNext == Next /\ RecordArrivals

HistorySpec == HistoryInit /\ [][HistoryNext]_historyVars

----------------------------------------------------------------------------
\* The Reference order a live slot stands for.
OrderIn(s) ==
  LET slot == book.slots[s]
  IN  [id |-> IdOf(book, s), account |-> slot.account, side |-> slot.side,
       price |-> slot.price, remaining |-> slot.remaining,
       filled |-> slot.filled, seq |-> arrival[s]]

RestingOrders == {OrderIn(s) : s \in LiveSlots}

Generations == [s \in Slots |-> book.slots[s].generation]

Ref == INSTANCE Reference WITH
  generations <- Generations,
  free        <- book.free,
  retired     <- book.retired,
  orders      <- RestingOrders,
  next_seq    <- arrivals

\* docs/decisions/010-level-queues.md, M3, E6: every step of the production
\* engine is the step of the reference on the same book, with the same events
\* in the same order.
ImplementsReference == Ref!Spec

\* L5: the queue of a level is in order of arrival.
QueueOrderIsArrivalOrder ==
  \A s \in LiveSlots :
    LET next == book.slots[s].next
    IN  next # NIL => arrival[s] < arrival[next]
=============================================================================
