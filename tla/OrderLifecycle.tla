--------------------------- MODULE OrderLifecycle ---------------------------
(***************************************************************************)
(* What docs/decisions/002-order-ids.md promises of an order id, whatever  *)
(* the engine does to keep the promise: an id is given to one order, names *)
(* that order while it rests, and is never given to another one, so that a *)
(* command sent for an order that is gone can never reach a later order in *)
(* the same slot.                                                          *)
(***************************************************************************)
EXTENDS EngineTypes

VARIABLE status   \* of every id the engine may hand out

\* Live generations are odd and a slot stops at the limit.
OrderIds == Slots \X {g \in 1 .. GenerationLimit : g % 2 = 1}

Init == status = [id \in OrderIds |-> "unissued"]

\* Of the ids of one slot, one names a resting order at a time.
Issue(id) ==
  /\ status[id] = "unissued"
  /\ \A other \in OrderIds : SlotOf(other) = SlotOf(id) => status[other] # "live"
  /\ status' = [status EXCEPT ![id] = "live"]

Finish(id) ==
  /\ status[id] = "live"
  /\ status' = [status EXCEPT ![id] = "done"]

Next == \E id \in OrderIds : Issue(id) \/ Finish(id)

Spec == Init /\ [][Next]_status
=============================================================================
