---------------------------- MODULE FaultyStream ----------------------------
(***************************************************************************)
(* What the audit is there for: AuditedReference, except that once, in any *)
(* state, the events of a command reach the audit with a fault in them, as *)
(* an engine with a bug would emit them.  An event is lost, emitted twice, *)
(* swapped with the next one, says something else in one of its fields, or *)
(* the last one says that another thing became of the order.  The test     *)
(* stops at the verdict.                                                   *)
(***************************************************************************)
EXTENDS AuditedReference

VARIABLE events   \* the faulty events, None as long as there is no fault

Misled == INSTANCE Audit

faultyVars == <<auditedVars, events>>

FaultyInit == AuditedInit /\ events = None

----------------------------------------------------------------------------
Lost(s) == {RemoveAt(s, i) : i \in DOMAIN s}

Repeated(s) == {InsertAt(s, i, s[i]) : i \in DOMAIN s}

Swapped(s) ==
  {[s EXCEPT ![i] = s[i + 1], ![i + 1] = s[i]] : i \in 1 .. Len(s) - 1}

Quantities == 0 .. MaxOrderQty

\* The values that the field of an event may wrongly have.
FieldValues(field) ==
  CASE field = "taker_side" -> Sides
    [] field \in {"id", "maker_id"} -> InputIds
    [] field = "price" -> InputPrices
    [] field = "reason" ->
         RejectReasons \cup {"User", "SelfTrade", "Unfilled", "Replaced",
                             "ReduceToZero", "CapacityExhausted"}
    [] OTHER -> Quantities

\* e with another value in one of its fields.
Altered(e) ==
  UNION {{[e EXCEPT ![field] = v] : v \in FieldValues(field) \ {e[field]}} :
            field \in DOMAIN e \ {"event"}}

AlteredOnce(s) ==
  UNION {{[s EXCEPT ![i] = e] : e \in Altered(s[i])} : i \in DOMAIN s}

Endings ==
  {Filled}
    \cup {Rested(id, qty) : id \in InputIds, qty \in Quantities}
    \cup {Cancelled(None, qty, reason) : qty \in Quantities,
            reason \in {"Unfilled", "SelfTrade", "CapacityExhausted"}}
    \cup {Rejected(reason) : reason \in RejectReasons}

OtherEnding(s) == {[s EXCEPT ![Len(s)] = e] : e \in Endings}

Faulty(s) ==
  (Lost(s) \cup Repeated(s) \cup Swapped(s) \cup AlteredOnce(s)
    \cup OtherEnding(s)) \ {s}

----------------------------------------------------------------------------
Fault ==
  /\ events = None
  /\ pc = "done" /\ apc = "idle"
  /\ events' \in Faulty(out)
  /\ UNCHANGED auditedVars

CheckFaulty ==
  /\ events # None
  /\ Misled!CheckCommand \/ Misled!Checking
  /\ UNCHANGED <<vars, env, events>>

FaultyNext ==
  \/ events = None /\ AuditedNext /\ UNCHANGED events
  \/ Fault
  \/ CheckFaulty

FaultySpec == FaultyInit /\ [][FaultyNext]_faultyVars

----------------------------------------------------------------------------
\* An ending that depends on the engine's slots, which the audit cannot see:
\* there was one, and which; or there was none.
EndsByCapacity(s) ==
  \/ Last(s).event = "Rested"
  \/ Last(s).event = "Cancelled" /\ Last(s).reason = "CapacityExhausted"
  \/ s = <<Rejected("BookFull")>>

\* A post-only order that would trade with an order of its own account ends
\* as if it had been allowed to: the reference refuses it.
PostOnlySelfTrade(s) ==
  /\ env.cmd = "New" /\ env.kind.type = "PostOnly"
  /\ s = <<Cancelled(None, env.qty, "SelfTrade")>>
  /\ out = <<Rejected("PostOnlyWouldCross")>>

\* docs/invariants.md, the checks marked Stream.  Two kinds of fault only get
\* past the audit.  It takes the engine's word for whether a slot is free to
\* rest in, and which, though not for how much would rest; and it lets a
\* post-only order be stopped by self-trade prevention where
\* docs/decisions/003-post-only.md has it refused.  Every other trade, fill,
\* cancellation, reduction or refusal that differs in any way from what the
\* reference emits is an error.
FaultsNoticed ==
  events # None /\ apc = "ok" =>
    \/ PostOnlySelfTrade(events)
    \/ /\ Front(events) = Front(out)
       /\ EndsByCapacity(events)
       /\ EndsByCapacity(out)
       /\ \/ Last(events).event = "Rejected" \/ Last(out).event = "Rejected"
          \/ Last(events).qty = Last(out).qty
=============================================================================
