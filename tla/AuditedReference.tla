-------------------------- MODULE AuditedReference --------------------------
(***************************************************************************)
(* Reference with Audit beside it, as run() of tests/properties.rs drives  *)
(* them: process a command, check its events, look at both, clear the      *)
(* events.  Audit shares nothing with the engine; it sees the command      *)
(* (env), which Reference itself does not keep, and out.                   *)
(***************************************************************************)
EXTENDS Reference

VARIABLES env, live, ever, audit_seq, apc, flow

Shadow == INSTANCE Audit WITH events <- out

auditVars == <<live, ever, audit_seq, apc, flow>>
auditedVars == <<vars, env, auditVars>>

AuditedInit == Init /\ env = None /\ Shadow!Init

----------------------------------------------------------------------------
Send ==
  /\ \E account \in Accounts :
       \/ \E side \in Sides, qty \in InputQtys, kind \in InputKinds :
            /\ NewOrder(account, side, qty, kind)
            /\ env' = NewCommand(account, side, qty, kind)
       \/ \E id \in InputIds :
            \/ Cancel(account, id) /\ env' = CancelCommand(account, id)
            \/ \E total \in InputQtys :
                 \/ /\ Reduce(account, id, total)
                    /\ env' = ReduceCommand(account, id, total)
                 \/ \E price \in InputPrices, post_only \in BOOLEAN :
                      /\ Replace(account, id, price, total, post_only)
                      /\ env' =
                           ReplaceCommand(account, id, price, total, post_only)
  /\ UNCHANGED auditVars

Process == Running /\ UNCHANGED <<env, auditVars>>

\* audit.check(), called when process() has returned.
Check ==
  /\ pc = "done"
  /\ Shadow!CheckCommand \/ Shadow!Checking
  /\ UNCHANGED <<vars, env>>

\* The verdict is in: clear the events for the next command.
Clear ==
  /\ Drain
  /\ Shadow!Return
  /\ env' = None

AuditedNext == Send \/ Process \/ Check \/ Clear

AuditedSpec == AuditedInit /\ [][AuditedNext]_auditedVars

----------------------------------------------------------------------------
\* The mirror is a book, and check_flow() has its locals while it runs.
AuditTypeOK ==
  /\ live \subseteq Orders
  /\ ever \subseteq Slots \X Nat
  /\ audit_seq \in Nat
  /\ apc \in {"idle", "flow", "book", "ok", "error"}
  /\ apc = "flow" =>
       /\ flow.kind \in Kinds /\ flow.side \in Sides /\ flow.remaining \in Nat
       /\ flow.i \in 1 .. Len(out) + 1
  /\ apc # "flow" => flow = None

\* The audit raises no false alarm: whatever the engine emits, for any command
\* in any state of the book, check() returns Ok.
NoFalseAlarm == apc # "error"

\* tests/properties.rs compares two counts.  More holds: when the audit has
\* returned, the mirror that it built from the events is the engine's book,
\* order by order, with what each has filled and has left, and its arrival
\* numbers are the engine's.
MirrorIsTheBook ==
  apc = "ok" \/ pc = "ready" => live = orders /\ audit_seq = next_seq

\* S4: the ids the audit holds for used are those the engine has used, of
\* live, free and retired slots alike, so that a second use will be seen.
EverIsIssued ==
  pc = "ready" =>
    ever = {id \in Slots \X LiveGenerations : Status(id) # "unissued"}
=============================================================================
