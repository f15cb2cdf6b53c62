# A specification of the matching engine

TLA+ models of the single-book matching engine in this repository, the TLC runs
that check them on small instances, and theorems about them checked by TLAPS.
Run from this directory:

    tlc -workers 2 -config MCReference.cfg MCReference.tla     (one line per run below)
    tlapm ReferenceProofs.tla     (and the other modules of "The proofs")

## The system

One book, one thread, no clock and no I/O: a function from a book and a command
to a book and a list of events (`docs/decisions/012-engine-boundary.md`).

| Component | State | Operations |
|---|---|---|
| Boundary types, `src/types.rs` | none | the configuration and its validation, commands, events, the static checks |
| Reference engine, `src/reference.rs` | slot generations, free stack, retired count, unordered resting orders, next arrival number | new order, cancel, reduce, replace; `submit` with its matching loop |
| FastBook, `src/book.rs` | slots, free stack, retired and live counts, per side the price levels and their occupancy bits | the same commands, on linked queues |
| Audit, `src/audit.rs` | a mirror of the live orders built from events, the ids ever seen | `check(command, events)` |
| Workload, `src/workload.rs` | a list of live orders and an index into it | `next`, `observe`, `forget`; `Op::classify` |
| Latency benchmark, `src/bin/latency/main.rs` | histograms | `record` a flow, replay it with a clock, `compare_with_legacy` |
| Original engine, `src/bin/latency/legacy.rs` | per side a map from prices to queues | `process_order` |
| Tests, `tests/` | | differential, property, scenario and allocation tests |

How they interact: a caller hands an engine one command envelope and an
`EventSink`; the engine emits into the sink and returns; the caller reads the
sink and clears it. Audit, running beside either engine, sees the same commands
and the events. Workload produces commands and observes the events. Nothing
else is shared. The differential tests feed both engines the same commands and
compare the events.

**What is hard.** There are no threads, messages, timeouts or crashes here:
process() runs to its end, and a failed assertion aborts the process. The hard
part is long sequences of legal commands and what happens *inside* one:

- slots are handed out, freed, reused and, at the end of their generations,
  retired, while ids of old orders are still in clients' hands;
- a replacement cancels the old order before it submits the new one, which may
  no longer be refused by then;
- an order enters a full book on the promise that a maker it fills gives up a
  slot, which fails if that slot retires;
- FastBook keeps the same fact in several places: links both ways, totals,
  occupancy bits, counters, generations;
- it keeps no arrival numbers, so the links alone carry time priority;
- clients and replicas know the book from events only; the audit and the
  workload generator each keep a copy of it that nothing compares with the
  book while they run.

`PROJECT.json` lists each of these hazards at the line where it bites, with the
properties that cover it.

**What makes each component correct.** Reference: its slots are accounted for,
ids are never reused, orders stay within limits, the book is never crossed,
trades respect price and time, the events tell the whole story, a rejection
changes nothing. FastBook: its redundant structures agree, and it does what
Reference does. Audit: it accepts what a correct engine emits, and its mirror
stays equal to the book; it refuses what no correct engine emits. Workload: its
list holds exactly the live orders, so that what it sends is worth measuring.
The original engine, as a baseline: it does the same work as the new one.

## The modules

| Module | What it is |
|---|---|
| `EngineTypes` | `types.rs`: configuration (with `Config::validate` as an assumption), commands, events, static checks |
| `OrderLifecycle` | abstract: an id is unissued, then live, then done, for good |
| `Reference` | `reference.rs`, and its properties |
| `FastBook` | `book.rs`, and its properties |
| `FastBookRefinement` | FastBook with history variables; the mapping to Reference |
| `Audit` | `audit.rs`: the shadow checker and its mirror |
| `AuditedReference` | `Reference` with `Audit` beside it, as in `tests/properties.rs`; the properties of the two together |
| `FaultyStream` | the same, with one fault in what the audit is shown |
| `Workload` | `workload.rs`: the generator, its list and index; `classify` |
| `RecordedFlow` | `FastBook` driven by `Workload`, as in `record()` of the benchmark and `soak()` of the tests; the properties of the two together |
| `LegacyBook` | `legacy.rs`: the original engine |
| `LikeForLike` | `LegacyBook` and `Reference` on one stream, as in `compare_with_legacy()` |
| `MCReference`, `MCFastBook`, `MCAudit`, `MCFaulty`, `MCFlow` | the above with a symmetry set, for TLC |
| `EngineLemmas` | lemmas on numbers, sequences, finite sums and walks along links |
| `ReferenceProofs` | the inductive invariant of Reference, theorems about its book; it implements OrderLifecycle |
| `EventProofs` | theorems about the events of one command of Reference, and that the events tell its book |
| `FastBookProofs` | the inductive invariant of FastBook, theorems about its book and its levels |
| `RefinementProofs` | FastBook implements Reference |
| `AuditProofs` | theorems about the audit beside Reference, with and without a fault |
| `FlowProofs` | theorems about the generator beside FastBook |
| `LikeForLikeProofs` | the original engine and Reference do the same work |

`EventProofs` extends `ReferenceProofs`, and `AuditProofs` and `LikeForLikeProofs`
extend `EventProofs`; `RefinementProofs` and `FlowProofs` extend `FastBookProofs`;
and all of them `EngineLemmas`.

`Reference` instantiates `OrderLifecycle`; `FastBookRefinement` extends
`FastBook` and instantiates `Reference`. So `ImplementsReference` carries the
behaviour of Reference, events included, over to FastBook. `Audit`, `Workload`
and `LegacyBook` have variables of their own and know an engine only through
commands and events; a composition extends an engine's module and instantiates
one of them, with the engine's `out` for the events it reads:

    Reference  <-- AuditedReference --> Audit         Reference <-- LikeForLike --> LegacyBook
                        ^
                   FaultyStream                       FastBook  <-- RecordedFlow --> Workload

### State and steps

The variables of `Reference` are the fields of `struct Reference`; `book` of
`FastBook` is the struct FastBook as one record, and each helper of the code
(`LevelPush`, `LevelRemove`, `Release`, ...) is an operator from book to book,
so that a handler composes them in the order the code calls them. Both modules
share three control variables: `pc`, `taker` (arguments and locals of
`submit`) and `out` (the events of the current command).

process() is atomic to its caller. The models cut it at every turn of the
matching loop, so that the invariants are checked in the middle of a command
too, and so that termination of the loop is something to check. The actions:

| Action | Code |
|---|---|
| `NewOrder`, `Cancel`, `Reduce`, `Replace` | the four handlers, up to their return or their call of `submit` |
| `Submit` | the refusals before the loop |
| `Fill`, `SelfTrade` | one turn of the loop |
| `Finish` | the code after the loop: filled, unfilled, rested, out of slots |
| `Drain` | the caller clears the sink |

The components around the engines are cut in the same way, where they loop
over events or orders:

| Action | Code |
|---|---|
| `Send`, `Process`, `Check`, `Clear` | one turn of the loop of `run()` in `tests/properties.rs` |
| `CheckNew`, `CheckCancel`, `CheckReduce`, `CheckReplace` | `check_command()`, up to its return or its call of `check_flow()` |
| `CheckTrade`, `CheckTerminal`, `CheckNotCrossed` | a turn of the loop of `check_flow()`, the code after it, the last check |
| `Fault`, `CheckFaulty` | the environment puts a fault in the events; the audit reads them |
| `Generate`, `Observe` | `next()` and the call of the engine; `observe()`, one event at a time |
| `SendOrder`, `RunLegacy`, `RunReference`, `ReadEvents` | the two loops of `compare_with_legacy()` |
| `ProcessOrder`, `MatchFront`, `LeavePrice`, `EndOrder` | `process_order()` of the original engine |

`Replace` therefore ends with the old order gone and `submit` about to run;
that state is where `RejectIsAlone` and `CapacityExhaustedIsRare` bite.

### What is abstracted

- `req` and `ts`, which are only copied into events; the Rust representation of
  an `OrderId` (a u64 that packs slot and generation, here the pair).
- The order of `Vec<Resting>`. The code reads it only through a scan for the
  best order and a search by id, and neither depends on it: sequence numbers
  are distinct (part of the inductive invariant) and so are ids.
- The audit's checks of `req` and `ts`, and the text of its errors.
- The draws of `Workload::next`: `GeneratedCommands` is the set of all commands
  that some outcome leads to. Its numbers (prices 1 to 99, first prices 49 and 51,
  depths to 8, quantities to 20 and 40) are constants with small values.
- The original engine's symbol (there is one book) and timestamps.
- A bitset word is the set of its one bits; a word has `WordBits` bits instead
  of 64. The book has two words, as in the code.
- Unsigned arithmetic: quantities are naturals. That none of the code's u32
  sums and differences leaves its range follows from `TypeOK` (no difference is
  negative) and `OrdersValid` (no sum exceeds `max_order_qty`).

## The runs

Bounds common to all: two accounts (enough for own and foreign orders, and for
self-trading), prices and quantities from the sets `InputPrices` and
`InputQtys`, every id with a slot up to `Capacity` (one out of range) and a
generation up to the limit. The number of commands is not bounded: slots retire,
so the state space is finite.

| Run | Instance | Question |
|---|---|---|
| `reference` | 2 slots, each used twice, prices 1..2, quantities to 2, all commands and order kinds with invalid prices and quantities | slots, ids, limits, crossing, rejections, events, queue places |
| `reference_sweep` | 2 slots used once, quantities to 3 | trades of one command: order, conservation, and the loss of a remainder |
| `fast_queues` | 3 slots used once, one price | the linked queue: head, middle and tail, both directions |
| `fast_reuse` | 2 slots used twice, one price, quantities to 2 with invalid ones | nothing of an old order survives in its slot; counters |
| `fast_levels` | 2 slots used twice, prices 1..3 over both words, one quantity | bits, levels and slots agree; best price across words |
| `fast_progress` | 2 slots used once, one price | the loop ends |
| `audit` | 2 slots used once, all commands and order kinds with invalid prices and quantities | no false alarm; the mirror is the book |
| `audit_reuse` | 2 slots used twice, one price | the ids the audit remembers |
| `audit_faults` | 2 slots used once; invalid prices too; one fault in any event of any command in any state | which faults the audit notices |
| `flow` | 2 slots used twice, prices 1..3, so that prices are clamped at both ends | what the generator sends; the labels |
| `flow_crowd` | 3 slots used once, one price, crowded from two orders on | the generator's list and index |
| `like_for_like` | all streams of 5 GTC orders, prices 1..3, quantities to 2 | the same work in both engines |

Each fast run but the last also checks `ImplementsReference` on its instance:
the shape that breaks the implementation differs (a queue of three, a reused
slot, two words), so one instance small enough for all three would be too big.
Two slots give every case of the capacity rules: full with one to be freed,
full with one to retire, all retired. A queue needs three to have a middle, and
so does the generator's list for the order that moves to be neither the one
that goes nor its neighbour. In the audit's runs the events of a command are
complete before the audit begins, so two orders are enough for a command with
two makers, the longest stream of events there is a case for. Five orders let
a level of two be swept, left in part and added to.

The properties, by what they protect:

- *Slots and ids.* `SlotAccounting` in both models (S1, S2, S3, S4 of
  `docs/invariants.md`); `IdsNeverReused`, the refinement of `OrderLifecycle`.
- *Quantities and prices.* `OrdersValid` (N1, N2), `BookNotCrossed` (L6).
- *A command's events.* `TradesInOrder` (M3, M7), `TakerConserved` (E1),
  `RejectIsAlone` (E5, O3), `CapacityExhaustedIsRare` (C2, decision 011).
- *Events and book.* `EventsTellTheBook` (E2, E4), `RestingOrdersKeepTheirPlace`
  (O2, decision 007).
- *FastBook's structures.* `QueuesWellLinked` (S2, L3, L4), `LevelsAgree`
  (L1, L2), `MakerIsLive` (decision 012), `QueueOrderIsArrivalOrder` (L5).
- *FastBook's behaviour.* `ImplementsReference` (M3, E6), `CommandsFinish`.
- *The audit is sound:* `NoFalseAlarm`, and exact: `MirrorIsTheBook`,
  `EverIsIssued` (S4).
- *The audit is strong:* `FaultsNoticed`, for the checks marked Stream.
- *The generator follows the book.* `IndexLeadsToOrders`, `TracksTheBook`,
  `NeverPanics` (the `expect` of `observe`), `OnlyLiveOrdersAddressed`.
- *The benchmark measures what it says.* `LabelsFit`, `SameFills`, `SameBook`.

**What the audit does not notice.** `FaultsNoticed` names two exceptions, both
found by TLC when the property was stated without them. The audit does not
model slots, so it takes the engine's word for every ending that depends on
them: whether an order rests, in which slot, or is refused or dropped for want
of one. And it accepts that a post-only order is cancelled by self-trade
prevention where the engines refuse it (decision 003). The differential tests
compare FastBook with the reference event by event, so neither goes unnoticed
there; in `tests/properties.rs`, which has the audit only, they would.

**Labels.** `LabelsFit` says what the labels of `classify` mean: `GtcRest`
is also the label of a GTC order that was cancelled for self-trade before it
traded anything, so that row of the benchmark's table is not about resting only.

**Fairness.** Only `CommandsFinish` needs it, and only `WF_vars(Running)`: a
command that has begun runs on, because process() neither blocks nor yields.
Nothing obliges a caller to send commands or to read the events, so `Command`
and `Drain` have no fairness. The engines never deadlock in any run: a command
can always be sent, if only to be rejected. Two runs allow the system to stop:
`audit_faults`, where the test ends at the verdict, and `like_for_like`, where
the stream ends.

**Mutants.** Every property is broken by at least one mutation of a definition
that models code. The mutants stand before the definition they mutate and are
marked as such; nothing else uses them.

## The proofs

For every configuration that `Config::validate` accepts and every set of
accounts and inputs:

| Module | Theorem | States |
|---|---|---|
| `ReferenceProofs` | `TypeCorrect` | `Spec => []TypeOK` |
| | `SlotsAccounted` | `Spec => []SlotAccounting` |
| | `OrdersStayValid` | `Spec => []OrdersValid` |
| | `NeverCrossed` | `Spec => []BookNotCrossed` |
| | `PlacesKept` | `Spec => RestingOrdersKeepTheirPlace` |
| | `IdsLiveOnce` | `Spec => IdsNeverReused` |
| `EventProofs` | `RefusalsAreAlone` | `Spec => []RejectIsAlone` |
| | `CapacityIsRarelyExhausted` | `Spec => []CapacityExhaustedIsRare` |
| | `TradesFromTheBest` | `Spec => []TradesInOrder` |
| | `NoQuantityLost` | `Spec => TakerConserved` |
| | `BookIsTold` | `Spec => EventsTellTheBook` |
| `FastBookProofs` | `SlotsAccountedFor` | `Spec => []SlotAccounting` |
| | `MakersAreLive` | `Spec => []MakerIsLive` |
| | `LevelsAddUp` | `Spec => []LevelsAgree` |
| | `QueuesHoldTogether` | `Spec => []QueuesWellLinked` |
| | `TypesHold` | `Spec => []TypeOK` |
| `RefinementProofs` | `QueuesAreInArrivalOrder` | `HistorySpec => []QueueOrderIsArrivalOrder` |
| | `FastBookImplementsReference` | `HistorySpec => ImplementsReference` |
| `AuditProofs` | `NoAlarmIsFalse` | `AuditedSpec => []NoFalseAlarm` |
| | `MirrorTracksTheBook` | `AuditedSpec => []MirrorIsTheBook` |
| | `EverTracksTheIds` | `AuditedSpec => []EverIsIssued` |
| | `AuditTypesHold` | `AuditedSpec => []AuditTypeOK` |
| | `FaultsAreNoticed` | `FaultySpec => []FaultsNoticed` |
| `FlowProofs` | `ListIsTheBook` | `RecordSpec => []TracksTheBook` |
| | `IndexIsRight` | `RecordSpec => []IndexLeadsToOrders` |
| | `ObserveNeverPanics` | `RecordSpec => []NeverPanics` |
| | `CommandsAreAccepted` | `RecordSpec => []OnlyLiveOrdersAddressed` |
| | `LabelsAreRight` | `RecordSpec => []LabelsFit` |
| | `FlowTypesHold` | `RecordSpec => []FlowTypeOK` |
| `LikeForLikeProofs` | `FillsAreTheSame` | `BothSpec => []SameFills` |
| | `BooksAreTheSame` | `BothSpec => []SameBook` |

### The book of Reference

The theorems of `ReferenceProofs` follow from one inductive invariant, `Inv`. To the properties above it
adds what they need and do not say:

- `SeqsDistinct`: arrival numbers are distinct and below the next one. Without
  it `Best` would not be determined, and the maker of a fill would be unknown.
- `FreeSlotsUsable`: a free slot has a generation left. `release` decides this
  when a slot is freed, `alloc` relies on it without looking.
- `TakerChecked`: what `submit` runs with has passed the checks of `new_order`
  or `replace`. `submit` itself does not check prices or quantities.
- the set of orders is finite, so that slots can be counted.

The argument: the book is written in three ways only (an order is removed, has
its quantities changed, or is inserted), so three lemmas (`RemoveKeepsBook`,
`UpdateKeepsBook`, `InsertKeepsBook`) carry the book part of the invariant, and
each action has a lemma that reduces it to one of them. `BestIsBest` shows that
the order the loop picks is matched before all others of its side (by
minimising the price rank and then the arrival number), and `NotMarketable`
that a taker which stops matching crosses nothing on the other side: that is
why what then rests does not cross the book. The step theorem `PlacesKept` goes
through the same three ways: `FewerKeepPlaces`, `UpdateKeepsPlaces`,
`RestKeepsPlaces`.

### The ids

`IdsLiveOnce` maps the status of an id to the generation of its slot: `live` if
an order has it, `done` if the slot has got that far, else `unissued`.
Live generations are odd, which `SlotAccounting` says and the mapping relies on:
when a slot moves on by one generation, from live to free or back to its last
free one when it retires, no other id of the slot changes its status.
`RemoveFinishes` and `InsertIssues` show that removing an order is the abstract
`Finish` and inserting one the abstract `Issue`; the other steps stutter.

### The events of a command

The properties of `EventProofs` speak of all the events since the command
began, so the invariant has to say what the earlier steps of the same command
may have left in `out`. `EventInv` has a part for each:

- `RejectInv`: a command that has emitted something and is about to run `submit`
  has passed the checks of `replace`, and they are enough: `SubmitRefusal` is
  `None`. `CallFromReplaceKeepsInv` proves it: removing the old order
  leaves the other side of the book alone, so the price is as marketable as
  before; and a slot is free, for the old order's slot is, or another was.
- `CapacityInv`: while `submit` runs, an empty free stack means that no maker
  filled so far has given its slot back and that no order was replaced; and an
  order that may rest was admitted to a full book only if it had a maker to fill.
- `TradesInv`: in the loop, every trade so far was at least as good as anything
  left on the other side, and all makers filled so far are used up unless the
  taker is.

`NoQuantityLost` is about the step in which `submit` returns. `ConservationInv`
says what holds until then: what has traded and what is left of the taker add up
to its quantity. That the sum grows by the quantity of a new trade and by
nothing else (`TradedGrows`) rests on the lemmas on sums of `EngineLemmas`, see
below.

`BookIsTold` is about every step rather than about every state. An order goes,
is changed or comes, or the book is left alone; `RemovalIsTold`, `UpdateIsTold`,
`InsertIsTold` and `NothingToTell` say which events go with each, and the lemma
of an action shows which of the four it is. That a sink is empty when a command
begins comes from `EventInv`, that an id names one order from `Inv`.

### The book of FastBook

The inductive invariant `Inv` of `FastBookProofs` says of a book (`Sound`):

- `NeighboursAgree`: a live slot is linked back by each of its neighbours, which
  are live and of its level; one without a neighbour on a side is the head or
  the tail of its level;
- `EndsAgree`: the head and the tail of a level are live slots of it without a
  neighbour on that side, it has both or none, and its bit says which;
- `Counted`: `SlotAccounting`, and that a free slot has a generation left;

and besides that nothing that rests is empty (`NothingEmpty`) and that the taker
has been checked (`TakerChecked`). The links are stated locally, of a slot and
its neighbours, and not, as `QueuesWellLinked` does, by walking the queue: a
removal or an insertion disturbs three slots, so three slots are all there is
to check, while where a walk leads would need induction along the queue. The
code again writes a book in three ways (`Leaves`, `Amends`, `Enters`), and each
action is reduced to one of them. With `TickOfBit` and `OneBit`
(a tick is found again from its word and its place in it, and setting or
clearing one bit changes no other) the best bit leads to a level that has
orders (`MakersAreLive`).

### The levels of FastBook

`Inv` looks at a slot and its neighbours only. Two things are about a whole
queue: that the total the level keeps is the sum of what is left of its orders,
and that following the links leads through all of it. `LevelInv` adds to `Inv`

- `TotalsAgree`: every total is that sum;
- `Ordered`: the slots can be numbered so that every link leads to a greater
  number. Links that agree with each other may still lead in a circle; this
  excludes it, and it survives every step, since an order that comes to rest
  takes a number greater than all others. The code keeps no such number; it is
  enough that there is one, so the invariant says only that.

The first is kept because taking an order out, changing one and adding one
change the sum by as much as the code changes the total, and `TypesHold` follows:
a total is a sum of naturals, so that subtracting an order of the level from it
cannot go below zero. From the second `QueuesHoldTogether` shows the walk to be
a bijection: a path along the links exists (`PathExists`), never returns to a
slot, for each slot is linked back to one slot only, must end within as many
steps as there are slots (by counting), ends at the tail, and misses no slot,
for the missed one with the least number would have a neighbour before it that
the walk does meet.

A sum over a finite set and a walk are defined by recursion, and induction over
data as the library states it is out of the provers' reach. `EngineLemmas` uses the
minimal counterexample instead: among the finite sets (or the numbers) for which a
formula fails there is a smallest one (`MinimalSubset`), and removing an element
from it gives a smaller one. Each formula needs a lemma of its own, since none
can be a parameter: `SumsExist`, `SumUnfolds`, `SumOfNaturals`,
`SumOfSameValues`, `PathExists`.

### FastBook implements Reference

`FastBookRefinement` adds two history variables, the number of arrivals and the
arrival number of each slot, and maps a live slot to the order it stands for.
The invariant `HInv` adds to `Inv` that recorded arrivals are below the next one
and that every link goes from an earlier arrival to a later one. Local as that
is, it is enough (`HeadIsOldest`): a slot of a level that is not its head has
an earlier one before it, so the earliest, which exists because a set of
numbers has a least one, is the head. With the best bit this makes the head of
the best level the order that `Best` of Reference chooses (`BestAgrees`). Then
each action of FastBook is the action of Reference with the same name: one
lemma each, over `RemovalAgrees`, `AmendmentAgrees` and `RestingAgrees`, which
say what the three ways of writing a book are to the set of orders.

### The audit

The audit runs when the command is over. It has the book of before the command
and the events, the engine has the book of after it, and the properties of
`AuditedReference` say nothing of the states in between. `AuditInv` says how the
one leads to the other: there is a list of books, the first of them the mirror
and the last the engine's, and each comes from the one before by a turn of the
matching loop that emitted the next one or two events (`Turn`, `Told`). The
mirror at the head of the list is the one from which `check_flow` starts; in a
replacement the old order is already out of it.

- While `submit` runs, the engine makes the list longer (`FillKeepsAuditInv`).
  A turn adds its events at the end, so the turns told before stay told
  (`TurnKept`).
- When `submit` returns, the last event says what became of the remainder (`Ends`),
  with a reason that holds of the last book of the list: nothing is left to match
  there, or the next maker has the same owner.
- The audit walks along the list: after k turns of `check_flow` the mirror is the
  k-th book and its locals are what the engine's were (`OnTrack`). That the
  trade it expects next is the one the engine made is `MirrorHasMaker`: both
  choose by price and then arrival, and arrival numbers are distinct.
- The commands that do not match anything are answered at once, and each
  refusal has a reason the audit can find in its mirror (`AnsweredAtOnce`).
  That a post-only order in the loop ends with a `Rested` and with nothing
  else, which is all the audit allows it, is `PostOnlyRests`.

That an id which comes to rest has never been used (`InsertionIssuesOne`) is
taken from the refinement of `OrderLifecycle`. TLC has checked `AuditInv` too, on the
instances of `audit` and `audit_reuse`, with the list of books computed from the
events instead of quantified over.

FastBook emits what Reference emits (`FastBookImplementsReference`), so beside it
the audit raises no false alarm either, and what `ReferenceProofs` and `EventProofs`
prove of Reference holds of it through the mapping. Neither is a theorem of
its own: tlapm cannot cite a theorem through a named INSTANCE.

### The faults

`FaultsAreNoticed` is about streams that no engine emits, but each of them is one
fault away from one that Reference does. So the proof does not need an invariant
of its own for the engine's side: the list of books of `AuditInv` is still there
when the fault comes in, and `Faulted` says where the audit can be.

- It is on the list (`OnTrack`) and has read only events that are the engine's
  (`Agrees`). Where the engine has traded, the only event that passes is the
  engine's own trade, with the `MakerFilled` that goes with it (`MisledTrade`,
  `NoEndAtATrade`): the audit recomputes everything in it. Where the engine has
  come to the end no trade passes (`NoTradeAtTheEnd`), and an ending passes that
  is not the engine's only if both depend on the slots and leave the same
  quantity (`WhatPassesAtTheEnd`).
- It has been led astray (`Strayed`): the engine refused a new order, and the
  event of the refusal was lost, repeated or replaced by an ending, so that
  check_flow() runs for an order that no engine let in. No event is a trade
  then, and if there is just one it has to end the order at once: that is where
  the exception for post-only orders comes from (`StrayedEnd`).
- It has accepted what `FaultsNoticed` excuses.

For each of the four commands one lemma shows that no other single answer passes:
an answer is determined by the mirror, a refusal by its one reason
(`NewReason`, `ReplaceReason`). What a fault can do to a sequence is
`FaultFacts`: it differs from the engine's, and if the length is the same and
all but the last event agree, the last is an altered one or another ending.
Only the single faults of `FaultyStream` are covered; two faults may cancel out.

### The generator

The generator learns of the book when a command is over, event by event, so that
until it has read the last one its list is behind. `FlowInv` says that this is
all: an order that is listed and not in the book, or in the book and not
listed, has an unread event that ends it or tells of it (`ListedIsLive`,
`LiveIsListed`). Between commands nothing is unread, and what is left is
`TracksTheBook`. To be inductive it needs, besides `Inv` of FastBook:

- `ListIsSpent`, `EndsAreFinal`: the id of a listed order, and that of an order
  an unread event ends, is not given out again. Otherwise the event that ends
  the old order would take a new one with the same id off the list. An id is
  spent once its slot is retired or has got as far as its generation;
- `RestIsNew`: an order that rests is told of by the last event only, with an id
  that the list does not have, and with the side that observe() has looked up.
  Hence the expect() is not reached, and `Track` never lists an order twice;
- `TakerIsSender`: submit() runs for the account of the command, and for the side
  that the generator finds for it, in its own list if it is a replacement;
- `NewOrderRuns`: a new order has traded, or it is as it was sent and nothing has
  been emitted. It says which single events a command may end with, and these
  are what the labels are about.

An engine step is reduced to what its events tell of the book before and the
book after (`Tells`): an order that goes is named by an event that ends it, one
that comes by a `Rested`, and no other order is named. `SameTells`, `AmendTells`,
`RemovalTells` and `RestTells` prove it for the four things a step may do to
the book, and `StepKeeps` is the rest, once for all steps. `ReadRested` and
`ReadEnd` are about the reading of one event. That swap_remove and the index
agree is `ForgetKeepsIndex`, which cares for the case that the order removed is
itself the last. That every outcome of the draws is a well-formed command, the
prices of an empty side included, is `DrawsAreWellMade`; TLC has checked `FlowInv`
on the instances of `flow` and `flow_crowd`.

### The original engine

The original engine runs an order to its end before the new one starts with it,
so the two cannot be compared step by step. `Together` compares both with the
same list: the books that lie between the fills of the original engine, from the
one that the new engine has reached to the one that the original has reached. The
original lengthens the list at its end (`MatchFrontTurns`), the new engine
shortens it at its beginning (`FillKeepsTogether`), and when both are through,
nothing of the list is left but one book, to which both add what is left of the
order: `SameBook`. A book here is a set of orders by number, without levels and slots. That the new engine takes the very turns on the list is
`FirstIsOne`: what a taker meets next, and how much of it, is determined by the
book. The fills of the list are those the original engine has made beyond the
trades of the new one, so `SameFills` comes out of the same invariant.

- `NewInv`, of the new engine: it has a slot for every order (`RoomLeft`, by
  counting accounts), no slot retires (`NoneRetires`), and no order meets one of
  its own account, for all accounts are different. Without these it would refuse
  or cancel an order, which the original engine cannot do.
- `OldInv`, of the original: each queue holds orders of its side and price by
  number, no level is empty but the one being worked on, and the prices still
  to be visited are all that an order of the other side could trade with.
  `FrontIsFirst` shows that the front of the best level is the order that comes
  first in the set.

### Assumptions and limits

The only assumptions are about constants:

- `ConfigValid`, `InputsValid`, `NoneIsNoId` of `EngineTypes`, and `NoneIsNoTaker` of
  `Reference`: the value that stands for no taker is not a taker;
- about FastBook `TicksFit`: all valid prices have a bit;
- about the generator `FlowFits` and `NoneIsNoValue` of `RecordedFlow`. `FlowFits`
  says that the first prices and the quantities it uses are valid in the
  configuration, as `Config::binary_cents` and the benchmark's limits have it;
  without it the flow would be refused. It also makes every tick a member of
  `InputPrices`, from which the type of an order's kind is built;
- about the two engines `RoomForAll`, `FlowAllowed` and `NoneIsNoOrder` of
  `LikeForLike`. `RoomForAll` says that order i is from account i and that there
  is a slot more than orders, as `compare_with_legacy` has it
  (`Config::binary_cents(n + 1)`), and that the generation limit is at least twice
  the number of orders, which is a million against `u32::MAX` there. Without
  it slots could retire and the new engine run out of them. `FlowAllowed`
  says that the prices and quantities of `gtc_flow` are valid.

**Only model-checked.** Liveness (`CommandsFinish`), for it needs fairness and
ENABLED. Every other property of every run is a theorem.

## Not modelled

- Time: the clocks, histograms and printing of the benchmark, its replays for
  latency and throughput (which run the engine as `record` does).
- The generator of random numbers and the distribution of the draws: every
  property holds for all outcomes.
- The tests as such: their loops are the compositions above, their random steps
  the input sets; the scenarios are single behaviours of the models.
- Allocation (C1) and type layout (N3, S5): static facts of the Rust code.

## Plan

Most important first:

1. *Done:* `EngineTypes`, `Reference`, `OrderLifecycle`, `FastBook`,
   `FastBookRefinement`.
2. *Done:* the invariant of Reference; theorems about its ids, its queue places,
   the events of a command, and that the events tell the book.
3. *Done:* `Audit`, composed with Reference, and with one fault in the events.
4. *Done:* `Workload`, composed with FastBook; `LegacyBook`, composed with
   Reference.
5. *Done:* the invariant of FastBook; that it implements Reference.
6. *Done:* that the audit raises no false alarm and that its mirror is the book.
7. *Done:* that the generator's list is the book, that its index leads to its
   orders and that the labels fit, from the invariant of FastBook.
8. *Done:* that the original engine's trades and book are those of Reference, and
   that the audit notices the faults.

Left for whoever takes it further: more than one fault in a stream, and the
audit beside FastBook as a composition of its own rather than through the
refinement.
