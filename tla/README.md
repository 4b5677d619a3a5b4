# omsrs: TLA+ models, checks and proofs

omsrs is a Rust order-management crate. This directory models its core in
TLA+, model-checks the models on small instances with TLC, and proves the most
important safety properties for every instance with TLAPS. `PROJECT.json` maps
every definition to the lines it models and lists the runs, the hazards, the
findings and the theorems.

## The system

The crate has two generations of code.

* The **event-sourced core** (`lifecycle.rs`, `execution.rs`, `observation.rs`)
  for a binary-outcome venue. It is pure: functions from a state and an event to
  a new state and a list of effects. A *shell*, not part of the repository, owns
  the sockets, the HTTP calls, the journal and the locks.
* The **omspy port** (`order.rs`, `compound_order.rs`, `order_strategy.rs`, the
  brokers and `simulation.rs`): mutable order objects, baskets of them, and
  simulated brokers, in a blocking and an async variant.

| component | state | operations | interacts with | what makes it correct |
|---|---|---|---|---|
| order lifecycle (`lifecycle.rs`) | `OrderState` and `OrderCtx`: fills by id, sums, fill obligation, venue binding, authority epoch and latch, response snapshot and its domain | `apply_event`: submit, response, timeout, fill, cancel, reconcile, backfill, user_order claims, close | emits journal records, accounting, reservation and request effects to the shell | each fill booked once; the reservation is released only on complete, owned, current evidence; late money is never lost; a waiting order has a request out |
| journal rebuild (`lifecycle.rs`) | the records | `rebuild_ctx_from_journal` | read by the shell after a crash | the rebuilt context is the one in memory |
| execution transactions (`execution.rs`) | `MarketInventory` (entries and conflicts by execution id, generation) and the order rows (state, context, cursor) | `prepare_order_event`, `prepare_execution(_batch)`, `apply`, `rebuild`, `rebuild_order` | calls `apply_event`; the shell journals and applies | one owner per execution; orders and inventory agree; stale transactions are refused; records rebuild memory |
| venue observations (`observation.rs`) | `WireRegistry`: amend lineage, holds, user_order evidence per venue order; observation rounds | prepare/apply of frames, amends, rounds; folds | builds on execution transactions | a hold is cleared only by newer evidence; a lineage is proved at its generation |
| order (`order.rs`), lock (`models.rs`) | one order's quantities, status, broker id, modification count, locks | `update`, `execute`, `modify`, `cancel`, `add_lock`, `save_to_db`, async twins | a `Broker`, a persistence handle | placed at most once; filled quantity monotone and bounded; done stays done; locks and limits respected |
| compound order, strategy | a vector of orders with index and key maps | `add_order`, `add`, `update_orders`, `execute_all`, `check_flags`, `run` | orders, broker | indexes and keys name one order each; updates reach pending orders only |
| virtual, replica, paper brokers, `simulation.rs` | orders by id, delay, tickers; pending, fills, completed lists shared through handles | `order_place/modify/cancel`, `update_tickers`, `run_fill` | called by orders, share order handles | quantity conserved; a canceled order is not filled; each order completes once |
| async broker trait (`async_broker.rs`) | none | `cancel_all_orders`, `close_all_positions`, `CancelOutcome` | brokers | every open order is attempted once although some fail |
| persistence | a SQLite table | upsert by id | orders | the row is the last state saved |
| `yes_inventory.rs`, `utils.rs`, `clock.rs`, `parity_gate.rs` | none | sums, rounding, clocks, a CI tool | | |

The hard behaviours. In the event-sourced core: WS fills, HTTP answers, backfill
pages and reconciles of one order arrive in any order, repeated, with more or
less of their metadata; fills race cancels; an order may be bound to its venue id
before or after its fills are seen, and amended to another client id; REST rows
lag; a crash may fall between any two steps; and the same execution may be routed
to several rows. In the omspy port: order handles shared between threads whose
calls take several critical sections; futures dropped at an await; writes that
fail or land late; answers that are lost; reports out of order; objects read back
from their rows. `PROJECT.json` lists them as hazards, each at its line.

## Modules

| module | models | extends |
|---|---|---|
| `OrderCtx` | the `OrderCtx` struct and its arithmetic: authority latch, obligation, binding, response domain, booking of one fill | |
| `JournalFold` | the journal records and `rebuild_ctx_from_journal` | `OrderCtx` |
| `OrderMachine` | every handler under `apply_event`, as functions of state, context and event | `JournalFold` |
| `Lifecycle` | one order as a transition system, one action per event, with the journal, the books, the reservation and the requests its effects drive; the properties | `OrderMachine` |
| `SumProofs` | the sum over a finite set, as the fold of `OrderCtx` computes it: lemmas | `OrderCtx`, `FiniteSetTheorems`, `WellFoundedInduction`, `TLAPS` |
| `OrderMachineProofs` | what each handler keeps: lemmas on the operators of `OrderMachine` | `OrderMachine`, `SumProofs`, `TLAPS` |
| `LifecycleProofs` | the theorems about `Lifecycle` | `Lifecycle`, `OrderMachineProofs` |
| `Transactions` | `execution.rs`: adjudication, preparing, applying, rebuilding | `OrderMachine` |
| `Execution` | the shell's transactions over several rows and one inventory, with and without a critical section; the properties | `Transactions` |
| `TransactionsProofs` | what adjudication, preparing and applying keep: lemmas on the operators of `Transactions` | `Transactions`, `OrderMachineProofs`, `FiniteSetTheorems` |
| `ExecutionProofs` | the theorems about `Execution` | `Execution`, `TransactionsProofs` |
| `WireRegistry` | `observation.rs`: the registry of wires, its folds, frames, amend proofs, observation rounds, as operators | `Transactions` |
| `Observation` | one wire: the venue's order and its versions, late evidence, own actions, rounds, rows, inventory and registry under a crashing shell; the properties | `WireRegistry` |
| `ObservationProofs` | the theorems about `Observation`, on lemmas about the operators of `WireRegistry` | `Observation`, `TransactionsProofs` |
| `Simulation` | the simulated order of `simulation.rs` and the rules by which a price fills it | |
| `MatchingEngine` | abstract specification: what a matching engine promises about each order | |
| `Replica` | both replica brokers over shared handles; the properties, and the refinement of `MatchingEngine` | `Simulation` |
| `ReplicaProofs` | the theorems about `Replica`, the refinement included | `Replica`, `FiniteSetTheorems`, `TLAPS` |
| `OmsOrder` | the order object of `order.rs` with its lock, as operators on a record | `Simulation` |
| `VirtualBroker` | placing, modifying, canceling and reporting of the virtual brokers, as operators on an entry | `OmsOrder` |
| `Basket` | a compound order in a strategy, its order objects, their table and the virtual broker, sync and async; the properties | `VirtualBroker` |
| `BasketProofs` | the theorems about `Basket` | `Basket`, `FiniteSetTheorems`, `WellFoundedInduction`, `TLAPS` |
| `MCLifecycle`, `MCExecution`, `MCObservation`, `MCReplica`, `MCBasket` | the small instances | |

**How code and model correspond.** A handler in Rust mutates `&mut OrderCtx`,
pushes effects and returns an outcome. In `OrderMachine` it is an operator that
threads a *work* record (`NoWork`) through the same calls in the same order: the
context, the records appended, the quantities booked, the requests, the
reservation effect. Early returns are the branches of the operator, halting ones
included, so what was mutated and journalled before a halt is kept, as in the
code. `Lifecycle!Step` executes the effects. A rejected event changes nothing
and is no step.

The journal is represented by what the rebuild would return for it
(`durable`): the rebuild is a left fold, so it can be advanced by the records of
each step.
The same holds for `MarketInventory::rebuild` and `rebuild_order` in `Execution`.

Abstractions: ids are model values; a page has at most two fills (`MaxPage`);
prices, quantities and fees are small naturals; `u64::MAX` is the constant
`U64Max`, so saturation and overflow checks are within reach; texts (details,
event names, sources, conflict witnesses) are left out because no transition
reads them. Of the records the fold ignores only the one of an own action is
represented. `side_of` is the side
of a row's context; in `Transactions` a row of another ledger is a member of
`ForeignRows`. Inputs for which `prepare_*` returns an error yield no transaction
and are not represented.

The shell of `Execution` is external: `src/` only says "Shell owns durability /
critical section" (execution.rs:3) and "complete durable record before apply"
(observation.rs:3197). `Spec` is a shell that keeps this contract, `OpenSpec` one
that has no critical section, so that the checks of `apply` are what is tested.

**Observation.** The state is what the shell owns (`orders`, `inventory`, `reg`,
the open `round`, the journal as `durable` and the position `pos` that dates
frames and holds) and what it cannot see (`venue`, the own `action` in flight).
Every version the venue's order ever had may be delivered at any later time, as a
frame (`UserOrderReceived`), as the row of a round (`RoundFinish`) or as a REST
proof; every fill may be delivered by the stream, with or without its wire, or by
the page of a round. `Transact` feeds creates, fills, answers and claims through
`Transactions`, and the registry folds the record, as `WireRegistry::fold` does.
A round is several steps, because the shell fetches pages between `begin` and
`finish`; everything else is prepared, appended and applied in one step, which is
the contract the code states.

**Replica.** Collections of `Arc<Mutex<VOrder>>` hold order numbers, and `orders`
is the shared cell. The synchronous methods take `&mut self` and are one step. The
asynchronous ones never hold two locks, so each critical section is a step of the
calling thread: a cancel is two, a `run_fill` reads the handles, then the prices,
then takes each handle twice (update, then look), then `inner`.

**Basket.** `task` is the call that has the basket borrowed: nothing else runs on
the basket meanwhile, but the clock, the venue and the blocking pool go on. An
answer is a step of its own, so that a future may be dropped (`Drop`) or the
process stop (`Restart`) between the broker's doing and the storing of the id. The
synchronous and asynchronous compounds have the same control; `style` fixes which
one a behaviour has, and only the asynchronous one can be dropped or write late.
`reports` holds every snapshot the venue could have given out; consumers deliver
any of them at any time. Three ghosts bound what is claimed: `torn` (slots a write
or answer of which was lost or overtaken), `shrunk` (slots modified below their
fills) and, per venue order, `peak` and `modified`.

## Runs

| run | instance | shows |
|---|---|---|
| `identity` | two venue ids; fills with the right, the wrong and no venue id; responses, reports and claims of both | `Ownership`, `ReleaseEarned`, `ClosedWithoutEvidence`, `RebuildFailsOnlyHalted`, `EvidenceMonotone` |
| `quantity` | one venue id; every quantity from 0 to one above the order quantity in responses, reports and claims; wires shared with other members; `U64Max = 2`, so the epoch saturates | `TypeOK`, `EvidenceBounded`, `StateMirrorsCtx`, `HoldAgrees`, `WaitingIsDriven`, `CancelNeverReleases`, `FrozenStaysFrozen` |
| `domain` | two prices, late fees, timestamps on both sides of the response boundary, boundaries that are and are not reliable | `BooksBalance`, `DomainByIdentity`, `RebuildAgrees` |
| `restart` | the `identity` inputs | expected violation: `RebuildExact` |
| `recovery` | one worker, crashes; two competing orders, a foreign row, no row; repeated, upgrading, contradicting and wrong-side evidence | `PositionExplained`, `RebuildIsMemory`, `EntriesKept` |
| `race` | two workers without a critical section | `TypeOK`, `OwnedOnce`, `StaleNeverApplied` |
| `amend` | an order and its amend successor on one wire, one fill, a hold and a frame, one round, crashes | `KnownIsTrue`, `RolesMirrorRows`, `RebuildIsMemory`, `GapNeverReproved` |
| `round` | one order, two fills with and without their wire, a decrease, two rounds with complete and incomplete pages and lagging rows | `SettledIsComplete`, `HeldIsInventory`, `ReadyIsAudited`, `WireKept` |
| `hold` | one order, one round, one hold | expected violation: `OldRoundKeepsHold` |
| `replica` | two orders, two threads, prices 0, 1 and 2, one modify; the sync and the async broker | `CompletedOnce`, `KeptOrReported`, `Refines`, `ClosedIsReported` |
| `dropped` | the sync broker of `replica` | expected violation: `DoneAreMoved` |
| `basket` | two orders (one converted to market, one canceled at expiry), one modify below the quantity, one disturbance out of lock, failed roll, lost write, dropped call and restart, one forced status, three clock values; sync and async | `OnePlacement`, `FillsWithinQuantity`, `BooksBacked`, `PlacedIsDurable`, `EveryOrderAddressable`, `FillMonotone`, `ExpiredIsCanceled` |

**Bounds.** Quantity 2 and two fill ids are the least with a partial fill, an
exact fill and an overfill, and with a page that fails in its middle. The
`Lifecycle` runs have no bound on depth: the state space is finite because every
counter saturates or is bounded by the quantity. In `Execution`, `MaxSeq` and
`MaxGeneration` cap the cursor and the generation; they leave room for a
submission, a fill, a cancel and a late fill on one row, and for an entry, its
upgrade and a conflict. All three conflict classes, every provenance but
`Recovered` (which needs fills from before the inventory existed) and the states
`Halted`, `Filled`, `Canceled`, `ReconcilePending` and
`ImmediateFillUnattributed` are reached. `U64Max` is above `MaxGeneration`
there: once the generation saturated it could no longer tell two inventories
apart, which 2^64 executions do not reach.

In `Observation` an order and its successor, and one execution per member, are the
least with an amend in flight while evidence of both client ids is delivered;
`MaxVersion = 4` leaves room for creation, amend, fill and end; `MaxPos` bounds
frames and holds together (a frame before and after a hold), `MaxRounds` the
rounds. The two runs split the inputs: amends, frames and holds in `amend`,
decreases, late wires and rounds in `round`. In `Replica` two threads and two orders are the
least with a cancel against a fill and with another order that must not be
affected; quantities 1 and 3 are below and above the 2 that are ordered. In
`Basket` one disturbance suffices for every property that excludes `torn` slots,
and `MaxTime = 2` lets an order expire and a lock run out before the last check
of the flags. Where `CHECK_DEADLOCK FALSE` is set the system may stop because a
bound is used up; `basket` is checked for deadlock.

**Fairness.** `Lifecycle`, `Execution` and `Observation` assume none: only safety
is checked of them, and that a waiting order is always driven is the invariant
`WaitingIsDriven`. `Replica` assumes weak fairness of each thread's steps (the
bodies of the asynchronous methods contain no await, so a call once polled runs
to its end) and of calling `run_fill` (the owner drives the simulation once per
tick; nothing is filled otherwise). `ClosedIsReported` needs no more: an order
that is closed stays closed (`Refines`), so it is still found when a thread gets
round to it. It is stated for behaviours in which the instruments end up
priced: `run_fill` passes over the others. `Basket` assumes weak fairness of the steps of a call under way
and of the clock, and strong fairness of beginning a check of the flags: other
calls may always be under way when one looks, but a program with orders that
expire calls `check_flags` again and again. Nothing is assumed of the venue,
reports or the other calls.

### Refinement

`MatchingEngine` has two variables: the stage of each order (open, closed,
canceled, reopened) and the set of reported orders. `Refines` maps the shared
cells and `completed` to them and says that each step of either broker is a step
of the engine or none: closing is final, a cancel stops an order until a modified
quantity reopens it, and nothing that was open throughout is reported.

Each property has a mutant: a plausible defect of the code (a dropped guard, a
missing reset, a wrong fold) under which TLC finds it violated. The mutants are
next to the definitions they replace, marked `Mutant:` or "A plausible mistake".

### Findings

`restart`: the comment of the test at lifecycle.rs:8993 says the rebuilt context
equals the one in memory. It does not after a `UserOrderRestingClaim` or
`UserOrderTerminalClaim`: these set `last_venue_remaining_qty` without a record.
`RebuildAgrees` states what does hold: everything else is equal, and a restart
never believes its authority fresher than memory did. The transactions of
`execution.rs` journal the whole context and are not affected (`RebuildIsMemory`).

`hold`: the comment at observation.rs:71 says that a REST round captured before
another hold must not clear it. `finish` never compares the round with
`authority_hold_revision` (only the proof by a frame does, line 736): a fresh
consistent round that began before the hold clears it.

`dropped`: the doc of `run_fill` (replica_broker.rs:191) says that done orders are
moved into `completed` and then filtered out of `fills`. The loop passes over
orders without a price but the filter does not: an order filled at its placement
against a last price of 0 leaves `fills` unreported. The asynchronous broker
filters by what it collected and keeps such orders (`KeptOrReported`).

## Proofs

The theorems hold for every value of the constants that satisfies the named
assumptions; the runs evaluate the assumptions on their instances.

| module | proved |
|---|---|
| `LifecycleProofs` | `TypeOK`, `EvidenceBounded`, `Ownership`, `BooksBalance`, `DomainByIdentity`, `HoldAgrees`, `ReleaseEarned`, `StateMirrorsCtx`, `WaitingIsDriven`, `EvidenceMonotone`, `CancelNeverReleases`, `FrozenStaysFrozen`, from the inductive invariant `IInv`; `RebuildAgrees`, `RebuildFailsOnlyHalted`, `ClosedWithoutEvidence`, from `IInv` and `Rebuilt` |
| `ExecutionProofs` | of the crashing shell (`Spec`): `RebuildIsMemory`, `EntriesKept`, `OwnedOnce`, `PositionExplained`; of the shell without a critical section (`OpenSpec`): `TypeOK`, `OwnedOnce`, `StaleNeverApplied` |
| `ReplicaProofs` | `TypeOK`, `CompletedOnce`, `KeptOrReported`, and the refinement of `MatchingEngine` (`Refines`) |
| `BasketProofs` | `TypeOK`, `OnePlacement`, `FillsWithinQuantity`, `BooksBacked`, `PlacedIsDurable`, `EveryOrderAddressable`, `FillMonotone` |
| `ObservationProofs` | `RebuildIsMemory`, `RolesMirrorRows`, `HeldIsInventory`, `ReadyIsAudited`, `GapNeverReproved`, `WireKept`, from the inductive invariant `Inv`; `KnownIsTrue`, from `Inv` and `KnownInv` |
| `SumProofs`, `OrderMachineProofs`, `TransactionsProofs` | the lemmas on sums, handlers and transactions that the first two and the last rest on |

**Assumptions.** Constants are what their names say: quantities are naturals, the
order quantity fits the counter width, the rows of a market are finitely many, `None` is no id and no record (`QtyAssumption`,
`NoneAssumption`, `PayloadAssumption`, `EntryAssumption`, `RowAssumption`,
`ShellAssumption`, `WireAssumption`, `ActionAssumption`, `ObservationAssumption`, `BasketAssumption`);
the bounds on generations and on the versions of the venue's order are below the
width of the code's counters (`ObservationAssumption`). Inputs are well-typed records, pages have
at most `MaxPage` fills, calls and quantities are natural numbers
(`InputAssumption`, `CallAssumption`). Nothing is assumed of the order in which
inputs arrive.

**Order lifecycle.** One inductive invariant, `IInv`. None of the properties is
inductive alone: that a release is earned needs the obligation to be bounded by
the quantity, that the states carry the bound venue id, and that a pending
target never exceeds the obligation; the bound on the target in turn needs that
targets are only made from the obligation. `IInv` therefore joins what holds of
every context the code can build (`CtxInv`), what relates it to the state, and
what a released reservation implies. That a pending state mirrors its context
(`Mirrors`) is part of what relates them, and needs to be said of the one state
that only exists inside a handler, an immediate fill not yet attributed, too.
That a waiting order is driven is not a property of single outcomes: a late event
may leave the order waiting and ask for nothing, because earlier requests still
stand. So `Driven` says of an outcome that it stays in a state the handler found
(`standing`) or comes with the requests its state needs; an answer of the shell,
which uses up the request, finds nothing standing. A handler is proved once, as a lemma on its
operator: given a work record that satisfies `WorkInv` it returns an outcome that
satisfies `OutcomeInv`. Both are relative to the context the handler started
from: evidence only grew, and every fill now applied was known then or came with
the event. The step of each action is an instance of the lemma of its handler;
the temporal theorems combine the steps by PTL.

**Journal rebuild.** `Rebuilt` says that the journal of an order rebuilds into a
context that agrees with the one in memory (`Agrees`), or that the rebuild fails and
the order is halted. Agreeing is equality of everything but the latch and the last
venue remaining, and of these two what a restart may rely on: authority that the
rebuild believes in is fresh, in memory too, and a remaining is known of a bound order
only. `Rebuilt` is inductive relative to `IInv`.

The rebuild is a fold over the records of a step, and induction over data is beyond
the installed provers. All that is needed of the fold, though, is its equations:
nothing written changes nothing (`RebuildStart`), one more record is one more step
(`RebuildAppend`), a rebuild that has stopped stays where it is (`RebuildFailed`).
They follow from the recursive function of the fold being unique and existing for
every number of records, both shown with a least counterexample. On top of them stand
three layers: what each type of record makes of a rebuilt context; what each writing
operation of a handler leaves in the journal (`Refolds`: the records so far rebuild
into a context that agrees with the one in memory at that point); and, per
handler, that its outcome does so too, or halts an order whose journal no longer
rebuilds (`Rebuilds`). The latter happens in the source: a response is journaled
before its venue id and its quantity are checked; a conflicting id or more than the
order quantity halts the order, and the rebuild stops at the record too. In between, the journal may be ahead of memory by one raised obligation
(`Sees`); no handler ends there.

For `ClosedWithoutEvidence`, `IInv` says of a closed submission that memory holds no
evidence of it, and agreement carries this over to the journal.

**Execution transactions.** The hard part is what a prepared transaction is worth
when it is applied. `Inv` (one shell with crashes) says that the transaction
under way was prepared from the rows and the inventory of now, and that what is
rebuilt from the journal is the memory, or the memory after the one transaction
that is logged and not yet applied. `OpenInv` (workers without a critical
section) says instead that a pending transaction was prepared from the inventory
of now or from one of an earlier generation, and that equal generations mean
equal inventories: `apply` refuses the stale ones. That is where `MaxGeneration`
below `U64Max` is used. `OwnedOnce` needs more than itself: the entry of every
execution a row has applied names that row as its owner and agrees with what was
applied (`Owns`). A transaction keeps this because of the origin-relative part of
`OutcomeInv`: what a handler applies was known before or is what adjudication
let through.

**Sums.** The running totals, the ledger and the net position are sums over the
executions, and the code keeps them by adding. `SumOver` is a fold over a finite
set, and the library's induction theorems, which take an operator as a parameter,
cannot be instantiated by the installed provers. `SumProofs` therefore builds the
fold's recursive function in layers by cardinality, with the least counterexample
taken by the well-founded order of the naturals, and states induction over the
subsets of a finite set for a *set* of subsets (`SubsetInduction`). From there:
adding an element adds its value (`SumExtend`), changing one value changes the sum
by the difference (`SumPoint`), disjoint parts add up (`SumDisjoint`). `CtxInv`
says that the totals of a context are the sums over its applied fills
(`Balanced`), which booking keeps by `SumExtend` and late money by `SumPoint`;
`WorkInv` relates the totals to the effects emitted so far, so the ledger
follows. The sums of the response domain (`Exact`) are kept by the same lemmas over
the fills inside the boundary, but not by every operation: between the assignment of
a response snapshot and the recomputation they are those of the snapshot before. The
lemmas of the operations therefore keep `Exact` only where the origin claims it
(`Claimed`), the steps in between are proved under `Relaxed` origins, and the one
handler that halts there leaves an order whose sums nothing reads any more, which is
why `DomainByIdentity` excepts halted orders. `PositionExplained` needs in addition only that finitely many executions
are known: the entries a row owns are the fills it applied (`Owns`), order by
order over the finite set of rows.

**Venue observations.** `Inv` says that the memory is sound and that the journal
restores it (`durable = Restored(...)`). Restoring is not inductive without the
first part: the rebuild folds a record into what it has rebuilt so far, and gives
the memory only if the record is newer than all it has seen of its order (then it is
folded) or is the last of them written again (then it is not).
`Sound` joins the rows and the inventory
(`MemorySound`, the invariant of `ExecutionProofs`), the registry (`RegSound`:
cursors seen are those of the rows) and the wire (`WireSound`), which has one
conjunct per property and the strengthening each needs:

* `WireInv`: the members are distinct orders, of which only the last is Current,
  and evidence and lineage have their types;
* `RolesInv`, for `RolesMirrorRows`: the roles are those of the rows. A core record
  that binds or ends an order, and a round that ends several, change both sides in
  one step, and a halted order has ended too;
* `AuditInv`, for `ReadyIsAudited`: what is explained without an owner was covered by
  a round. A late execution without an owner takes the explanation back, also when
  the wire gets its first member only afterwards;
* `GapInv`, for `GapNeverReproved`: generations that lost their authority are not
  ahead of the wire's. An open lineage is of a later generation than all of them, so
  what it proves is none of theirs; otherwise the order proved there keeps the hold
  until it has ended, and an order that has ended is not current.

`Learns` is the part of every lemma that relates a wire to what it was, from which
`WireKept` follows for every step. The lemmas are about the operators of `WireRegistry`: a fold, a
transaction, a frame, a hold, a proof and a round each keep `WireSound` for any
registry, wire, rows and inventory, and each step of `Next` is an instance.

`KnownIsTrue` compares the wire with the venue and needs a second invariant,
`KnownInv`, inductive relative to `Inv`. Its argument is that whatever the shell may
still receive is some version of the venue's order, so the invariant speaks of all
of them:

* `ActionKnown`, `LineageKnown`: an own action in flight and the lineage it opened
  belong together until its effect is observed, and no version carries the
  successor's client id before the venue has applied the amend;
* `VersionsKnown`: every version is of a member, of the order before its first
  answer, or of a successor before its answer. The generation counts observed
  actions and stays below the number of versions, so it never overflows;
* `ProofsKnown`: unless an applied action is still unobserved (`Pending`), every
  version that could prove the remaining at the present generation (any at
  generation 0, otherwise those of the client id that is proved or that the lineage
  names) tells the size the order has now, and an observation already made adds up
  to that size with the executions it covered;
* `MemoryKnown`: a row is bound to this wire or untouched, no other wire has members,
  and every execution counts one and is a member's or nobody's, so a count of
  executions is a quantity.

While an effect is pending nothing is claimed of the proofs; when the action is
observed, the generation moves past all of them at once. That step is where the
invariant is re-established, and it is why a version from before a decrease, which
keeps the client id, cannot prove the remaining after it. The core
writes the record of an own action only for the event that observes one (`Unowned`,
proved with the handlers in `TransactionsProofs`), so no other event moves the
generation.

**Replica brokers.** The steps of an asynchronous call hold what they read before
a lock was given up, and the invariant (`ThreadSound`) says what of it stays
true: what a thread is about to report has left the open stage, and an order that
left it does not come back. The refinement is a lemma per step: it maps to a step
of the engine or to none.

**Basket.** Every order of the venue whose slot is not `torn` is known by its id
to an order object, and to its row, or to the one call that waits to store it. A
write that is awaited writes what the order holds; the others exist only for
`torn` slots. An order of the venue that was never modified says of its fills no
more than its `peak`, however its quantities are split anew, so no late report can
lower or overfill an order object. The index is a bijection between the numbers
in use and the orders.

Only model-checked:

* `SettledIsComplete`: it depends on how orders end, so its invariant has to relate
  the obligation of every member's row to the sizes the venue's order had when that
  member was current, through every handler that may end an order;
* liveness (`ClosedIsReported`, `ExpiredIsCanceled`) and anything about ENABLED:
  out of the prover's reach.

## Plan

1. Done: the models and runs of the core, the execution transactions, the venue
   observations, the replica brokers and the basket; the proofs listed above.
2. `Observation`: `SettledIsComplete`, by adding the rows' obligations to `KnownInv`.

## Not modelled

* `persistence.rs` beyond upsert and read: SQL and the conversion of columns.
* `broker.rs`, `async_broker.rs`, `brokers.rs`: default methods that loop over the
  lists of a broker and keep no state, and a broker that records calls.
* Of the virtual brokers: tickers and their random prices, tables of orders by
  user, and the typed outcome of the asynchronous cancel. Of both simulated
  brokers: average prices, timestamps and messages, which decide nothing.
* Of the order and the compound: prices and the kwargs they are sent in, peg
  helpers, positions and mark-to-market, keys (treated like indexes),
  `with_orders`, `run`.
* Of `observation.rs`: several ledgers, and the fields that are constant on a wire.
* `yes_inventory.rs` (a signed sum), `utils.rs` and `clock.rs` (arithmetic on prices,
  clock implementations), `parity_gate.rs` (a CI tool).
* The read-only views of `execution.rs` (`view`, `checksum_diagnostic`,
  `execution_debt`, `legacy_fill_ids`) change no state.
* Transactions of the shell: its sockets, requests and locks are not in the
  repository; `Execution` and `Observation` model the contract the code states.
