------------------------------ MODULE Execution ------------------------------
(***************************************************************************)
(* The shell around execution.rs: transactions are prepared against the    *)
(* rows and the inventory in memory, recorded, and applied.                *)
(*                                                                         *)
(* The crate only supplies prepare, apply and the two rebuilds: "Shell     *)
(* owns durability / critical section" (execution.rs:3).  Spec is a shell  *)
(* that keeps that contract: one transaction at a time, its record durable *)
(* before it is applied, a crash between any two steps.  OpenSpec is a     *)
(* shell that does not: transactions prepared against the same memory race *)
(* to be applied and only the checks of apply stand between them.          *)
(***************************************************************************)
EXTENDS Transactions

CONSTANTS
    Inputs,           \* [kind, cid, event, page]
    Workers,          \* the tasks of the shell
    MaxSeq,           \* bound on the cursor of a row
    MaxGeneration     \* bound on the generation of the inventory

ASSUME ShellAssumption ==
    /\ \A i \in Inputs :
         /\ i.kind \in {"order", "norow", "batch"} /\ i.event \in OrderEvent
         /\ i.page \in Seq(Evidence) /\ Len(i.page) <= MaxPage
         /\ i.kind # "norow" => i.cid \in Cids
         /\ i.kind = "norow" \/ (i.kind = "batch" /\ i.event.type = "Fill") => Len(i.page) = 1
         \* FillsMustUseExecutionApi: an order event carries no fill.
         /\ i.kind = "order" => i.page = <<>> /\ i.event.type # "Fill"
    /\ MaxSeq \in Nat /\ MaxSeq >= 2 /\ MaxGeneration \in Nat
    /\ MaxGeneration < U64Max    \* the generation does not saturate

VARIABLES
    orders,       \* the rows: state, context and cursor of every order
    inventory,    \* MarketInventory
    durable,      \* what the rebuilds return for the records written so far
    pending       \* what each worker does: "Idle", or txn "Prepared" or "Logged"

vars == <<orders, inventory, durable, pending>>

Idle == [stage |-> "Idle", txn |-> None]

\* Rows whose submission was prepared and started, both journalled.
Init ==
    /\ orders = [c \in Cids |-> Row(Plain("SubmitStarted"), new_ctx, 2)]
    /\ inventory = EmptyInventory
    /\ durable = [inventory |-> [ok |-> TRUE, ingested |-> {}, inventory |-> EmptyInventory],
                  orders |-> [c \in Cids |-> [ok |-> TRUE, row |-> orders[c]]]]
    /\ pending = [w \in Workers |-> Idle]

Recorded(d, r) ==
    [inventory |-> RebuildInventory(d.inventory, r),
     orders |-> IF r.order.changed
                THEN [d.orders EXCEPT ![r.order.cid] = RebuildOrder(@, r.order)]
                ELSE d.orders]

\* A transaction without a record changes nothing when applied.
Prepare(w, input) ==
    /\ pending[w].stage = "Idle"
    /\ input.kind # "norow" => orders[input.cid].seq < MaxSeq
    /\ inventory.generation + Len(input.page) <= MaxGeneration
    /\ \E t \in {Prepared(input, orders, inventory)} :
         /\ t.record # None
         /\ pending' = [pending EXCEPT ![w] = [stage |-> "Prepared", txn |-> t]]
    /\ UNCHANGED <<orders, inventory, durable>>

Applied(w) ==
    LET t == pending[w].txn IN
    /\ ApplyMatches(t, orders, inventory)
    /\ orders' = RowsAfter(t, orders)
    /\ inventory' = InventoryAfter(t, inventory)
    /\ pending' = [pending EXCEPT ![w] = Idle]

-----------------------------------------------------------------------------
(* The shell that keeps the contract                                       *)

PrepareAlone(w) ==
    /\ \A other \in Workers : pending[other].stage = "Idle"
    /\ \E input \in Inputs : Prepare(w, input)

\* The append is fsynced before the apply.  One whose acknowledgement was lost
\* is written again; only an order record may be (an equal duplicate).
AppendRecord(w) ==
    /\ pending[w].stage = "Prepared"
    /\ LET r == pending[w].txn.record
           once == Recorded(durable, r)
       IN \/ durable' = once
          \/ pending[w].txn.input.kind = "order" /\ durable' = Recorded(once, r)
    /\ pending' = [pending EXCEPT ![w].stage = "Logged"]
    /\ UNCHANGED <<orders, inventory>>

ApplyRecorded(w) ==
    /\ pending[w].stage = "Logged"
    /\ Applied(w)
    /\ UNCHANGED durable

\* A crash loses memory and what was being prepared; a rebuild that returns an
\* error does not restart.
Restart ==
    /\ durable.inventory.ok /\ \A c \in Cids : durable.orders[c].ok
    /\ orders' = [c \in Cids |-> durable.orders[c].row]
    /\ inventory' = durable.inventory.inventory
    /\ pending' = [w \in Workers |-> Idle]
    /\ UNCHANGED durable

Next ==
    \/ \E w \in Workers : PrepareAlone(w) \/ AppendRecord(w) \/ ApplyRecorded(w)
    \/ Restart

Spec == Init /\ [][Next]_vars

-----------------------------------------------------------------------------
(* The shell that leaves everything to apply                               *)

PrepareOpen(w) == \E input \in Inputs : Prepare(w, input)

\* apply accepts: the record is written with it.
Commit(w) ==
    /\ pending[w].stage = "Prepared"
    /\ Applied(w)
    /\ durable' = Recorded(durable, pending[w].txn.record)

\* ApplyMismatch: nothing is applied and the input is prepared again later.
Refuse(w) ==
    /\ pending[w].stage = "Prepared"
    /\ ~ ApplyMatches(pending[w].txn, orders, inventory)
    /\ pending' = [pending EXCEPT ![w] = Idle]
    /\ UNCHANGED <<orders, inventory, durable>>

OpenNext ==
    \/ \E w \in Workers : PrepareOpen(w) \/ Commit(w) \/ Refuse(w)
    \/ Restart

OpenSpec == Init /\ [][OpenNext]_vars

-----------------------------------------------------------------------------
(* Properties                                                              *)

TypeOK ==
    /\ \A c \in Cids : /\ orders[c].state \in OrderState
                       /\ CtxTyped(orders[c].ctx)
                       /\ orders[c].seq \in 2..MaxSeq
    /\ inventory \in [generation : 0..MaxGeneration,
                      entries : [FillIds -> Opt(InventoryEntry)],
                      conflicts : [FillIds -> Opt(ConflictClass)]]

\* An execution is in the books of an order exactly when the inventory says the
\* order owns it, so of at most one; both agree on its economics, its side and
\* time, and the order knows no venue or fee the inventory lacks.  It holds
\* whichever of several orders the evidence is routed to and however it races.
OwnedOnce ==
    \A c \in Cids, f \in FillIds :
      LET fill == orders[c].ctx.applied_fills[f]
          entry == inventory.entries[f]
      IN /\ fill # None <=> entry # None /\ entry.owner = c
         /\ fill # None =>
              /\ entry.side = side_of[c]
              /\ entry.qty = fill.qty /\ entry.price = fill.price
              /\ entry.ts = fill.ts
              /\ fill.venue \in {None, entry.venue}
              /\ fill.fee \in {None, entry.fee}

\* MarketInventory::net, the position the market holds.
Signed(side, qty) == IF side = "BuyYes" THEN qty ELSE -qty
SignedEntry(inv, f) == Signed(inv.entries[f].side, inv.entries[f].qty)
net(inv) ==
    SumOver([f \in KnownIds(inv) |-> SignedEntry(inv, f)])

\* The net position is what the orders attributed plus the executions that no
\* order owns: nothing is counted twice or lost between the two books.
PositionExplained ==
    LET unowned == {f \in KnownIds(inventory) : inventory.entries[f].owner = None}
    IN net(inventory)
         = SumOver([c \in Cids |-> Signed(side_of[c], orders[c].ctx.attributed_fill_qty)])
           + SumOver([f \in unowned |-> SignedEntry(inventory, f)])

\* "complete durable record before apply => replay equals post-state"
\* (observation.rs:3197): a restart at any point gives the memory of now, or,
\* when the record of the pending transaction is already durable, the memory
\* after it, generation and cursors included.
RebuildIsMemory ==
    LET logged == {w \in Workers : pending[w].stage = "Logged"}
        t(w) == pending[w].txn
    IN /\ durable.inventory.ok /\ \A c \in Cids : durable.orders[c].ok
       /\ logged = {} =>
            /\ durable.inventory.inventory = inventory
            /\ \A c \in Cids : durable.orders[c].row = orders[c]
       /\ \A w \in logged :
            /\ ApplyMatches(t(w), orders, inventory)
            /\ durable.inventory.inventory = InventoryAfter(t(w), inventory)
            /\ \A c \in Cids : durable.orders[c].row = RowsAfter(t(w), orders)[c]

\* An execution once counted is never removed, re-priced, moved to the other
\* side, taken from its owner or stripped of its venue or fee, and a recorded
\* conflict is never forgotten, by any evidence in any order nor by a restart.
EntriesKept ==
    [][\A f \in FillIds :
         LET old == inventory.entries[f]
             new == inventory'.entries[f]
         IN /\ old # None =>
                 /\ new # None
                 /\ new.side = old.side /\ new.qty = old.qty /\ new.price = old.price
                 /\ new.ts = old.ts
                 /\ old.owner \in {None, new.owner}
                 /\ old.venue \in {None, new.venue}
                 /\ old.fee \in {None, new.fee}
            /\ inventory.conflicts[f] # None => inventory'.conflicts[f] # None]_vars

\* What apply lets through is what preparing now would give: a transaction
\* overtaken by another one is refused, although apply compares the inventory
\* only by its generation and an order event not even by that.
StaleNeverApplied ==
    [][\A w \in Workers : Commit(w) =>
         LET t == pending[w].txn IN
         \A now \in {Prepared(t.input, orders, inventory)} :
            /\ t.changed = now.changed /\ t.after = now.after
            /\ t.entries = now.entries /\ t.conflicts = now.conflicts
            /\ t.record = now.record]_vars
=============================================================================
