---------------------------- MODULE ExecutionProofs ----------------------------
(***************************************************************************)
(* The shell of Execution, for any orders, inputs and workers.             *)
(*                                                                         *)
(* A transaction is sound against the memory it was prepared from          *)
(* (TransactionsProofs).  What the open shell needs is that an overtaken   *)
(* transaction is refused: each pending one was prepared from an inventory *)
(* of an earlier generation, or from the inventory of now.  What the shell *)
(* that keeps the contract needs is that the rebuilt state is the memory,  *)
(* or the memory after the one transaction whose record is durable.        *)
(***************************************************************************)
EXTENDS Execution, TransactionsProofs

-----------------------------------------------------------------------------
(* Preparing against a memory                                              *)

\* The rows and the inventory between two transactions.
MemorySound(rows, inv) ==
    /\ DOMAIN rows = Cids
    /\ \A c \in Cids : RowSound(rows[c]) /\ rows[c].seq \in 2..MaxSeq
    /\ inv \in MarketInventory /\ inv.generation <= MaxGeneration
    /\ IsFiniteSet(KnownIds(inv))
    /\ \A c \in Cids, f \in FillIds :
         Owns(c, rows[c].ctx.applied_fills[f], inv.entries[f])

\* The inputs of the shell are valid.
LEMMA InputsValid ==
  ASSUME NEW input \in Inputs
  PROVE  ValidInput(input)
  BY ShellAssumption DEF ValidInput

\* Two transactions that apply and record the same.
Agrees(t, n) ==
    /\ t.input = n.input /\ t.changed = n.changed /\ t.after = n.after
    /\ t.entries = n.entries /\ t.conflicts = n.conflicts /\ t.record = n.record

\* An order event is prepared alike against any inventory.
LEMMA OrderAgrees ==
  ASSUME NEW input, input.kind = "order", NEW row, NEW inv, NEW now
  PROVE  Agrees(PreparedFrom(input, row, inv), PreparedFrom(input, row, now))
  <1>1. /\ PreparedFrom(input, row, inv) = prepare_order_event(input, row, inv)
        /\ PreparedFrom(input, row, now) = prepare_order_event(input, row, now)
    BY DEF PreparedFrom
  <1> QED BY <1>1 DEF prepare_order_event, Transaction, Agrees

-----------------------------------------------------------------------------
(* Applying                                                                *)

\* The memory after a transaction that was prepared from it.
LEMMA MemoryApplied ==
  ASSUME NEW t, NEW input, ValidInput(input), NEW rows, NEW inv, MemorySound(rows, inv),
         TransactionSound(t, input, RowFor(input, rows), inv),
         input.kind # "norow" => /\ KeepsOwned(t, input.cid, rows[input.cid], inv)
                                 /\ rows[input.cid].seq < MaxSeq,
         inv.generation + Len(input.page) <= MaxGeneration
  PROVE  MemorySound(RowsAfter(t, rows), InventoryAfter(t, inv))
  <1> DEFINE rows2 == RowsAfter(t, rows)
             inv2 == InventoryAfter(t, inv)
             c == input.cid
  <1>1. /\ inv2 \in MarketInventory /\ inv2.generation <= MaxGeneration
        /\ \A f \in FillIds : inv2.entries[f] = OrElse(t.entries[f], inv.entries[f])
    BY InventoryApplied, ShellAssumption DEF MemorySound
  <1>2. /\ t.changed \in BOOLEAN /\ t.input = input
        /\ t.changed => input.kind # "norow" /\ c \in Cids
    BY DEF TransactionSound, ValidInput
  <1>3. /\ DOMAIN rows2 = Cids
        /\ t.changed => rows2[c] = t.after
        /\ \A d \in Cids : ~ t.changed \/ d # c => rows2[d] = rows[d]
    BY <1>2 DEF RowsAfter, MemorySound
  <1>4. ASSUME NEW d \in Cids
        PROVE  RowSound(rows2[d]) /\ rows2[d].seq \in 2..MaxSeq
    <2>1. CASE ~ t.changed \/ d # c
      BY <1>3, <2>1 DEF MemorySound
    <2>2. CASE t.changed /\ d = c
      <3>1. RowSound(t.after) /\ t.after.seq = rows[c].seq + 1
        BY <1>2, <2>2 DEF TransactionSound, RowFor
      <3>2. rows[c].seq \in 2..MaxSeq /\ rows[c].seq < MaxSeq /\ MaxSeq \in Nat
        BY <1>2, <2>2, ShellAssumption DEF MemorySound
      <3> QED BY <1>3, <2>2, <3>1, <3>2
    <2> QED BY <2>1, <2>2
  <1>5. ASSUME NEW d \in Cids, NEW f \in FillIds
        PROVE  Owns(d, rows2[d].ctx.applied_fills[f], inv2.entries[f])
    <2> DEFINE p == inv.entries[f]
               n == inv2.entries[f]
               x == rows[d].ctx.applied_fills[f]
               y == rows2[d].ctx.applied_fills[f]
    <2>1. Owns(d, x, p)
      BY DEF MemorySound
    <2>2. n = OrElse(t.entries[f], p)
      BY <1>1
    <2>3. CASE input.kind # "norow" /\ d = c
      <3>1. KeepsOwned(t, c, rows[c], inv)
        BY <2>3
      <3>2. rows2[c] = After(t, rows[c])
        BY <1>3, <2>3 DEF After
      <3> QED BY <2>1, <2>2, <2>3, <3>1, <3>2 DEF KeepsOwned
    <2>4. CASE input.kind = "norow" \/ d # c
      <3>1. rows2[d] = rows[d]
        BY <1>2, <1>3, <2>4
      <3>2. PlanSound(Beneficiary(input), p, t.entries[f])
        BY DEF TransactionSound
      <3>3. Beneficiary(input) # d /\ d # None
        BY <2>4, RowAssumption DEF Beneficiary
      <3>4. Raised(p, p)
        BY DEF Raised
      <3>5. x = y
        BY <3>1
      <3> HIDE DEF p, n, x, y
      <3>6. /\ p # None => n # None /\ Raised(p, n)
            /\ n # None => IF p = None THEN n.owner # d ELSE n.owner = p.owner \/ n.owner # d
        BY <2>2, <3>2, <3>3, <3>4 DEF PlanSound, OrElse
      <3>7. Owns(d, y, n)
        BY <2>1, <3>5, <3>6, RaisedOwns
      <3> QED BY <3>7 DEF y, n
    <2> QED BY <2>3, <2>4
  <1>6. IsFiniteSet(KnownIds(inv2))
    <2>1. IsFiniteSet(KnownIds(inv)) /\ IsFiniteSet(Planned(t.entries))
      BY DEF MemorySound, TransactionSound
    <2>2. IsFiniteSet(KnownIds(inv) \cup Planned(t.entries))
      BY <2>1, FS_Union
    <2>3. KnownIds(inv2) \subseteq KnownIds(inv) \cup Planned(t.entries)
      BY <1>1 DEF KnownIds, Planned, OrElse
    <2> QED BY <2>2, <2>3, FS_Subset
  <1> QED BY <1>1, <1>3, <1>4, <1>5, <1>6 DEF MemorySound

-----------------------------------------------------------------------------
(* Recording                                                               *)

\* Both, for the memory.
Rebuilt(rows, inv) == [inventory |-> InventoryRebuilt(inv),
                       orders |-> [c \in Cids |-> RowRebuilt(rows[c])]]

\* A record restores the memory its transaction leaves.
LEMMA MemoryRecorded ==
  ASSUME NEW t, NEW input, ValidInput(input), NEW rows, NEW inv, MemorySound(rows, inv),
         TransactionSound(t, input, RowFor(input, rows), inv), t.record # None
  PROVE  Recorded(Rebuilt(rows, inv), t.record)
           = Rebuilt(RowsAfter(t, rows), InventoryAfter(t, inv))
  <1> DEFINE r == t.record
             d == Rebuilt(rows, inv)
             rows2 == RowsAfter(t, rows)
             inv2 == InventoryAfter(t, inv)
             c == input.cid
             orders2 == IF r.order.changed
                        THEN [d.orders EXCEPT ![r.order.cid] = RebuildOrder(@, r.order)]
                        ELSE d.orders
  <1>1. d.inventory = InventoryRebuilt(inv) /\ d.orders = [e \in Cids |-> RowRebuilt(rows[e])]
    BY DEF Rebuilt
  <1>2. RebuildInventory(d.inventory, r) = InventoryRebuilt(inv2)
    BY <1>1, InventoryRecorded DEF MemorySound
  <1>3. /\ r.order.cid = c /\ r.order.changed = t.changed /\ r.order.row = t.after
        /\ t.changed \in BOOLEAN /\ t.input = input
        /\ t.changed => c \in Cids /\ t.after.seq = rows[c].seq + 1
    BY DEF TransactionSound, RecordSound, ValidInput, RowFor
  <1>4. orders2 = [e \in Cids |-> RowRebuilt(rows2[e])]
    <2>1. CASE ~ t.changed
      <3>1. rows2 = rows
        BY <2>1 DEF RowsAfter
      <3> QED BY <1>1, <1>3, <2>1, <3>1
    <2>2. CASE t.changed
      <3>1. RebuildOrder(d.orders[c], r.order) = RowRebuilt(t.after)
        BY <1>1, <1>3, <2>2, RowRecorded
      <3>2. rows2 = [rows EXCEPT ![c] = t.after]
        BY <1>3, <2>2 DEF RowsAfter
      <3>3. orders2 = [d.orders EXCEPT ![c] = RowRebuilt(t.after)]
        BY <1>3, <2>2, <3>1
      <3> HIDE DEF orders2, rows2
      <3>4. \A e \in Cids : rows2[e] = IF e = c THEN t.after ELSE rows[e]
        BY <1>3, <2>2, <3>2 DEF MemorySound
      <3> QED BY <1>1, <1>3, <2>2, <3>3, <3>4
    <2> QED BY <1>3, <2>1, <2>2
  <1>5. Recorded(d, r) = [inventory |-> RebuildInventory(d.inventory, r), orders |-> orders2]
    BY DEF Recorded
  <1> HIDE DEF orders2, d
  <1>6. Recorded(d, r) = [inventory |-> InventoryRebuilt(inv2),
                          orders |-> [e \in Cids |-> RowRebuilt(rows2[e])]]
    BY <1>2, <1>4, <1>5
  <1> QED BY <1>6 DEF Rebuilt, d

\* An order event plans nothing for the inventory; its record written twice is
\* an equal duplicate of the last one.
LEMMA RecordedTwice ==
  ASSUME NEW t, NEW input, ValidInput(input), input.kind = "order", NEW rows,
         NEW inv, MemorySound(rows, inv),
         TransactionSound(t, input, RowFor(input, rows), inv), t.record # None
  PROVE  LET now == Rebuilt(RowsAfter(t, rows), InventoryAfter(t, inv))
         IN Recorded(now, t.record) = now
  <1> DEFINE r == t.record
             rows2 == RowsAfter(t, rows)
             inv2 == InventoryAfter(t, inv)
             now == Rebuilt(rows2, inv2)
             c == input.cid
  <1>1. /\ now.inventory = InventoryRebuilt(inv2)
        /\ now.orders = [e \in Cids |-> RowRebuilt(rows2[e])]
        /\ now = [inventory |-> now.inventory, orders |-> now.orders]
    BY DEF Rebuilt
  <1>3. /\ r.order.cid = c /\ r.order.changed = t.changed /\ r.order.row = t.after
        /\ t.changed \in BOOLEAN /\ t.input = input /\ c \in Cids
        /\ t.changed => RowSound(t.after)
    BY DEF TransactionSound, RecordSound, ValidInput
  <1>5. RebuildInventory(InventoryRebuilt(inv2), r) = InventoryRebuilt(inv2)
    <2>1. inv2 = inv
      BY OrderKeepsInventory DEF MemorySound
    <2>2. RebuildInventory(InventoryRebuilt(inv), r) = InventoryRebuilt(inv2)
      BY InventoryRecorded DEF MemorySound
    <2> QED BY <2>1, <2>2
  <1>6. t.changed => RebuildOrder(now.orders[c], r.order) = now.orders[c]
    <2> SUFFICES ASSUME t.changed
                 PROVE  RebuildOrder(now.orders[c], r.order) = now.orders[c]
      OBVIOUS
    <2>1. rows2[c] = t.after
      BY <1>3 DEF RowsAfter, MemorySound
    <2>2. now.orders[c] = RowRebuilt(t.after)
      BY <1>1, <1>3, <2>1
    <2>3. t.after.seq # t.after.seq + 1
      BY <1>3 DEF RowSound
    <2>4. RebuildOrder(RowRebuilt(t.after), r.order) = RowRebuilt(t.after)
      BY <1>3, <2>3 DEF RebuildOrder, RowRebuilt
    <2> QED BY <2>2, <2>4
  <1> HIDE DEF now
  <1>7. (IF r.order.changed
         THEN [now.orders EXCEPT ![r.order.cid] = RebuildOrder(@, r.order)]
         ELSE now.orders) = now.orders
    BY <1>1, <1>3, <1>6
  <1>8. Recorded(now, r) = [inventory |-> RebuildInventory(now.inventory, r),
                            orders |-> now.orders]
    BY <1>7 DEF Recorded
  <1>9. Recorded(now, r) = now
    BY <1>1, <1>5, <1>8
  <1> QED BY <1>9 DEF now

-----------------------------------------------------------------------------
(* A transaction prepared from the memory of now                           *)

\* The bounds of Prepare.
WithinBounds(input, rows, inv) ==
    /\ input.kind # "norow" => rows[input.cid].seq < MaxSeq
    /\ inv.generation + Len(input.page) <= MaxGeneration

Ready(t, rows, inv) ==
    \E input \in Inputs :
      /\ WithinBounds(input, rows, inv)
      /\ t = Prepared(input, rows, inv) /\ t.record # None

\* It is let through, and what it leaves is sound and is what its record,
\* written once or, of an order event, twice, restores.
AppliedSound(t, rows, inv) ==
    LET rows2 == RowsAfter(t, rows)
        inv2 == InventoryAfter(t, inv)
    IN /\ ApplyMatches(t, rows, inv)
       /\ MemorySound(rows2, inv2) /\ InventoryKept(inv, inv2)
       /\ inv2.generation >= inv.generation
       /\ inv2.generation = inv.generation => inv2 = inv
       /\ Recorded(Rebuilt(rows, inv), t.record) = Rebuilt(rows2, inv2)
       /\ t.input.kind = "order"
            => Recorded(Rebuilt(rows2, inv2), t.record) = Rebuilt(rows2, inv2)

LEMMA ReadyApplied ==
  ASSUME NEW rows, NEW inv, MemorySound(rows, inv), NEW t, Ready(t, rows, inv)
  PROVE  AppliedSound(t, rows, inv)
  <1>1. PICK input \in Inputs : /\ WithinBounds(input, rows, inv)
                                /\ t = Prepared(input, rows, inv) /\ t.record # None
    BY DEF Ready
  <1> DEFINE row == RowFor(input, rows)
             rows2 == RowsAfter(t, rows)
             inv2 == InventoryAfter(t, inv)
  <1>2. ValidInput(input) /\ inv \in MarketInventory
    BY InputsValid DEF MemorySound
  <1>3. /\ input.kind # "norow" => RowSound(row) /\ row = rows[input.cid]
        /\ input.kind = "norow" => row = None
    BY <1>2 DEF MemorySound, ValidInput, RowFor
  <1>4. t = PreparedFrom(input, row, inv)
    BY <1>1, <1>2, PreparedOfRow
  <1> HIDE DEF row
  <1>5. /\ TransactionSound(t, input, row, inv)
        /\ input.kind # "norow" => KeepsOwned(t, input.cid, row, inv)
    BY <1>2, <1>3, <1>4, PreparedSound
  <1>6. /\ input.kind # "norow" => rows[input.cid].seq < MaxSeq
        /\ inv.generation + Len(input.page) <= MaxGeneration
    BY <1>1 DEF WithinBounds
  <1>7. TransactionSound(t, input, RowFor(input, rows), inv)
    BY <1>5 DEF row
  <1>8. input.kind # "norow" => /\ KeepsOwned(t, input.cid, rows[input.cid], inv)
                                /\ rows[input.cid].seq < MaxSeq
    BY <1>3, <1>5, <1>6
  <1>9. MemorySound(rows2, inv2)
    BY <1>2, <1>6, <1>7, <1>8, MemoryApplied
  <1>10. /\ InventoryKept(inv, inv2) /\ inv2.generation >= inv.generation
         /\ inv2.generation = inv.generation => inv2 = inv
    <2>1. MaxGeneration \in Nat /\ MaxGeneration < U64Max
      BY ShellAssumption
    <2>2. TransactionSound(t, input, row, inv)
      BY <1>5
    <2> QED BY <1>2, <1>6, <2>1, <2>2, InventoryApplied, ZenonT(60)
  <1>11. Recorded(Rebuilt(rows, inv), t.record) = Rebuilt(rows2, inv2)
    BY <1>1, <1>2, <1>7, MemoryRecorded
  <1>12. input.kind = "order"
           => Recorded(Rebuilt(rows2, inv2), t.record) = Rebuilt(rows2, inv2)
    BY <1>1, <1>2, <1>7, RecordedTwice
  <1>13. t.input = input /\ ApplyMatches(t, rows, inv)
    BY <1>3, <1>5 DEF TransactionSound, ApplyMatches
  <1> QED BY <1>9, <1>10, <1>11, <1>12, <1>13 DEF AppliedSound

\* The memory is what its parts are.
LEMMA RebuiltOnly ==
  ASSUME NEW rows, NEW inv, NEW rows2, \A c \in Cids : rows2[c] = rows[c]
  PROVE  Rebuilt(rows2, inv) = Rebuilt(rows, inv)
  BY DEF Rebuilt

\* A restart from rebuilt rows brings back a sound memory.
LEMMA RestartSound ==
  ASSUME NEW rows, NEW inv, MemorySound(rows, inv), NEW d, d = Rebuilt(rows, inv),
         NEW rows2, rows2 = [c \in Cids |-> d.orders[c].row],
         NEW inv2, inv2 = d.inventory.inventory
  PROVE  inv2 = inv /\ MemorySound(rows2, inv) /\ d = Rebuilt(rows2, inv)
  <1>1. /\ d.inventory.inventory = inv
        /\ \A c \in Cids : d.orders[c].row = rows[c]
    BY DEF Rebuilt, InventoryRebuilt, RowRebuilt
  <1>2. DOMAIN rows2 = Cids /\ \A c \in Cids : rows2[c] = rows[c]
    BY <1>1
  <1>3. MemorySound(rows2, inv)
    BY <1>2 DEF MemorySound
  <1> QED BY <1>1, <1>2, <1>3, RebuiltOnly

\* The shell starts with a sound memory and records that restore it.
LEMMA InitialMemory ==
  ASSUME Init
  PROVE  MemorySound(orders, inventory) /\ durable = Rebuilt(orders, inventory)
  <1>1. ASSUME NEW c \in Cids
        PROVE  /\ RowSound(orders[c]) /\ orders[c].seq = 2
               /\ \A f \in FillIds : orders[c].ctx.applied_fills[f] = None
    <2>1. orders[c] = Row(Plain("SubmitStarted"), new_ctx, 2)
      BY DEF Init
    <2>2. CtxInv(new_ctx) /\ StateInv(Plain("SubmitStarted"), new_ctx)
      BY NewCtx, PlainStates
    <2>3. new_ctx.applied_fills = [f \in FillIds |-> None]
      BY DEF new_ctx
    <2> QED BY <2>1, <2>2, <2>3 DEF RowSound, Row
  <1>2. /\ inventory \in MarketInventory /\ inventory.generation = 0
        /\ \A f \in FillIds : inventory.entries[f] = None
    BY QtyAssumption DEF Init, EmptyInventory, MarketInventory, Opt
  <1>3. DOMAIN orders = Cids
    BY DEF Init
  <1>4. KnownIds(inventory) = {} /\ IsFiniteSet(KnownIds(inventory))
    BY <1>2, FS_EmptySet DEF KnownIds
  <1>5. MemorySound(orders, inventory)
    BY <1>1, <1>2, <1>3, <1>4, ShellAssumption, RowAssumption DEF MemorySound, Owns
  <1>6. durable = Rebuilt(orders, inventory)
    BY <1>4 DEF Init, Rebuilt, InventoryRebuilt, RowRebuilt
  <1> QED BY <1>5, <1>6

-----------------------------------------------------------------------------
(* The shell that keeps the contract                                       *)

SlotSound(slot, rows, inv) ==
    \E s \in {"Idle", "Prepared", "Logged"} : \E t :
      /\ slot = [stage |-> s, txn |-> t]
      /\ s # "Idle" => Ready(t, rows, inv)

\* One transaction at a time, prepared from the memory of now; the rebuilt
\* state is the memory, or the memory after it once its record is durable.
Inv ==
    /\ MemorySound(orders, inventory)
    /\ DOMAIN pending = Workers
    /\ \A w \in Workers : SlotSound(pending[w], orders, inventory)
    /\ \A v, w \in Workers : pending[v].stage # "Idle" /\ pending[w].stage # "Idle" => v = w
    /\ (\A w \in Workers : pending[w].stage # "Logged")
         => durable = Rebuilt(orders, inventory)
    /\ \A w \in Workers : pending[w].stage = "Logged" =>
         durable = Rebuilt(RowsAfter(pending[w].txn, orders),
                           InventoryAfter(pending[w].txn, inventory))

LEMMA IdleSound ==
  ASSUME NEW rows, NEW inv
  PROVE  SlotSound(Idle, rows, inv) /\ Idle.stage = "Idle"
  BY DEF SlotSound, Idle

\* An idle slot says nothing of the memory.
LEMMA IdleAnywhere ==
  ASSUME NEW slot, NEW rows, NEW inv, SlotSound(slot, rows, inv), slot.stage = "Idle",
         NEW rows2, NEW inv2
  PROVE  SlotSound(slot, rows2, inv2)
  <1>1. \E s \in {"Idle", "Prepared", "Logged"} : \E t : slot = [stage |-> s, txn |-> t]
    BY DEF SlotSound
  <1>2. \E t : slot = [stage |-> "Idle", txn |-> t]
    BY <1>1
  <1> QED BY <1>2 DEF SlotSound

LEMMA SlotReady ==
  ASSUME NEW slot, NEW rows, NEW inv, SlotSound(slot, rows, inv)
  PROVE  /\ slot.stage \in {"Idle", "Prepared", "Logged"}
         /\ slot.stage # "Idle" => Ready(slot.txn, rows, inv)
         /\ [slot EXCEPT !.stage = "Logged"].stage = "Logged"
         /\ [slot EXCEPT !.stage = "Logged"].txn = slot.txn
         /\ slot.stage # "Idle"
              => SlotSound([slot EXCEPT !.stage = "Logged"], rows, inv)
  <1>0. PICK s \in {"Idle", "Prepared", "Logged"} : \E t :
               /\ slot = [stage |-> s, txn |-> t]
               /\ s # "Idle" => Ready(t, rows, inv)
    BY DEF SlotSound
  <1>1. PICK t :
               /\ slot = [stage |-> s, txn |-> t]
               /\ s # "Idle" => Ready(t, rows, inv)
    BY <1>0
  <1>2. [slot EXCEPT !.stage = "Logged"] = [stage |-> "Logged", txn |-> t]
    BY <1>1
  <1> QED BY <1>1, <1>2 DEF SlotSound

LEMMA InvInit ==
  ASSUME Init
  PROVE  Inv
  <1>1. \A w \in Workers : pending[w] = Idle
    BY DEF Init
  <1>2. DOMAIN pending = Workers
    BY DEF Init
  <1>3. Idle.stage = "Idle" /\ SlotSound(Idle, orders, inventory)
    BY IdleSound
  <1> QED BY <1>1, <1>2, <1>3, InitialMemory DEF Inv

LEMMA InvPrepare ==
  ASSUME Inv, NEW w \in Workers, PrepareAlone(w)
  PROVE  Inv' /\ inventory' = inventory
  <1>1. PICK input \in Inputs : Prepare(w, input)
    BY DEF PrepareAlone
  <1> DEFINE t == Prepared(input, orders, inventory)
             slot == [stage |-> "Prepared", txn |-> t]
  <1>2. /\ \A v \in Workers : pending[v].stage = "Idle"
        /\ t.record # None /\ WithinBounds(input, orders, inventory)
        /\ pending' = [pending EXCEPT ![w] = slot]
        /\ orders' = orders /\ inventory' = inventory /\ durable' = durable
    BY <1>1 DEF PrepareAlone, Prepare, WithinBounds
  <1>3. Ready(t, orders, inventory)
    BY <1>2 DEF Ready
  <1> HIDE DEF t
  <1>4. SlotSound(slot, orders, inventory) /\ slot.stage = "Prepared"
    BY <1>3 DEF SlotSound
  <1> HIDE DEF slot
  <1>5. /\ DOMAIN pending' = Workers
        /\ pending'[w] = slot
        /\ \A v \in Workers : v # w => pending'[v] = pending[v]
    BY <1>2 DEF Inv
  <1>6. /\ \A v \in Workers : SlotSound(pending'[v], orders, inventory)
        /\ \A v \in Workers : pending'[v].stage # "Logged"
        /\ \A v \in Workers : pending'[v].stage # "Idle" => v = w
    BY <1>2, <1>4, <1>5 DEF Inv
  <1>7. durable = Rebuilt(orders, inventory)
    BY <1>2 DEF Inv
  <1> QED BY <1>2, <1>5, <1>6, <1>7 DEF Inv

LEMMA InvAppend ==
  ASSUME Inv, NEW w \in Workers, AppendRecord(w)
  PROVE  Inv' /\ inventory' = inventory
  <1> DEFINE slot == pending[w]
             t == slot.txn
             logged == [slot EXCEPT !.stage = "Logged"]
             now == Rebuilt(orders, inventory)
             next == Rebuilt(RowsAfter(t, orders), InventoryAfter(t, inventory))
  <1>1. /\ slot.stage = "Prepared"
        /\ \/ durable' = Recorded(durable, t.record)
           \/ /\ t.input.kind = "order"
              /\ durable' = Recorded(Recorded(durable, t.record), t.record)
        /\ pending' = [pending EXCEPT ![w] = logged]
        /\ orders' = orders /\ inventory' = inventory
    BY DEF AppendRecord, Inv
  <1>2. SlotSound(slot, orders, inventory)
    BY DEF Inv
  <1>3. /\ Ready(t, orders, inventory) /\ logged.stage = "Logged" /\ logged.txn = t
        /\ SlotSound(logged, orders, inventory)
    BY <1>1, <1>2, SlotReady
  <1>4. AppliedSound(t, orders, inventory)
    BY <1>3, ReadyApplied DEF Inv
  <1>5. \A v \in Workers : v # w => pending[v].stage = "Idle"
    BY <1>1 DEF Inv
  <1>6. durable = now
    BY <1>1, <1>5 DEF Inv
  <1>7. durable' = next
    BY <1>1, <1>4, <1>6 DEF AppliedSound
  <1> HIDE DEF logged
  <1>8. /\ DOMAIN pending' = Workers
        /\ pending'[w] = logged
        /\ \A v \in Workers : v # w => pending'[v] = pending[v]
    BY <1>1 DEF Inv
  <1>9. /\ \A v \in Workers : SlotSound(pending'[v], orders, inventory)
        /\ \A v \in Workers : v # w => pending'[v].stage = "Idle"
        /\ pending'[w].stage = "Logged" /\ pending'[w].txn = t
    BY <1>3, <1>5, <1>8 DEF Inv
  <1> HIDE DEF next, t, slot
  <1>10. MemorySound(orders, inventory)
    BY DEF Inv
  <1>11. \A v \in Workers : pending'[v].stage = "Logged" => v = w
    BY <1>9
  <1>12. \A v \in Workers : pending'[v].stage # "Idle" => v = w
    BY <1>9
  <1> QED BY <1>1, <1>7, <1>8, <1>9, <1>10, <1>11, <1>12 DEF Inv, next

LEMMA InvApply ==
  ASSUME Inv, NEW w \in Workers, ApplyRecorded(w)
  PROVE  Inv' /\ InventoryKept(inventory, inventory')
  <1> DEFINE t == pending[w].txn
  <1>1. /\ pending[w].stage = "Logged"
        /\ orders' = RowsAfter(t, orders) /\ inventory' = InventoryAfter(t, inventory)
        /\ pending' = [pending EXCEPT ![w] = Idle] /\ durable' = durable
    BY DEF ApplyRecorded, Applied
  <1>2. Ready(t, orders, inventory)
    <2>1. SlotSound(pending[w], orders, inventory)
      BY DEF Inv
    <2> QED BY <1>1, <2>1, SlotReady
  <1>3. AppliedSound(t, orders, inventory)
    BY <1>2, ReadyApplied DEF Inv
  <1>4. durable' = Rebuilt(orders', inventory')
    <2>1. durable = Rebuilt(RowsAfter(t, orders), InventoryAfter(t, inventory))
      BY <1>1 DEF Inv
    <2> HIDE DEF t
    <2> QED BY <1>1, <2>1
  <1>5. ASSUME NEW v \in Workers
        PROVE  pending'[v].stage = "Idle" /\ SlotSound(pending'[v], orders', inventory')
    <2>1. CASE v = w
      BY <1>1, <2>1, IdleSound DEF Inv
    <2>2. CASE v # w
      <3>1. /\ pending'[v] = pending[v] /\ pending[v].stage = "Idle"
            /\ SlotSound(pending[v], orders, inventory)
        BY <1>1, <2>2 DEF Inv
      <3> QED BY <3>1, IdleAnywhere
    <2> QED BY <2>1, <2>2
  <1>6. MemorySound(orders', inventory') /\ InventoryKept(inventory, inventory')
    BY <1>1, <1>3 DEF AppliedSound
  <1>7. DOMAIN pending' = Workers
    BY <1>1 DEF Inv
  <1> HIDE DEF t
  <1> QED BY <1>4, <1>5, <1>6, <1>7 DEF Inv

\* Nothing known is lost where nothing changes.
LEMMA KeptAsIs ==
  ASSUME NEW inv
  PROVE  InventoryKept(inv, inv)
  BY DEF InventoryKept, EntryKept, Raised

LEMMA InvRestart ==
  ASSUME Inv, Restart
  PROVE  Inv' /\ InventoryKept(inventory, inventory')
  <1>1. \E rows, inv : /\ MemorySound(rows, inv) /\ durable = Rebuilt(rows, inv)
                       /\ InventoryKept(inventory, inv)
    <2>1. CASE \A w \in Workers : pending[w].stage # "Logged"
      BY <2>1, KeptAsIs DEF Inv
    <2>2. CASE \E w \in Workers : pending[w].stage = "Logged"
      <3>1. PICK w \in Workers : pending[w].stage = "Logged"
        BY <2>2
      <3>2. Ready(pending[w].txn, orders, inventory)
        <4>1. SlotSound(pending[w], orders, inventory)
          BY DEF Inv
        <4> QED BY <3>1, <4>1, SlotReady
      <3>3. AppliedSound(pending[w].txn, orders, inventory)
        BY <3>2, ReadyApplied DEF Inv
      <3> QED BY <3>1, <3>3 DEF Inv, AppliedSound
    <2> QED BY <2>1, <2>2
  <1>2. PICK rows, inv : /\ MemorySound(rows, inv) /\ durable = Rebuilt(rows, inv)
                         /\ InventoryKept(inventory, inv)
    BY <1>1
  <1>3. /\ orders' = [c \in Cids |-> durable.orders[c].row]
        /\ inventory' = durable.inventory.inventory
        /\ pending' = [w \in Workers |-> Idle] /\ durable' = durable
    BY DEF Restart
  <1>4. /\ inventory' = inv /\ MemorySound(orders', inv)
        /\ durable = Rebuilt(orders', inv)
    BY <1>2, <1>3, RestartSound
  <1>5. /\ DOMAIN pending' = Workers
        /\ \A v \in Workers : pending'[v].stage = "Idle"
                              /\ SlotSound(pending'[v], orders', inventory')
    BY <1>3, IdleSound
  <1> QED BY <1>2, <1>3, <1>4, <1>5 DEF Inv

LEMMA InvNext ==
  ASSUME Inv, [Next]_vars
  PROVE  Inv' /\ InventoryKept(inventory, inventory')
  <1>1. CASE UNCHANGED vars
    BY <1>1, KeptAsIs DEF vars, Inv
  <1>2. CASE Restart
    BY <1>2, InvRestart
  <1>3. ASSUME NEW w \in Workers, PrepareAlone(w) \/ AppendRecord(w) \/ ApplyRecorded(w)
        PROVE  Inv' /\ InventoryKept(inventory, inventory')
    BY <1>3, InvPrepare, InvAppend, InvApply, KeptAsIs
  <1> QED BY <1>1, <1>2, <1>3 DEF Next

THEOREM Invariant == Spec => []Inv
  <1>1. Inv /\ [Next]_vars => Inv'
    BY InvNext
  <1> QED BY <1>1, InvInit, PTL DEF Spec

\* A restart at any point gives the memory of now or, once the record of the
\* pending transaction is durable, the memory after it: the record is complete,
\* its rebuild repeats what apply does, and it may be written twice.
THEOREM RebuildSafe == Spec => []RebuildIsMemory
  <1>1. Inv => RebuildIsMemory
    <2> SUFFICES ASSUME Inv
                 PROVE  RebuildIsMemory
      OBVIOUS
    <2> DEFINE logged == {w \in Workers : pending[w].stage = "Logged"}
               t(w) == pending[w].txn
    <2>1. ASSUME NEW rows, NEW inv, durable = Rebuilt(rows, inv)
          PROVE  /\ durable.inventory.ok /\ durable.inventory.inventory = inv
                 /\ \A c \in Cids : durable.orders[c].ok /\ durable.orders[c].row = rows[c]
      BY <2>1 DEF Rebuilt, InventoryRebuilt, RowRebuilt
    <2>2. CASE logged = {}
      <3>1. durable = Rebuilt(orders, inventory)
        BY <2>2 DEF Inv
      <3> QED BY <2>1, <2>2, <3>1 DEF RebuildIsMemory
    <2>3. CASE logged # {}
      <3>1. ASSUME NEW w \in logged
            PROVE  /\ durable = Rebuilt(RowsAfter(t(w), orders),
                                        InventoryAfter(t(w), inventory))
                   /\ ApplyMatches(t(w), orders, inventory)
        <4>1. /\ w \in Workers /\ pending[w].stage = "Logged"
              /\ SlotSound(pending[w], orders, inventory)
              /\ MemorySound(orders, inventory)
              /\ durable = Rebuilt(RowsAfter(t(w), orders), InventoryAfter(t(w), inventory))
          BY DEF Inv
        <4>2. Ready(t(w), orders, inventory)
          BY <4>1, SlotReady
        <4>3. AppliedSound(t(w), orders, inventory)
          BY <4>1, <4>2, ReadyApplied
        <4> QED BY <4>1, <4>3 DEF AppliedSound
      <3> QED BY <2>1, <2>3, <3>1 DEF RebuildIsMemory
    <2> QED BY <2>2, <2>3
  <1> QED BY <1>1, Invariant, PTL

\* No evidence and no restart removes, re-prices or takes an execution from
\* its owner, nor forgets a conflict.
THEOREM EntriesSafe == Spec => EntriesKept
  <1>1. Inv /\ [Next]_vars
          => [\A f \in FillIds :
                LET old == inventory.entries[f]
                    new == inventory'.entries[f]
                IN /\ old # None =>
                        /\ new # None
                        /\ new.side = old.side /\ new.qty = old.qty /\ new.price = old.price
                        /\ new.ts = old.ts
                        /\ old.owner \in {None, new.owner}
                        /\ old.venue \in {None, new.venue}
                        /\ old.fee \in {None, new.fee}
                   /\ inventory.conflicts[f] # None => inventory'.conflicts[f] # None]_vars
    BY InvNext DEF InventoryKept, EntryKept, Raised
  <1> QED BY <1>1, Invariant, PTL DEF Spec, EntriesKept

-----------------------------------------------------------------------------
(* The shell that leaves everything to apply                               *)

\* A transaction prepared from an inventory that has moved since, unless it is
\* the one of now; of the row it read, only what apply will find again matters.
EarlierFrom(t, input, row, old, inv) ==
    /\ t = PreparedFrom(input, row, old) /\ t.record # None
    /\ IF input.kind = "norow" THEN row = None ELSE RowSound(row) /\ row.seq < MaxSeq
    /\ old.generation + Len(input.page) <= MaxGeneration
    /\ old.generation <= inv.generation
    /\ old.generation = inv.generation => old = inv
Earlier(t, inv) ==
    \E input \in Inputs, old \in MarketInventory : \E row :
      EarlierFrom(t, input, row, old, inv)

OpenInv ==
    /\ MemorySound(orders, inventory)
    /\ durable = Rebuilt(orders, inventory)
    /\ DOMAIN pending = Workers
    /\ \A w \in Workers : pending[w].stage # "Idle" => Earlier(pending[w].txn, inventory)

\* What is prepared now is earlier than anything to come.
LEMMA PreparedEarlier ==
  ASSUME NEW rows, NEW inv, MemorySound(rows, inv), NEW input \in Inputs,
         WithinBounds(input, rows, inv), Prepared(input, rows, inv).record # None
  PROVE  Earlier(Prepared(input, rows, inv), inv)
  <1> DEFINE t == Prepared(input, rows, inv)
             row == RowFor(input, rows)
  <1>1. ValidInput(input) /\ inv \in MarketInventory /\ inv.generation \in Nat
    BY InputsValid, QtyAssumption DEF MemorySound, MarketInventory
  <1>2. IF input.kind = "norow" THEN row = None ELSE RowSound(row) /\ row.seq < MaxSeq
    BY <1>1 DEF MemorySound, ValidInput, RowFor, WithinBounds
  <1>3. t = PreparedFrom(input, row, inv) /\ t.record # None
    BY <1>1, PreparedOfRow
  <1>4. inv.generation + Len(input.page) <= MaxGeneration
    BY DEF WithinBounds
  <1> HIDE DEF t, row
  <1>5. Earlier(t, inv)
    <2>1. inv.generation <= inv.generation
      BY <1>1
    <2>2. IF input.kind = "norow" THEN row = None ELSE RowSound(row) /\ row.seq < MaxSeq
      BY <1>2
    <2>3. EarlierFrom(t, input, row, inv, inv)
      BY <1>3, <1>4, <2>1, <2>2, Zenon DEF EarlierFrom
    <2> QED BY <1>1, <2>3 DEF Earlier
  <1> QED BY <1>5 DEF t

\* And stays so, since an inventory that changes changes its generation.
LEMMA StaysEarlier ==
  ASSUME NEW t, NEW inv \in MarketInventory, Earlier(t, inv), NEW inv2 \in MarketInventory,
         inv2.generation >= inv.generation, inv2.generation = inv.generation => inv2 = inv
  PROVE  Earlier(t, inv2)
  <1>0. PICK input \in Inputs, old \in MarketInventory :
          \E row : EarlierFrom(t, input, row, old, inv)
    BY DEF Earlier
  <1>1. PICK row : EarlierFrom(t, input, row, old, inv)
    BY <1>0
  <1>2. old.generation \in Nat /\ inv.generation \in Nat /\ inv2.generation \in Nat
    BY QtyAssumption DEF MarketInventory
  <1>3. /\ old.generation <= inv2.generation
        /\ old.generation = inv2.generation => old = inv2
    BY <1>1, <1>2 DEF EarlierFrom
  <1>4. EarlierFrom(t, input, row, old, inv2)
    BY <1>1, <1>3 DEF EarlierFrom
  <1> QED BY <1>4 DEF Earlier

\* What apply lets through is what would be prepared now: an order event reads
\* nothing of the inventory, and anything else is compared with its generation.
LEMMA MatchedIsReady ==
  ASSUME NEW rows, NEW inv, MemorySound(rows, inv), NEW t, Earlier(t, inv),
         ApplyMatches(t, rows, inv)
  PROVE  LET now == Prepared(t.input, rows, inv)
         IN Ready(now, rows, inv) /\ Agrees(t, now)
  <1>0. PICK input \in Inputs, old \in MarketInventory :
          \E row : EarlierFrom(t, input, row, old, inv)
    BY DEF Earlier
  <1>1. PICK row :
          /\ t = PreparedFrom(input, row, old) /\ t.record # None
          /\ IF input.kind = "norow" THEN row = None ELSE RowSound(row) /\ row.seq < MaxSeq
          /\ old.generation + Len(input.page) <= MaxGeneration
          /\ old.generation <= inv.generation
          /\ old.generation = inv.generation => old = inv
    BY <1>0 DEF EarlierFrom
  <1> DEFINE now == Prepared(input, rows, inv)
  <1>2. ValidInput(input)
    BY InputsValid
  <1>3. TransactionSound(t, input, row, old)
    BY <1>1, <1>2, PreparedSound
  <1>4. t.input = input /\ t.row = row /\ t.generation = old.generation
    BY <1>3 DEF TransactionSound
  <1>5. /\ row = RowFor(input, rows)
        /\ input.kind # "norow" => rows[input.cid] = row /\ rows[input.cid].seq < MaxSeq
    BY <1>1, <1>4 DEF ApplyMatches, RowFor
  <1>6. now = PreparedFrom(input, row, inv)
    BY <1>2, <1>5, PreparedOfRow
  <1> HIDE DEF now
  <1>7. Agrees(t, now)
    <2>1. CASE input.kind = "order"
      BY <1>1, <1>6, <2>1, OrderAgrees
    <2>2. CASE input.kind # "order"
      <3>1. old = inv
        BY <1>1, <1>4, <2>2 DEF ApplyMatches
      <3> QED BY <1>1, <1>6, <3>1 DEF Agrees
    <2> QED BY <2>1, <2>2
  <1>8. inv.generation + Len(input.page) <= MaxGeneration
    <2>1. CASE input.kind = "order"
      <3>1. Len(input.page) = 0 /\ inv.generation \in Nat /\ inv.generation <= MaxGeneration
        BY <1>2, <2>1, QtyAssumption DEF ValidInput, MemorySound, MarketInventory
      <3> QED BY <3>1, ShellAssumption
    <2>2. CASE input.kind # "order"
      BY <1>1, <1>4, <2>2 DEF ApplyMatches
    <2> QED BY <2>1, <2>2
  <1>9. Ready(now, rows, inv)
    <2>1. now.record # None
      BY <1>1, <1>7 DEF Agrees
    <2> QED BY <1>5, <1>8, <2>1 DEF Ready, WithinBounds, now
  <1> QED BY <1>4, <1>7, <1>9 DEF now

\* What agrees applies and records alike.
LEMMA AgreedApplied ==
  ASSUME NEW t, NEW n, Agrees(t, n), NEW rows, NEW inv
  PROVE  /\ RowsAfter(t, rows) = RowsAfter(n, rows)
         /\ InventoryAfter(t, inv) = InventoryAfter(n, inv) /\ t.record = n.record
  BY DEF Agrees, RowsAfter, InventoryAfter

LEMMA OpenInit ==
  ASSUME Init
  PROVE  OpenInv
  <1>1. DOMAIN pending = Workers /\ \A w \in Workers : pending[w].stage = "Idle"
    BY DEF Init, Idle
  <1> QED BY <1>1, InitialMemory DEF OpenInv

LEMMA OpenPrepare ==
  ASSUME OpenInv, NEW w \in Workers, PrepareOpen(w)
  PROVE  OpenInv'
  <1>1. PICK input \in Inputs : Prepare(w, input)
    BY DEF PrepareOpen
  <1> DEFINE t == Prepared(input, orders, inventory)
             slot == [stage |-> "Prepared", txn |-> t]
  <1>2. /\ t.record # None /\ WithinBounds(input, orders, inventory)
        /\ pending' = [pending EXCEPT ![w] = slot]
        /\ orders' = orders /\ inventory' = inventory /\ durable' = durable
    BY <1>1 DEF Prepare, WithinBounds
  <1>3. Earlier(t, inventory)
    BY <1>2, PreparedEarlier DEF OpenInv
  <1> HIDE DEF t
  <1>4. slot.txn = t
    OBVIOUS
  <1> HIDE DEF slot
  <1>5. /\ DOMAIN pending' = Workers /\ pending'[w] = slot
        /\ \A v \in Workers : v # w => pending'[v] = pending[v]
    BY <1>2 DEF OpenInv
  <1>6. \A v \in Workers : pending'[v].stage # "Idle" => Earlier(pending'[v].txn, inventory)
    BY <1>3, <1>4, <1>5 DEF OpenInv
  <1> QED BY <1>2, <1>5, <1>6 DEF OpenInv

LEMMA OpenCommit ==
  ASSUME OpenInv, NEW w \in Workers, Commit(w)
  PROVE  OpenInv' /\ InventoryKept(inventory, inventory')
  <1> DEFINE t == pending[w].txn
             now == Prepared(t.input, orders, inventory)
  <1>1. /\ pending[w].stage = "Prepared" /\ ApplyMatches(t, orders, inventory)
        /\ orders' = RowsAfter(t, orders) /\ inventory' = InventoryAfter(t, inventory)
        /\ pending' = [pending EXCEPT ![w] = Idle]
        /\ durable' = Recorded(durable, t.record)
    BY DEF Commit, Applied
  <1>2. MemorySound(orders, inventory) /\ durable = Rebuilt(orders, inventory)
        /\ Earlier(t, inventory)
    BY <1>1 DEF OpenInv
  <1> HIDE DEF t
  <1>3. Ready(now, orders, inventory) /\ Agrees(t, now)
    BY <1>1, <1>2, MatchedIsReady
  <1> HIDE DEF now
  <1>4. AppliedSound(now, orders, inventory)
    BY <1>2, <1>3, ReadyApplied
  <1>5. /\ orders' = RowsAfter(now, orders) /\ inventory' = InventoryAfter(now, inventory)
        /\ durable' = Recorded(durable, now.record)
    BY <1>1, <1>3, AgreedApplied
  <1>6. /\ MemorySound(orders', inventory') /\ durable' = Rebuilt(orders', inventory')
        /\ InventoryKept(inventory, inventory')
        /\ inventory'.generation >= inventory.generation
        /\ inventory'.generation = inventory.generation => inventory' = inventory
    BY <1>2, <1>4, <1>5 DEF AppliedSound
  <1>7. inventory \in MarketInventory /\ inventory' \in MarketInventory
    BY <1>2, <1>6 DEF MemorySound
  <1>8. /\ DOMAIN pending' = Workers /\ pending'[w].stage = "Idle"
        /\ \A v \in Workers : v # w => pending'[v] = pending[v]
    BY <1>1, IdleSound DEF OpenInv
  <1>9. ASSUME NEW v \in Workers, pending'[v].stage # "Idle"
        PROVE  Earlier(pending'[v].txn, inventory')
    <2>1. pending'[v] = pending[v] /\ Earlier(pending[v].txn, inventory)
      BY <1>8, <1>9 DEF OpenInv
    <2> QED BY <1>6, <1>7, <2>1, StaysEarlier
  <1> QED BY <1>6, <1>8, <1>9 DEF OpenInv

LEMMA OpenNextInv ==
  ASSUME OpenInv, [OpenNext]_vars
  PROVE  OpenInv'
  <1>1. CASE UNCHANGED vars
    BY <1>1 DEF vars, OpenInv
  <1>2. CASE Restart
    <2>1. /\ orders' = [c \in Cids |-> durable.orders[c].row]
          /\ inventory' = durable.inventory.inventory
          /\ pending' = [w \in Workers |-> Idle] /\ durable' = durable
      BY <1>2 DEF Restart
    <2>2. MemorySound(orders', inventory') /\ durable' = Rebuilt(orders', inventory')
      BY <2>1, RestartSound DEF OpenInv
    <2>3. DOMAIN pending' = Workers /\ \A w \in Workers : pending'[w].stage = "Idle"
      BY <2>1, IdleSound
    <2> QED BY <2>2, <2>3 DEF OpenInv
  <1>3. ASSUME NEW w \in Workers, PrepareOpen(w)
        PROVE  OpenInv'
    BY <1>3, OpenPrepare
  <1>4. ASSUME NEW w \in Workers, Commit(w)
        PROVE  OpenInv'
    BY <1>4, OpenCommit
  <1>5. ASSUME NEW w \in Workers, Refuse(w)
        PROVE  OpenInv'
    <2>1. /\ pending' = [pending EXCEPT ![w] = Idle]
          /\ orders' = orders /\ inventory' = inventory /\ durable' = durable
      BY <1>5 DEF Refuse
    <2>2. /\ DOMAIN pending' = Workers /\ pending'[w].stage = "Idle"
          /\ \A v \in Workers : v # w => pending'[v] = pending[v]
      BY <2>1, IdleSound DEF OpenInv
    <2> QED BY <2>1, <2>2 DEF OpenInv
  <1> QED BY <1>1, <1>2, <1>3, <1>4, <1>5 DEF OpenNext

THEOREM OpenInvariant == OpenSpec => []OpenInv
  <1>1. OpenInv /\ [OpenNext]_vars => OpenInv'
    BY OpenNextInv
  <1> QED BY <1>1, OpenInit, PTL DEF OpenSpec

-----------------------------------------------------------------------------
(* What both memories are                                                  *)

LEMMA MemoryTyped ==
  ASSUME MemorySound(orders, inventory)
  PROVE  TypeOK
  <1>1. ASSUME NEW c \in Cids
        PROVE  /\ orders[c].state \in OrderState /\ CtxTyped(orders[c].ctx)
               /\ orders[c].seq \in 2..MaxSeq
    BY DEF MemorySound, RowSound, StateInv, CtxInv, CtxBase
  <1>2. inventory.generation \in 0..MaxGeneration
    BY ShellAssumption, QtyAssumption DEF MemorySound, MarketInventory
  <1>3. inventory \in [generation : 0..MaxGeneration,
                       entries : [FillIds -> Opt(InventoryEntry)],
                       conflicts : [FillIds -> Opt(ConflictClass)]]
    BY <1>2 DEF MemorySound, MarketInventory
  <1> QED BY <1>1, <1>3 DEF TypeOK

LEMMA MemoryOwned ==
  ASSUME MemorySound(orders, inventory)
  PROVE  OwnedOnce
  BY DEF MemorySound, OwnedOnce, Owns

-----------------------------------------------------------------------------
(* The position of both books                                              *)

\* What the orders of T own of the inventory, and what no order owns.
OwnedBy(T) == {f \in KnownIds(inventory) : inventory.entries[f].owner \in T}
Entries(S) == SumOver([f \in S |-> SignedEntry(inventory, f)])
Attributed(T) ==
    SumOver([c \in T |-> Signed(side_of[c], orders[c].ctx.attributed_fill_qty)])

LEMMA SignedTyped ==
  ASSUME NEW s \in Sides, NEW q \in Int
  PROVE  Signed(s, q) \in Int
  BY DEF Signed

\* The fills of one side count as their sum does.
LEMMA SignedSum ==
  ASSUME NEW S, IsFiniteSet(S), NEW u \in [S -> Int], NEW v \in [S -> Int],
         NEW s, \A x \in S : v[x] = Signed(s, u[x])
  PROVE  SumOver(v) = Signed(s, SumOver(u))
  <1>1. CASE s = "BuyYes"
    <2>1. v = u
      BY <1>1 DEF Signed
    <2> QED BY <1>1, <2>1 DEF Signed
  <1>2. CASE s # "BuyYes"
    <2>1. \A x \in S : v[x] = -u[x]
      BY <1>2 DEF Signed
    <2>2. SumOver(v) = -SumOver(u)
      BY <2>1, SumNegated
    <2> QED BY <1>2, <2>2 DEF Signed
  <1> QED BY <1>1, <1>2

\* The entries of the inventory have a signed quantity.
LEMMA EntriesTyped ==
  ASSUME MemorySound(orders, inventory)
  PROVE  /\ IsFiniteSet(KnownIds(inventory))
         /\ [f \in KnownIds(inventory) |-> SignedEntry(inventory, f)]
              \in [KnownIds(inventory) -> Int]
  <1>1. ASSUME NEW f \in KnownIds(inventory)
        PROVE  SignedEntry(inventory, f) \in Int
    <2>1. inventory.entries[f] \in InventoryEntry
      BY DEF MemorySound, MarketInventory, KnownIds, Opt
    <2>2. inventory.entries[f].side \in Sides /\ inventory.entries[f].qty \in Int
      BY <2>1 DEF InventoryEntry
    <2> QED BY <2>2, SignedTyped DEF SignedEntry
  <1> QED BY <1>1 DEF MemorySound

\* What an order owns is what it applied, and its running total is the sum.
LEMMA OrderPosition ==
  ASSUME MemorySound(orders, inventory), NEW c \in Cids
  PROVE  /\ Entries(OwnedBy({c}))
              = Signed(side_of[c], orders[c].ctx.attributed_fill_qty)
         /\ Signed(side_of[c], orders[c].ctx.attributed_fill_qty) \in Int
  <1> DEFINE x == orders[c].ctx
             S == AppliedIds(x)
             u == [f \in S |-> x.applied_fills[f].qty]
             v == [f \in S |-> SignedEntry(inventory, f)]
  <1>1. CtxTyped(x) /\ Balanced(x)
        /\ \A f \in FillIds : Owns(c, x.applied_fills[f], inventory.entries[f])
    BY DEF MemorySound, RowSound, CtxInv, CtxBase
  <1> HIDE DEF x
  <1>2. x.applied_fills \in [FillIds -> Opt(Payload)] /\ x.attributed_fill_qty \in Nat
    BY <1>1 DEF CtxTyped
  <1>3. \A f \in S : x.applied_fills[f] \in Payload /\ x.applied_fills[f].qty \in Int
    BY <1>2 DEF AppliedIds, Opt, Payload
  <1>4. IsFiniteSet(S) /\ x.attributed_fill_qty = SumOver(u)
    BY <1>1 DEF Balanced, TotalsOver
  <1>5. OwnedBy({c}) = S
    BY <1>1, RowAssumption DEF OwnedBy, KnownIds, AppliedIds, Owns
  <1>6. \A f \in S : /\ SignedEntry(inventory, f) = Signed(side_of[c], u[f])
                      /\ Signed(side_of[c], u[f]) \in Int
    <2> SUFFICES ASSUME NEW f \in S
                 PROVE  /\ SignedEntry(inventory, f) = Signed(side_of[c], u[f])
                        /\ Signed(side_of[c], u[f]) \in Int
      OBVIOUS
    <2>1. /\ inventory.entries[f].side = side_of[c]
          /\ inventory.entries[f].qty = x.applied_fills[f].qty
      BY <1>1 DEF AppliedIds, Owns
    <2>2. side_of[c] \in Sides /\ u[f] = x.applied_fills[f].qty /\ u[f] \in Int
      BY <1>3, RowAssumption DEF Sides
    <2> HIDE DEF u
    <2> QED BY <2>1, <2>2, SignedTyped DEF SignedEntry
  <1>7. u \in [S -> Int] /\ v \in [S -> Int] /\ \A f \in S : v[f] = Signed(side_of[c], u[f])
    BY <1>3, <1>6
  <1>8. SumOver(v) = Signed(side_of[c], SumOver(u))
    <2> HIDE DEF u, v, S
    <2> QED BY <1>4, <1>7, SignedSum
  <1>9. Entries(OwnedBy({c})) = SumOver(v)
    BY <1>5 DEF Entries
  <1>10. side_of[c] \in Sides
    BY RowAssumption DEF Sides
  <1> HIDE DEF S, u, v
  <1> QED BY <1>2, <1>4, <1>8, <1>9, <1>10, SignedTyped DEF x

\* Order by order, the owned entries add up to what the orders attributed.
LEMMA OrdersPosition ==
  ASSUME MemorySound(orders, inventory)
  PROVE  Entries(OwnedBy(Cids)) = Attributed(Cids)
  <1> DEFINE B == {T \in SUBSET Cids : Entries(OwnedBy(T)) = Attributed(T)}
             K == KnownIds(inventory)
             u == [f \in K |-> SignedEntry(inventory, f)]
             a == [c \in Cids |-> Signed(side_of[c], orders[c].ctx.attributed_fill_qty)]
  <1>1. IsFiniteSet(Cids)
    BY RowAssumption
  <1>2. IsFiniteSet(K) /\ u \in [K -> Int]
    BY EntriesTyped
  <1>3. \A c \in Cids : a[c] = Entries(OwnedBy({c})) /\ a[c] \in Int
    BY OrderPosition
  <1>4. \A S \in SUBSET K : Entries(S) = SumOn(u, S)
    <2>1. \A S \in SUBSET K : [f \in S |-> u[f]]
                                = [f \in S |-> SignedEntry(inventory, f)]
      OBVIOUS
    <2> HIDE DEF u, K
    <2> QED BY <2>1 DEF Entries, SumOn
  <1>5. \A T \in SUBSET Cids : Attributed(T) = SumOver([c \in T |-> a[c]])
    <2>1. \A T \in SUBSET Cids :
            [c \in T |-> a[c]]
              = [c \in T |-> Signed(side_of[c], orders[c].ctx.attributed_fill_qty)]
      OBVIOUS
    <2> HIDE DEF a
    <2> QED BY <2>1 DEF Attributed
  <1>6. \A T : OwnedBy(T) \in SUBSET K
    BY DEF OwnedBy
  <1> HIDE DEF K, u
  <1>7. a \in [Cids -> Int]
    BY <1>3
  <1> HIDE DEF a
  <1>8. {} \in B
    <2>1. OwnedBy({}) = {}
      BY DEF OwnedBy
    <2>2. Entries({}) = Attributed({})
      BY DEF Entries, Attributed
    <2> QED BY <2>1, <2>2
  <1>9. ASSUME NEW T \in SUBSET Cids, T # {}, T \ {Pick(T)} \in B
        PROVE  T \in B
    <2> DEFINE p == Pick(T)
               R == T \ {p}
               P == OwnedBy(R)
               Q == OwnedBy({p})
               r == [c \in T |-> a[c]]
    <2>1. p \in T /\ p \in Cids
      BY <1>9, PickIn
    <2>2. Entries(P) = Attributed(R)
      BY <1>9
    <2> HIDE DEF p
    <2>3. OwnedBy(T) = P \cup Q /\ P \cap Q = {}
      BY <2>1 DEF OwnedBy
    <2>4. P \in SUBSET K /\ Q \in SUBSET K /\ OwnedBy(T) \in SUBSET K
      BY <1>6
    <2>5. R \cup {p} = T /\ p \notin R /\ R \in SUBSET Cids /\ IsFiniteSet(R)
      BY <1>1, <2>1, FS_Subset
    <2> HIDE DEF P, Q, R
    <2>6. SumOn(u, P \cup Q) = SumOn(u, P) + SumOn(u, Q)
      BY <1>2, <2>3, <2>4, SumDisjoint
    <2>7. Entries(OwnedBy(T)) = Entries(P) + Entries(Q)
      BY <1>4, <2>3, <2>4, <2>6
    <2>8. r \in [R \cup {p} -> Int] /\ r[p] = a[p]
          /\ [c \in R |-> r[c]] = [c \in R |-> a[c]]
      BY <1>7, <2>1, <2>5
    <2>9. SumOver(r) = SumOver([c \in R |-> r[c]]) + r[p]
      <3> HIDE DEF r
      <3> QED BY <2>5, <2>8, SumExtend
    <2>10. Attributed(T) = Attributed(R) + a[p]
      <3>1. Attributed(T) = SumOver(r) /\ Attributed(R) = SumOver([c \in R |-> a[c]])
        BY <1>5, <2>5
      <3> HIDE DEF r
      <3> QED BY <2>8, <2>9, <3>1
    <2>11. a[p] = Entries(Q)
      BY <1>3, <2>1 DEF Q
    <2>12. Entries(P) = Attributed(R)
      BY <2>2 DEF P, R
    <2> QED BY <2>7, <2>10, <2>11, <2>12
  <1>10. \A T \in SUBSET Cids : T \in B
    <2> HIDE DEF B
    <2> QED BY <1>1, <1>8, <1>9, SubsetInduction
  <1> QED BY <1>10

\* The rest of the inventory no order owns.
LEMMA MemoryPosition ==
  ASSUME MemorySound(orders, inventory)
  PROVE  PositionExplained
  <1> DEFINE K == KnownIds(inventory)
             u == [f \in K |-> SignedEntry(inventory, f)]
             P == OwnedBy(Cids)
             Q == {f \in K : inventory.entries[f].owner = None}
  <1>1. IsFiniteSet(K) /\ u \in [K -> Int]
    BY EntriesTyped
  <1>2. \A f \in K : inventory.entries[f].owner \in Opt(Cids)
    <2>1. \A f \in K : inventory.entries[f] \in InventoryEntry
      BY DEF MemorySound, MarketInventory, KnownIds, Opt
    <2> QED BY <2>1 DEF InventoryEntry
  <1>3. P \cup Q = K /\ P \cap Q = {}
    BY <1>2, RowAssumption DEF OwnedBy, Opt
  <1>4. /\ SumOn(u, P) = Entries(P) /\ SumOn(u, Q) = Entries(Q)
        /\ SumOn(u, K) = Entries(K)
    <2>1. \A S \in SUBSET K : [f \in S |-> u[f]]
                                = [f \in S |-> SignedEntry(inventory, f)]
      OBVIOUS
    <2> HIDE DEF u, K, P, Q
    <2>2. \A S \in SUBSET K : SumOn(u, S) = Entries(S)
      BY <2>1 DEF Entries, SumOn
    <2> QED BY <1>3, <2>2
  <1>5. PositionExplained <=> net(inventory) = Attributed(Cids) + Entries(Q)
    BY DEF PositionExplained, Attributed, Entries
  <1>6. net(inventory) = Entries(K)
    BY DEF net, Entries
  <1> HIDE DEF K, u, P, Q
  <1>7. SumOn(u, P \cup Q) = SumOn(u, P) + SumOn(u, Q)
    <2>1. P \in SUBSET K /\ Q \in SUBSET K
      BY <1>3
    <2> QED BY <1>1, <1>3, <2>1, SumDisjoint
  <1>8. Entries(K) = Entries(P) + Entries(Q)
    BY <1>3, <1>4, <1>7
  <1>9. Entries(P) = Attributed(Cids)
    BY OrdersPosition DEF P
  <1> QED BY <1>5, <1>6, <1>8, <1>9

-----------------------------------------------------------------------------
(* What both shells promise                                                *)

\* Rows, cursors and the inventory stay typed, however transactions race.
THEOREM TypeCorrect == OpenSpec => []TypeOK
  <1>1. OpenInv => TypeOK
    BY MemoryTyped DEF OpenInv
  <1> QED BY <1>1, OpenInvariant, PTL

\* An execution is in the books of an order exactly when the inventory says
\* the order owns it, whichever orders its evidence is routed to and however
\* their transactions race.
THEOREM OwnedOnceSafe == OpenSpec => []OwnedOnce
  <1>1. OpenInv => OwnedOnce
    BY MemoryOwned DEF OpenInv
  <1> QED BY <1>1, OpenInvariant, PTL

\* The same of the shell that records before it applies, through crashes.
THEOREM OwnedOnceRecovered == Spec => []OwnedOnce
  <1>1. Inv => OwnedOnce
    BY MemoryOwned DEF Inv
  <1> QED BY <1>1, Invariant, PTL

\* The net position of the market is what the orders attributed and what no order
\* owns, whatever evidence came, in whatever batches, and through crashes.
THEOREM PositionSafe == Spec => []PositionExplained
  <1>1. Inv => PositionExplained
    BY MemoryPosition DEF Inv
  <1> QED BY <1>1, Invariant, PTL

\* The checks of apply refuse every transaction that was overtaken.
THEOREM StaleSafe == OpenSpec => StaleNeverApplied
  <1>1. OpenInv /\ [OpenNext]_vars
          => [\A w \in Workers : Commit(w) =>
                LET t == pending[w].txn IN
                \A now \in {Prepared(t.input, orders, inventory)} :
                  /\ t.changed = now.changed /\ t.after = now.after
                  /\ t.entries = now.entries /\ t.conflicts = now.conflicts
                  /\ t.record = now.record]_vars
    <2> SUFFICES ASSUME OpenInv, NEW w \in Workers, Commit(w)
                 PROVE  Agrees(pending[w].txn,
                               Prepared(pending[w].txn.input, orders, inventory))
      BY DEF Agrees
    <2>1. /\ pending[w].stage = "Prepared"
          /\ ApplyMatches(pending[w].txn, orders, inventory)
      BY DEF Commit, Applied
    <2>2. MemorySound(orders, inventory) /\ Earlier(pending[w].txn, inventory)
      BY <2>1 DEF OpenInv
    <2> QED BY <2>1, <2>2, MatchedIsReady
  <1> QED BY <1>1, OpenInvariant, PTL DEF OpenSpec, StaleNeverApplied
=============================================================================
