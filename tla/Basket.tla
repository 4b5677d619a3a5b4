-------------------------------- MODULE Basket --------------------------------
(* A compound order in a strategy, its order objects (order.rs), the table    *)
(* they are saved to (persistence.rs) and the virtual broker that works them. *)
(* `style` says which compound this behaviour has: "sync" is that of          *)
(* compound_order.rs, "async" that of async_compound_order.rs, whose futures  *)
(* may be dropped at an await and whose writes run on a worker of their own.  *)
(*                                                                            *)
(* The basket is borrowed mutably by the call under way (`task`): nothing     *)
(* else runs on it until the call ends, but the clock and the venue go on.    *)
(* What the venue tells of an order reaches the basket late, twice or out of  *)
(* order: any snapshot ever taken of it (`reports`) may be delivered any      *)
(* time.                                                                      *)
EXTENDS VirtualBroker, FiniteSets

CONSTANTS
    Size,           \* the number of orders of the basket; slots are 1 .. Size
    Quantity,       \* the quantity an order object is made with, by slot
    Converts,       \* the slots with convert_to_market_after_expiry
    Cancels,        \* the slots with cancel_after_expiry
    NewQuantities,  \* the quantities callers' modifies ask for, by slot
    Locks,          \* the <<slot, code>> pairs callers lock
    Moves,          \* the statuses the simulation forces on venue orders
    Styles,         \* which of "sync" and "async" is checked
    MaxTime,        \* the clock's last value
    MaxMoves,       \* forced statuses
    MaxDisturbances \* locks, failed rolls, lost writes, dropped calls, restarts

Slots == 1 .. Size

(* The order objects of a basket, and the rows they are saved to.            *)
Order ==
    [quantity : Nat, filled_quantity : Nat, status : OrderStatus,
     order_id : Nat \cup {None}, order_type : {"LIMIT", "MARKET"}, timestamp : Nat,
     convert_to_market_after_expiry : BOOLEAN, cancel_after_expiry : BOOLEAN,
     num_modifications : Nat, modification_lock_till : Int, cancellation_lock_till : Int]

Row ==
    [quantity : Nat, filled_quantity : Nat, status : OrderStatus,
     order_id : Nat \cup {None}, order_type : {"LIMIT", "MARKET"}, timestamp : Nat,
     convert_to_market_after_expiry : BOOLEAN, cancel_after_expiry : BOOLEAN]

ASSUME BasketAssumption ==
    /\ Size \in Nat /\ LockCap \in Nat
    /\ None \notin Int /\ None \notin Order /\ None \notin Row
    /\ Quantity \in [Slots -> Nat \ {0}]
    /\ NewQuantities \in [Slots -> SUBSET Nat] /\ Locks \subseteq Slots \X {1, 2}
    /\ Converts \subseteq Slots /\ Cancels \subseteq Slots
    /\ Moves \subseteq Status /\ Styles \subseteq {"sync", "async"}

VARIABLES
    style,      \* the kind of compound and of broker
    orders,     \* the order object of a slot, or None
    index,      \* the compound's index: number -> slot
    broker,     \* whether the compound has a broker
    db,         \* the row of a slot's order, or None
    worker,     \* writes handed to the blocking pool and not yet run
    task,       \* the call under way
    venue,      \* the broker's orders; a position is an order id
    reports,    \* every snapshot the venue can have given out
    now,        \* the clock
    spent,      \* how often each bounded event has happened
    torn,       \* slots one of whose writes or answers was lost or delayed
    shrunk      \* slots modified to less than they had filled

vars == <<style, orders, index, broker, db, worker, task, venue, reports, now, spent,
          torn, shrunk>>

Idle == [op |-> "none", slot |-> 0, pc |-> "none", ret |-> None]

Init ==
    /\ style \in Styles
    /\ orders = [s \in Slots |-> None] /\ db = [s \in Slots |-> None]
    /\ index = [i \in {} |-> 0]
    /\ broker = FALSE
    /\ worker = {} /\ task = Idle
    /\ venue = <<>> /\ reports = {} /\ now = 0
    /\ spent = [moves |-> 0, disturbances |-> 0]
    /\ torn = {} /\ shrunk = {}

Spend(what, max) ==
    /\ spent[what] < max
    /\ spent' = [spent EXCEPT ![what] = @ + 1]

Disturb == Spend("disturbances", MaxDisturbances)

Ids == 1 .. Len(venue)

(* Snapshots are handed out by every reply and by the accessors.             *)
VenueSet(v) ==
    \E w \in {v} :
        /\ venue' = w
        /\ reports' = reports \cup {Report(snap) :
               snap \in {<<i, cloned_clone_weak(w[i])>> : i \in 1 .. Len(w)}}

-----------------------------------------------------------------------------
(* Saving.                                                                    *)

(* save_to_db: the upsert happens or fails; a failure is only printed.       *)
save_to_db(s, o) ==
    \/ db' = [db EXCEPT ![s] = to_row(o)] /\ UNCHANGED <<torn, spent>>
    \/ torn' = torn \cup {s} /\ Disturb /\ UNCHANGED db

(* save_to_db_async: the row goes to the blocking pool, and is awaited.      *)
save_to_db_async(s, o) ==
    worker' = worker \cup {[slot |-> s, row |-> to_row(o), awaited |-> TRUE]}

(* The orders a fan-out has still to visit after slot s, and its next call.  *)
After(s) == {u \in Slots : u > s /\ orders[u] # None}

Visit(s) ==
    [task EXCEPT !.slot = CHOOSE u \in After(s) : \A w \in After(s) : u <= w,
                 !.pc = "visit", !.ret = None]

(* A plausible mistake: the check of the flags ends with the first order it  *)
(* acts on.                                                                   *)
StopAtDue(s) ==
    task' = IF \/ task.op = "modify" \/ After(s) = {}
               \/ task.op = "flags" /\ is_pending(orders[s]) /\ has_expired(orders[s], now)
            THEN Idle ELSE Visit(s)

(* The fan-outs go on with the next order of the basket.                     *)
Advance(s) ==
    task' = IF task.op = "modify" \/ After(s) = {} THEN Idle ELSE Visit(s)

(* The pool runs a write, in any order; the call that awaits it goes on.     *)
upsert_order(w) ==
    /\ worker' = worker \ {w}
    /\ \/ db' = [db EXCEPT ![w.slot] = w.row] /\ UNCHANGED <<torn, spent>>
       \/ torn' = torn \cup {w.slot} /\ Disturb /\ UNCHANGED db
    /\ IF w.awaited THEN Advance(w.slot) ELSE UNCHANGED task
    /\ UNCHANGED <<style, orders, index, broker, venue, reports, now, shrunk>>

(* A plausible mistake: only asynchronous calls save.                        *)
AnsweredUnsaved(s, o) ==
    /\ orders' = [orders EXCEPT ![s] = o]
    /\ \/ /\ style = "sync" /\ Advance(s)
          /\ UNCHANGED <<worker, db, torn, spent>>
       \/ /\ style = "async" /\ save_to_db_async(s, o)
          /\ task' = [task EXCEPT !.pc = "save"]
          /\ UNCHANGED <<db, torn, spent>>
    /\ UNCHANGED <<style, index, broker, venue, reports, now, shrunk>>

(* The end of execute and of modify: the order takes what the answer brings  *)
(* and is saved, at once or by the pool.                                      *)
Answered(s, o) ==
    /\ orders' = [orders EXCEPT ![s] = o]
    /\ \/ style = "sync" /\ save_to_db(s, o) /\ Advance(s) /\ UNCHANGED worker
       \/ /\ style = "async" /\ save_to_db_async(s, o)
          /\ task' = [task EXCEPT !.pc = "save"]
          /\ UNCHANGED <<db, torn, spent>>
    /\ UNCHANGED <<style, index, broker, venue, reports, now, shrunk>>

-----------------------------------------------------------------------------
(* Building the basket.                                                       *)

get_next_index ==
    IF DOMAIN index = {} THEN 0
    ELSE 1 + CHOOSE i \in DOMAIN index : \A j \in DOMAIN index : j <= i

(* A plausible mistake: an index in use is given again.                      *)
Unchecked(idx) == TRUE

IndexFree(idx) == idx \notin DOMAIN index

(* An order object without an id joins at the index the caller names, or at  *)
(* the next one, and is saved; an index in use is refused.                    *)
Join(ix) ==
    \E s \in Slots :
        LET idx == IF ix = None THEN get_next_index ELSE ix
            o == from_init_with_clock(
                     [quantity |-> Quantity[s], filled_quantity |-> 0, status |-> "OPEN",
                      order_id |-> None, order_type |-> "LIMIT", timestamp |-> now,
                      convert_to_market_after_expiry |-> s \in Converts,
                      cancel_after_expiry |-> s \in Cancels], now)
        IN  /\ task = Idle /\ IndexFree(idx)
            /\ \A u \in Slots : (orders[u] # None) <=> (u < s)
            /\ orders' = [orders EXCEPT ![s] = o]
            /\ index' = [i \in DOMAIN index \cup {idx} |-> IF i = idx THEN s ELSE index[i]]
            /\ save_to_db(s, o)
            /\ UNCHANGED <<style, broker, worker, task, venue, reports, now, shrunk>>

(* The compound makes the order, or is given one; both save synchronously.   *)
add_order(ix) == style = "sync" /\ Join(ix)

add(ix) == style = "sync" /\ Join(ix)

async_add_order(ix) == style = "async" /\ Join(ix)

async_add(ix) == style = "async" /\ Join(ix)

(* The strategy takes the compound: its clock, and with it a fresh lock, goes*)
(* to every order; a compound without a broker gets the strategy's.           *)
Adopt ==
    /\ task = Idle /\ ~broker
    /\ broker' = TRUE
    /\ orders' = [s \in Slots |-> IF orders[s] = None THEN None ELSE set_clock(orders[s])]
    /\ UNCHANGED <<style, index, db, worker, task, venue, reports, now, spent, torn, shrunk>>

strategy_add == style = "sync" /\ Adopt

async_strategy_add == style = "async" /\ Adopt

-----------------------------------------------------------------------------
(* The calls.                                                                 *)

(* A fan-out over the orders begins; without a broker it returns.            *)
Begin(op) ==
    /\ task = Idle /\ broker
    /\ After(0) # {}
    /\ task' = [op |-> op, slot |-> CHOOSE s \in After(0) : \A u \in After(0) : s <= u,
                pc |-> "visit", ret |-> None]
    /\ UNCHANGED <<style, orders, index, broker, db, worker, venue, reports, now, spent,
                   torn, shrunk>>

execute_all == style = "sync" /\ Begin("execute")

execute_all_async == style = "async" /\ Begin("execute")

check_flags == style = "sync" /\ Begin("flags")

check_flags_async == style = "async" /\ Begin("flags")

Visiting(op, s) == task.op = op /\ task.pc = "visit" /\ task.slot = s

(* The order is looked at and, if it is to be placed, sent to the broker.    *)
Send(s) ==
    /\ Visiting("execute", s)
    /\ IF ~Executable(orders[s])
       THEN Advance(s) /\ UNCHANGED <<venue, reports, spent>>
       ELSE \/ /\ VenueSet(Append(venue, place(orders[s], s, now)))
               /\ task' = [task EXCEPT !.pc = "answer", !.ret = Len(venue) + 1]
               /\ UNCHANGED spent
            \/ /\ Disturb
               /\ task' = [task EXCEPT !.pc = "answer"]
               /\ UNCHANGED <<venue, reports>>
    /\ UNCHANGED <<style, orders, index, broker, db, worker, now, torn, shrunk>>

(* The id the broker gave, none included, is stored and saved.               *)
Store(s) ==
    /\ task.op = "execute" /\ task.pc = "answer" /\ task.slot = s
    /\ Answered(s, [orders[s] EXCEPT !.order_id = task.ret])

execute(s) == style = "sync" /\ (Send(s) \/ Store(s))

execute_async(s) == style = "async" /\ (Send(s) \/ Store(s))

(* The part of modify up to the broker's answer, for an order whose fields   *)
(* are already overwritten: t is the call as it stands while it waits.        *)
SendModify(s, o, t) ==
    /\ orders' = [orders EXCEPT ![s] = o]
    /\ IF ~can_modify(o, now) \/ ~Sendable(o)
       THEN /\ IF t.op = "modify" THEN UNCHANGED task ELSE Advance(s)
            /\ UNCHANGED <<venue, reports, spent>>
       ELSE /\ task' = t
            /\ \/ /\ VenueSet([venue EXCEPT ![o.order_id] = modify(@, o.quantity)])
                  /\ UNCHANGED spent
               \/ Disturb /\ UNCHANGED <<venue, reports>>
    /\ UNCHANGED <<style, index, broker, db, worker, now, torn>>

(* The answer of a modify, a failure included, is counted and saved.         *)
Count(s) ==
    /\ task.op \in {"modify", "flags"} /\ task.pc = "answer" /\ task.slot = s
    /\ Answered(s, [orders[s] EXCEPT !.num_modifications = @ + 1])

(* A caller's modify of one order: the lock is the only check before the     *)
(* order's own fields change.                                                 *)
CallModify(s, q) ==
    /\ task = Idle
    /\ orders[s] # None /\ can_modify(orders[s], now)
    /\ SendModify(s, set_local_field(orders[s], q),
                  [op |-> "modify", slot |-> s, pc |-> "answer", ret |-> None])
    /\ shrunk' = IF q < orders[s].filled_quantity THEN shrunk \cup {s} ELSE shrunk

order_modify_call(s) ==
    style = "sync" /\ (Count(s) \/ \E q \in NewQuantities[s] : CallModify(s, q))

modify_async(s) ==
    style = "async" /\ (Count(s) \/ \E q \in NewQuantities[s] : CallModify(s, q))

(* cancel: locked orders and orders without an id are left alone; the answer *)
(* is not looked at.                                                          *)
CancelExpired(s, o) ==
    /\ Advance(s)
    /\ IF can_cancel(o, now) /\ o.order_id # None
       THEN \/ /\ VenueSet([venue EXCEPT ![o.order_id] = cancel(@)])
               /\ UNCHANGED spent
            \/ Disturb /\ UNCHANGED <<venue, reports>>
       ELSE UNCHANGED <<venue, reports, spent>>
    /\ UNCHANGED <<style, orders, index, broker, db, worker, now, torn>>

(* An expired order that is still pending becomes a market order and the     *)
(* broker is told by a modify, or it is canceled.                             *)
Flag(s) ==
    LET o == orders[s]
        due == is_pending(o) /\ has_expired(o, now)
    IN  /\ Visiting("flags", s)
        /\ CASE due /\ o.convert_to_market_after_expiry ->
                  SendModify(s, to_market(o), [task EXCEPT !.pc = "answer"])
             [] due /\ ~o.convert_to_market_after_expiry /\ o.cancel_after_expiry ->
                  CancelExpired(s, o)
             [] OTHER -> /\ Advance(s)
                         /\ UNCHANGED <<style, orders, index, broker, db, worker, venue,
                                        reports, now, spent, torn>>
        /\ UNCHANGED shrunk

-----------------------------------------------------------------------------
(* What comes from outside.                                                   *)

(* A report reaches an order of the basket, which is saved; a panic leaves   *)
(* the order half updated and unsaved.                                        *)
Deliver(s, r) ==
    LET o == order_update(orders[s], r)
    IN  /\ orders' = [orders EXCEPT ![s] = o]
        /\ IF order_is_done(orders[s]) \/ Panics(orders[s])
           THEN UNCHANGED <<db, torn, spent>> ELSE save_to_db(s, o)
        /\ UNCHANGED <<style, index, broker, worker, task, venue, reports, now, shrunk>>

(* A plausible mistake: the report of another order is applied.              *)
AnyReport(s, r) == is_pending(orders[s]) /\ orders[s].order_id # None

(* The compound passes a report on to the pending order that has its id.     *)
Addressed(s, r) == is_pending(orders[s]) /\ orders[s].order_id = r.order_id

update_orders(s, r) ==
    /\ task = Idle /\ orders[s] # None /\ Addressed(s, r)
    /\ Deliver(s, r)

(* A consumer may also update an order directly, by its id.                  *)
update(s, r) ==
    /\ task = Idle /\ orders[s] # None
    /\ orders[s].order_id = r.order_id /\ ~is_pending(orders[s])
    /\ Deliver(s, r)

(* A consumer locks an order against modifies or cancels for a while.        *)
lock_order(s, code) ==
    /\ task = Idle /\ orders[s] # None /\ now + LockCap < MaxTime
    /\ Disturb
    /\ orders' = [orders EXCEPT ![s] = add_lock(@, code, LockCap, now)]
    /\ UNCHANGED <<style, index, broker, db, worker, task, venue, reports, now, torn, shrunk>>

(* The simulation forces a status on a venue order.                          *)
VenueMove(i, st) ==
    /\ \E v \in get(venue[i], st, now) :
        v # venue[i] /\ VenueSet([venue EXCEPT ![i] = v])
    /\ Spend("moves", MaxMoves)
    /\ UNCHANGED <<style, orders, index, broker, db, worker, task, now, torn, shrunk>>

(* Building the basket takes no time.                                        *)
Tick ==
    /\ now < MaxTime /\ broker /\ \A s \in Slots : orders[s] # None
    /\ now' = now + 1
    /\ UNCHANGED <<style, orders, index, broker, db, worker, task, venue, reports, spent,
                   torn, shrunk>>

(* The future of an asynchronous call is dropped at an await: an answer not  *)
(* yet stored is never stored, a write not yet run goes on by itself.         *)
Drop ==
    /\ style = "async" /\ Disturb
    /\ task' = Idle
    /\ worker' = {[w EXCEPT !.awaited = FALSE] : w \in worker}
    /\ torn' = IF task.pc = "save" \/ task.ret # None
               THEN torn \cup {task.slot} ELSE torn
    /\ UNCHANGED <<style, orders, index, broker, db, venue, reports, now, shrunk>>

(* The process stops and a new one makes the basket from the rows: locks and *)
(* modification counts start afresh, what was not yet written is lost.        *)
Restart ==
    LET kept == {s \in Slots : db[s] # None}
        rank(s) == Cardinality({u \in kept : u < s})
    IN  /\ \A s \in Slots : orders[s] # None
        /\ Disturb
        /\ orders' = [s \in Slots |-> IF s \in kept THEN from_row(db[s], now) ELSE None]
        /\ index' = [i \in 0 .. (Cardinality(kept) - 1) |-> CHOOSE s \in kept : rank(s) = i]
        /\ task' = Idle /\ worker' = {}
        /\ torn' = torn \cup {w.slot : w \in worker}
                        \cup (IF task.ret # None THEN {task.slot} ELSE {})
        /\ UNCHANGED <<style, broker, db, venue, reports, now, shrunk>>

-----------------------------------------------------------------------------
(* The steps of a call under way, once begun.                                *)
TaskStep ==
    \/ \E s \in Slots : execute(s) \/ execute_async(s) \/ Flag(s) \/ Count(s)
    \/ \E w \in worker : upsert_order(w)

Next ==
    \/ \E ix \in {None, 0} : \/ add_order(ix) \/ add(ix)
                             \/ async_add_order(ix) \/ async_add(ix)
    \/ strategy_add \/ async_strategy_add
    \/ execute_all \/ execute_all_async \/ check_flags \/ check_flags_async
    \/ \E s \in Slots :
        \/ execute(s) \/ execute_async(s) \/ Flag(s)
        \/ order_modify_call(s) \/ modify_async(s)
        \/ \E r \in reports : update_orders(s, r) \/ update(s, r)
    \/ \E l \in Locks : lock_order(l[1], l[2])
    \/ \E w \in worker : upsert_order(w)
    \/ \E i \in Ids, st \in Moves : VenueMove(i, st)
    \/ Tick \/ Drop \/ Restart

(* Calls run to their end, the clock goes on, and the program keeps asking   *)
(* for the flags whenever the basket is free.                                 *)
Fairness ==
    /\ WF_vars(TaskStep) /\ WF_vars(Tick)
    /\ SF_vars(check_flags \/ check_flags_async)

Spec == Init /\ [][Next]_vars /\ Fairness

-----------------------------------------------------------------------------
(* Properties.                                                                *)

(* An order object is placed at most once at the venue, over any number of   *)
(* calls and restarts, unless one of its writes or answers was lost or        *)
(* overtaken on the way: execute looks at the id, and the row keeps it.       *)
OnePlacement ==
    \A i, j \in Ids :
        venue[i].slot = venue[j].slot /\ venue[i].slot \notin torn => i = j

(* Late, repeated and reordered reports never take a fill back from an order *)
(* object, and neither does a restart, unless a write was lost or overtaken.  *)
FillMonotone ==
    [][\A s \in Slots :
         \/ orders[s] = None \/ orders'[s] = None \/ s \in torn'
         \/ orders'[s].filled_quantity >= orders[s].filled_quantity]_vars

(* No order object has more filled than its quantity, whatever the venue     *)
(* reports after a modify it refused: unless a modify itself asked for less   *)
(* than was already filled.                                                   *)
FillsWithinQuantity ==
    \A s \in Slots \ shrunk :
        orders[s] # None => orders[s].filled_quantity <= orders[s].quantity

(* The fills an order object holds were really made at the venue for this    *)
(* order, unless the venue order's quantity was modified: the venue's         *)
(* snapshots recompute the fills from the quantity.                           *)
BooksBacked ==
    \A s \in Slots :
        orders[s] # None /\ orders[s].filled_quantity > 0 =>
            \E i \in Ids : /\ venue[i].slot = s
                           /\ \/ venue[i].modified
                              \/ orders[s].filled_quantity <= venue[i].peak

(* Whenever the basket is free, the row of an order holds the order's id,    *)
(* fills and status, whichever call or report came last, unless a write was   *)
(* lost or overtaken, or an update panicked.                                  *)
PlacedIsDurable ==
    \A s \in Slots \ (torn \cup shrunk) :
        task = Idle /\ orders[s] # None =>
            /\ db[s] # None
            /\ db[s].order_id = orders[s].order_id
            /\ db[s].filled_quantity = orders[s].filled_quantity
            /\ db[s].status = orders[s].status

(* Every order of the basket has exactly one index, so that an order given   *)
(* an explicit index hides no other.                                          *)
EveryOrderAddressable ==
    \A s \in Slots :
        orders[s] # None => Cardinality({i \in DOMAIN index : index[i] = s}) = 1

(* An order with cancel_after_expiry that is pending past its expiry does    *)
(* not stay working at the venue: a later check of the flags cancels it,      *)
(* however often a cancel failed or the order was locked before.              *)
ExpiredIsCanceled ==
    \A s \in Cancels \ Converts :
        (/\ broker /\ orders[s] # None
         /\ orders[s].order_id # None
         /\ is_pending(orders[s]) /\ has_expired(orders[s], now))
        ~> (\/ orders[s] = None
            \/ orders[s].order_id = None
            \/ ~is_pending(orders[s])
            \/ is_done(venue[orders[s].order_id]))
=============================================================================
