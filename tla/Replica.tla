------------------------------- MODULE Replica -------------------------------
(* The replica matching engine, in its two forms.  `broker` says which one   *)
(* this behaviour runs: "sync" is replica_broker.rs, whose methods take       *)
(* &mut self and are one step each; "async" is async_replica_broker.rs, whose *)
(* methods are called from several threads and never hold the lock of the     *)
(* broker (`inner`) and the lock of an order handle together, so that each    *)
(* critical section is a step of its own.                                     *)
(*                                                                            *)
(* All collections hold handles of the same shared orders; here they hold the *)
(* order's id and `orders` is the shared cell.  `completed` counts how often  *)
(* each order was pushed: its order is never read.  `fills` is the set of the *)
(* orders in the Vec of fills: run_fill visits it in placement order, each    *)
(* visit touching its own order only.  ReplicaFill.last_price, which no       *)
(* operation reads, and the user tables, which only accessors read, are left  *)
(* out.                                                                       *)
EXTENDS Simulation, FiniteSets

CONSTANTS MaxOrders,    \* orders are numbered as they are placed
          Symbols,
          Placements,   \* what callers place: VOrders without quantities split
          Quantities,   \* quantities a modify asks for
          Prices,       \* last prices, 0 (no price yet) among them
          Limits,       \* prices and triggers a modify asks for
          Brokers,      \* which of "sync" and "async" is checked
          Threads,
          MaxModifies, MaxUpdates     \* bounds on the calls of the environment

Ids == 1 .. MaxOrders

(* The orders the broker holds.                                              *)
Order == VOrder(Symbols, Nat \ {0}, Int)

(* A caller names a positive quantity and numbers for prices; what is filled *)
(* and canceled starts at zero.                                               *)
ASSUME CallAssumption ==
    /\ MaxOrders \in Nat
    /\ Quantities \subseteq Nat \ {0}
    /\ Prices \subseteq Int /\ Limits \subseteq Int
    /\ \A a \in Placements :
         /\ a \in Order
         /\ a.filled_quantity = 0 /\ a.pending_quantity = 0 /\ a.canceled_quantity = 0

ASSUME NoneAssumption == None \notin Order /\ None \notin Ids

VARIABLES broker, orders, instruments, pending, fills, completed, threads,
          modifies, updates

vars == <<broker, orders, instruments, pending, fills, completed, threads,
          modifies, updates>>

Unlisted == None

Idle == [pc |-> "idle", order |-> None, todo |-> {}, done |-> {},
         prices |-> [s \in Symbols |-> Unlisted]]

Placed == {o \in Ids : orders[o] # None}

Init ==
    /\ broker \in Brokers
    /\ orders = [o \in Ids |-> None]
    /\ instruments = [s \in Symbols |-> Unlisted]
    /\ pending = {} /\ fills = {}
    /\ completed = [o \in Ids |-> 0]
    /\ threads = [t \in Threads |-> Idle]
    /\ modifies = 0 /\ updates = 0

(* The copies of OrderFill's rules that work on a shared handle.             *)
apply_as_market(o, last_price) == as_market(o, last_price)

(* A plausible mistake: the early return for a done order is forgotten.      *)
UpdateDone(o, last_price) ==
    IF o.order_type = "Market" THEN fill_all(o)
    ELSE IF o.price # None /\ Better(o.side, last_price, o.price) THEN fill_all(o) ELSE o

apply_fill_update(o, last_price) == update_with_price(o, last_price)

(* Vec::push, and the push that first looks for the same handle.             *)
Push(S) == [o \in Ids |-> IF o \in S THEN completed[o] + 1 ELSE completed[o]]

PlainPush(S) == Push(S)

push_completed_unique(S) ==
    [o \in Ids |-> IF o \in S /\ completed[o] = 0 THEN 1 ELSE completed[o]]

Rejected(v) == [v EXCEPT !.rejected = TRUE, !.canceled_quantity = v.quantity,
                         !.pending_quantity = 0]

Canceled(v) == [v EXCEPT !.canceled_quantity = v.quantity - v.filled_quantity]

(* The order a placement becomes, with the lookup of its symbol.             *)
Accepted(a) == instruments[a.symbol] # Unlisted

NewOrder(a) ==
    IF Accepted(a) THEN apply_as_market(from_init(a), instruments[a.symbol])
    ELSE Rejected(from_init(a))

Record(o, a) ==
    /\ o = Cardinality(Placed) + 1
    /\ orders' = [orders EXCEPT ![o] = NewOrder(a)]
    /\ pending' = IF Accepted(a) THEN pending \cup {o} ELSE pending
    /\ fills' = IF Accepted(a) THEN fills \cup {o} ELSE fills
    /\ UNCHANGED <<broker, instruments, modifies, updates>>

(* Instruments are overwritten by name; a new name lists its symbol.         *)
update(s, p) ==
    /\ updates < MaxUpdates
    /\ updates' = updates + 1
    /\ instruments' = [instruments EXCEPT ![s] = p]
    /\ UNCHANGED <<broker, orders, pending, fills, completed, threads, modifies>>

(* The field writes of a modify; nothing else is recomputed.                 *)
Rewrite(v) ==
    {[v EXCEPT !.quantity = q] : q \in Quantities}
    \cup {[v EXCEPT !.price = p] : p \in Limits}
    \cup {[v EXCEPT !.trigger_price = p] : p \in Limits}
    \cup {[v EXCEPT !.order_type = ty] : ty \in OrderType}

SetOrder(o, v) ==
    /\ orders' = [orders EXCEPT ![o] = v]
    /\ UNCHANGED <<broker, instruments, pending, modifies, updates>>

-----------------------------------------------------------------------------
(* The synchronous broker.                                                    *)

order_place(o, a) ==
    /\ broker = "sync"
    /\ Record(o, a)
    /\ completed' = IF Accepted(a) THEN completed ELSE Push({o})
    /\ UNCHANGED threads

order_modify(o) ==
    /\ broker = "sync"
    /\ o \in Placed
    /\ modifies < MaxModifies
    /\ modifies' = modifies + 1
    /\ \E v \in Rewrite(orders[o]) : orders' = [orders EXCEPT ![o] = v]
    /\ UNCHANGED <<broker, instruments, pending, fills, completed, threads, updates>>

order_cancel(o) ==
    /\ broker = "sync"
    /\ o \in Placed /\ ~is_done(orders[o])
    /\ SetOrder(o, Canceled(orders[o]))
    /\ completed' = Push({o})
    /\ UNCHANGED <<fills, threads>>

Priced(o, prices) == prices[orders[o].symbol] \notin {Unlisted, 0}

sync_run_fill ==
    LET visited == {o \in fills : Priced(o, instruments)}
        after == [o \in Ids |-> IF o \in visited
                                THEN apply_fill_update(orders[o], instruments[orders[o].symbol])
                                ELSE orders[o]]
        done == {o \in visited : is_done(after[o])}
    IN  /\ broker = "sync"
        /\ orders' = after
        /\ completed' = Push(done)
        /\ fills' = {o \in fills : ~is_done(after[o])}
        /\ UNCHANGED <<broker, instruments, pending, threads, modifies, updates>>

-----------------------------------------------------------------------------
(* The asynchronous broker.                                                   *)

(* One critical section of `inner`: the handle is not yet shared.            *)
place(o, a) ==
    /\ broker = "async"
    /\ Record(o, a)
    /\ completed' = IF Accepted(a) THEN completed ELSE push_completed_unique({o})
    /\ UNCHANGED threads

(* One critical section of the handle, whatever the order's state.           *)
modify(o) ==
    /\ broker = "async"
    /\ o \in Placed
    /\ modifies < MaxModifies
    /\ modifies' = modifies + 1
    /\ \E v \in Rewrite(orders[o]) : orders' = [orders EXCEPT ![o] = v]
    /\ UNCHANGED <<broker, instruments, pending, fills, completed, threads, updates>>

(* Phase 2 of a cancel; a done order is left alone and the call returns.     *)
cancel(t, o) ==
    /\ broker = "async"
    /\ threads[t].pc = "idle"
    /\ o \in Placed /\ ~is_done(orders[o])
    /\ SetOrder(o, Canceled(orders[o]))
    /\ threads' = [threads EXCEPT ![t] = [Idle EXCEPT !.pc = "push", !.order = o]]
    /\ UNCHANGED <<fills, completed>>

(* The cancel of the AsyncBroker trait: the same two sections, with the      *)
(* outcome told apart.                                                        *)
order_cancel_outcome(t, o) == cancel(t, o)

(* Phase 3 of a cancel.                                                       *)
CancelPush(t) ==
    /\ threads[t].pc = "push"
    /\ completed' = push_completed_unique({threads[t].order})
    /\ threads' = [threads EXCEPT ![t] = Idle]
    /\ UNCHANGED <<broker, orders, instruments, pending, fills, modifies, updates>>

(* Phase A of run_fill: the handles, and then, after the lock was let go,    *)
(* the prices.                                                                *)
run_fill(t) ==
    /\ broker = "async"
    /\ threads[t].pc = "idle"
    /\ threads' = [threads EXCEPT ![t] = [Idle EXCEPT !.pc = "prices", !.todo = fills]]
    /\ UNCHANGED <<broker, orders, instruments, pending, fills, completed, modifies, updates>>

FillPrices(t) ==
    /\ threads[t].pc = "prices"
    /\ threads' = [threads EXCEPT ![t].pc = "fill", ![t].prices = instruments]
    /\ UNCHANGED <<broker, orders, instruments, pending, fills, completed, modifies, updates>>

(* Phase B: a handle without a price is passed over; another is updated      *)
(* under its lock, and looked at under its lock a second time.                *)
FillUpdate(t, o) ==
    /\ threads[t].pc = "fill" /\ o \in threads[t].todo
    /\ IF Priced(o, threads[t].prices)
       THEN /\ orders' = [orders EXCEPT ![o] =
                            apply_fill_update(@, threads[t].prices[@.symbol])]
            /\ threads' = [threads EXCEPT ![t].todo = @ \ {o}, ![t].order = o,
                                          ![t].pc = "check"]
       ELSE /\ threads' = [threads EXCEPT ![t].todo = @ \ {o}]
            /\ UNCHANGED orders
    /\ UNCHANGED <<broker, instruments, pending, fills, completed, modifies, updates>>

(* A plausible mistake: only the orders this pass has filled are collected,  *)
(* so that one already filled when it was placed is passed over.              *)
CheckOpenOnly(t) ==
    /\ threads[t].pc = "check"
    /\ threads' = [threads EXCEPT ![t].pc = "fill", ![t].order = None,
                     ![t].done = IF orders[threads[t].order].order_type = "Market"
                                    /\ is_done(orders[threads[t].order])
                                 THEN @ \cup {threads[t].order} ELSE @]
    /\ UNCHANGED <<broker, orders, instruments, pending, fills, completed, modifies, updates>>

FillCheck(t) ==
    /\ threads[t].pc = "check"
    /\ threads' = [threads EXCEPT ![t].pc = "fill", ![t].order = None,
                     ![t].done = IF is_done(orders[threads[t].order])
                                 THEN @ \cup {threads[t].order} ELSE @]
    /\ UNCHANGED <<broker, orders, instruments, pending, fills, completed, modifies, updates>>

(* A plausible mistake: the fills are filtered by what is done now, as the   *)
(* synchronous broker filters them.                                           *)
FilterByDone(t) ==
    /\ threads[t].pc = "fill" /\ threads[t].todo = {}
    /\ completed' = push_completed_unique(threads[t].done)
    /\ fills' = {o \in fills : ~is_done(orders[o])}
    /\ threads' = [threads EXCEPT ![t] = Idle]
    /\ UNCHANGED <<broker, orders, instruments, pending, modifies, updates>>

(* Phase C, under `inner`.                                                    *)
FillReconcile(t) ==
    /\ threads[t].pc = "fill" /\ threads[t].todo = {}
    /\ completed' = push_completed_unique(threads[t].done)
    /\ fills' = fills \ threads[t].done
    /\ threads' = [threads EXCEPT ![t] = Idle]
    /\ UNCHANGED <<broker, orders, instruments, pending, modifies, updates>>

Step(t) ==
    \/ CancelPush(t)
    \/ FillPrices(t)
    \/ \E o \in Ids : FillUpdate(t, o)
    \/ FillCheck(t)
    \/ FillReconcile(t)

Next ==
    \/ \E s \in Symbols, p \in Prices : update(s, p)
    \/ \E o \in Ids, a \in Placements : order_place(o, a) \/ place(o, a)
    \/ \E o \in Ids : order_modify(o) \/ order_cancel(o) \/ modify(o)
    \/ sync_run_fill
    \/ \E t \in Threads, o \in Ids : cancel(t, o) \/ order_cancel_outcome(t, o)
    \/ \E t \in Threads : run_fill(t) \/ Step(t)

(* The bodies of the async methods have no await: a call that was polled     *)
(* runs to its end, at the pace of its thread.  Some thread of the broker's   *)
(* owner keeps calling run_fill, once per tick.                               *)
Fairness == \A t \in Threads : WF_vars(Step(t)) /\ WF_vars(run_fill(t))

Spec == Init /\ [][Next]_vars /\ Fairness

-----------------------------------------------------------------------------
(* Properties *)

(* Values stay in their sets.                                                *)
TypeOK ==
    /\ broker \in Brokers
    /\ orders \in [Ids -> Order \cup {None}]
    /\ instruments \in [Symbols -> Prices \cup {Unlisted}]
    /\ pending \subseteq Ids /\ fills \subseteq pending
    /\ completed \in [Ids -> Nat]
    /\ threads \in [Threads -> [pc : {"idle", "push", "prices", "fill", "check"},
                                order : Ids \cup {None}, todo : SUBSET Ids, done : SUBSET Ids,
                                prices : [Symbols -> Prices \cup {Unlisted}]]]
    /\ modifies \in Nat /\ updates \in Nat

(* The place of an order in its life, as the abstract engine tells it.  An   *)
(* order with nothing pending is closed for good: filled, or rejected.  One   *)
(* that is done with something still pending was canceled, and a modified     *)
(* quantity may make it trade again.                                          *)
StageOf(v) ==
    IF v = None THEN "none"
    ELSE IF v.pending_quantity = 0 THEN "closed"
    ELSE IF is_done(v) THEN "canceled"
    ELSE IF v.canceled_quantity > 0 THEN "reopened"
    ELSE "open"

Stage(o) == StageOf(orders[o])

Engine == INSTANCE MatchingEngine
    WITH stage <- [o \in Ids |-> Stage(o)],
         reported <- {o \in Ids : completed[o] > 0}

(* Both brokers implement the abstract engine: an order that is filled or    *)
(* rejected never trades again, a cancel stops an order until a modify        *)
(* reopens it, and completed never holds an order that was open throughout.   *)
Refines == Engine!ESpec

(* However a cancel and a run_fill overlap, the asynchronous broker reports  *)
(* an order in completed once (push_completed_unique); the synchronous one,   *)
(* which pushes at the cancel and again at the next run_fill, does not.       *)
CompletedOnce == broker = "async" => \A o \in Ids : completed[o] <= 1

(* An order leaves the fills of the asynchronous broker only when it has     *)
(* been reported, and never while it is plainly open: what is neither done    *)
(* nor reopened by a modify is still being matched.                           *)
KeptOrReported ==
    broker = "async" =>
        \A o \in pending \ fills : completed[o] > 0 /\ Stage(o) # "open"

(* What the synchronous run_fill says of itself: it moves done orders into   *)
(* completed, then filters out done entries.                                  *)
DoneAreMoved == \A o \in pending \ fills : completed[o] > 0

(* An order that is closed, at placement or by a price, is reported once     *)
(* its instruments have prices.                                               *)
ClosedIsReported ==
    (broker = "async" /\ <>[](\A s \in Symbols : instruments[s] \notin {0, Unlisted}))
        => \A o \in Ids : Stage(o) = "closed" ~> completed[o] > 0
=============================================================================
