---------------------------- MODULE ReplicaProofs ----------------------------
(* Proofs about Replica: type correctness, the two safety invariants of the   *)
(* asynchronous broker, and the refinement of MatchingEngine by both.         *)
EXTENDS Replica, FiniteSetTheorems, TLAPS

(* An order with something pending has nothing filled: a fill closes it.     *)
Sound(v) ==
    /\ v.filled_quantity \in Nat /\ v.pending_quantity \in Nat
    /\ v.canceled_quantity \in Nat
    /\ v.pending_quantity > 0 => v.filled_quantity = 0

(* The order has left the open stage, which it never enters again.           *)
Left(v) == v.pending_quantity = 0 \/ v.canceled_quantity > 0

SoundOrders == \A o \in Placed : Sound(orders[o])

(* Orders are numbered in the order of their placement, without gaps.        *)
PlacedInOrder == \E k \in 0 .. MaxOrders : Placed = 1 .. k

(* What a thread carries from one critical section to the next is still true *)
(* when it is used: what it holds was placed, and what it is about to report  *)
(* has left the open stage.                                                   *)
ThreadSound(t) ==
    /\ threads[t].pc = "push" =>
         threads[t].order \in Placed /\ Left(orders[threads[t].order])
    /\ threads[t].pc = "check" => threads[t].order \in Placed
    /\ threads[t].todo \subseteq Placed
    /\ \A o \in threads[t].done : o \in Placed /\ Left(orders[o])

ListsPlaced == pending \subseteq Placed

IInv ==
    /\ TypeOK /\ SoundOrders /\ PlacedInOrder /\ ListsPlaced
    /\ \A t \in Threads : ThreadSound(t)
    /\ CompletedOnce /\ KeptOrReported

-----------------------------------------------------------------------------
(* The operators on one order.                                                *)

(* Overwriting the three quantities changes nothing else.                    *)
Split(v, f, p, c) ==
    [v EXCEPT !.filled_quantity = f, !.pending_quantity = p, !.canceled_quantity = c]

LEMMA Resplit ==
    ASSUME NEW v \in Order, NEW f \in Int, NEW p \in Int, NEW c \in Int
    PROVE  /\ Split(v, f, p, c) \in Order
           /\ Split(v, f, p, c).symbol = v.symbol
           /\ Split(v, f, p, c).quantity = v.quantity
           /\ Split(v, f, p, c).filled_quantity = f
           /\ Split(v, f, p, c).pending_quantity = p
           /\ Split(v, f, p, c).canceled_quantity = c
<1> DEFINE x == [v EXCEPT !.filled_quantity = f]
           y == [x EXCEPT !.pending_quantity = p]
           w == [y EXCEPT !.canceled_quantity = c]
<1>1. x \in Order /\ x.symbol = v.symbol /\ x.quantity = v.quantity /\ x.filled_quantity = f
  BY DEF Order, VOrder
<1> HIDE DEF x
<1>2. /\ y \in Order /\ y.symbol = v.symbol /\ y.quantity = v.quantity
      /\ y.filled_quantity = f /\ y.pending_quantity = p
  BY <1>1 DEF Order, VOrder
<1> HIDE DEF y
<1>3. /\ w \in Order /\ w.symbol = v.symbol /\ w.quantity = v.quantity
      /\ w.filled_quantity = f /\ w.pending_quantity = p /\ w.canceled_quantity = c
  BY <1>2 DEF Order, VOrder
<1>4. QED
  BY <1>3 DEF x, y, Split

(* A fill leaves nothing pending, whatever was canceled or modified before.  *)
LEMMA FillAllCloses ==
    ASSUME NEW v \in Order, Sound(v)
    PROVE  /\ fill_all(v) \in Order /\ Sound(fill_all(v))
           /\ fill_all(v).pending_quantity = 0
           /\ fill_all(v).symbol = v.symbol
<1> DEFINE u == [v EXCEPT !.filled_quantity = v.quantity]
           n == normalise_quantities(u.quantity, u.filled_quantity,
                                     u.pending_quantity, u.canceled_quantity)
<1>1. /\ u \in Order /\ u.quantity = v.quantity /\ u.filled_quantity = v.quantity
      /\ u.canceled_quantity \in Nat /\ u.quantity \in Nat \ {0} /\ u.symbol = v.symbol
  BY DEF Order, VOrder, Sound
<1> HIDE DEF u
<1>2. n.p = 0 /\ n.f \in Nat /\ n.c \in Nat /\ n.f \in Int /\ n.c \in Int
  BY <1>1 DEF normalise_quantities, MinOf
<1> HIDE DEF n
<1>3. fill_all(v) = Split(u, n.f, n.p, n.c)
  BY DEF fill_all, make_right_quantity, u, n, Split
<1>4. QED
  BY <1>1, <1>2, <1>3, Resplit DEF Sound

(* A price either leaves the quantities of an order as they are, or closes   *)
(* it; an order that is done is left alone.                                   *)
LEMMA UpdateClosesOrKeeps ==
    ASSUME NEW v \in Order, Sound(v), NEW p \in Int
    PROVE  LET w == apply_fill_update(v, p) IN
           /\ w \in Order /\ Sound(w) /\ w.symbol = v.symbol
           /\ \/ /\ w.quantity = v.quantity
                 /\ w.filled_quantity = v.filled_quantity
                 /\ w.pending_quantity = v.pending_quantity
                 /\ w.canceled_quantity = v.canceled_quantity
              \/ ~is_done(v) /\ w.pending_quantity = 0
<1> DEFINE s == IF v.order_type = "Stop" /\ v.trigger_price = None
                THEN [v EXCEPT !.trigger_price = v.price] ELSE v
           m == [v EXCEPT !.price = p]
           w == apply_fill_update(v, p)
<1>1. /\ s \in Order /\ Sound(s) /\ s.symbol = v.symbol /\ s.quantity = v.quantity
      /\ s.filled_quantity = v.filled_quantity
      /\ s.pending_quantity = v.pending_quantity
      /\ s.canceled_quantity = v.canceled_quantity
  BY DEF Order, VOrder, Sound
<1>2. m \in Order /\ Sound(m) /\ m.symbol = v.symbol
  BY DEF Order, VOrder, Sound
<1>3. w \in {v, fill_all(m), fill_all(v), fill_all(s), s}
      /\ (is_done(v) => w = v)
  <2>1. v.order_type \in {"Market", "Limit", "Stop"}
    BY DEF Order, VOrder, OrderType
  <2>2. QED
    BY <2>1 DEF apply_fill_update, update_with_price
<1> HIDE DEF s, m, w
<1>4. CASE w = v
  BY <1>4 DEF w
<1>5. CASE w = s
  BY <1>1, <1>5 DEF w
<1>6. CASE ~is_done(v) /\ w \in {fill_all(m), fill_all(v), fill_all(s)}
  BY <1>1, <1>2, <1>6, FillAllCloses DEF w
<1>7. QED
  BY <1>3, <1>4, <1>5, <1>6 DEF w

(* A new order waits with all of its quantity pending, or is closed.         *)
LEMMA FreshOrder ==
    ASSUME NEW a \in Placements
    PROVE  /\ NewOrder(a) \in Order /\ Sound(NewOrder(a))
           /\ ~Accepted(a) => NewOrder(a).pending_quantity = 0
           /\ \/ NewOrder(a).pending_quantity = 0
              \/ NewOrder(a).canceled_quantity = 0
<1> DEFINE v == from_init(a)
<1>1. /\ v \in Order /\ v.filled_quantity = 0 /\ v.canceled_quantity = 0
      /\ v.pending_quantity = v.quantity
  <2>1. /\ a \in Order /\ a.filled_quantity = 0 /\ a.pending_quantity = 0
        /\ a.canceled_quantity = 0 /\ a.quantity \in Nat /\ a.quantity \in Int
    BY CallAssumption DEF Order, VOrder
  <2>2. normalise_quantities(a.quantity, 0, 0, 0)
          = [f |-> 0, p |-> a.quantity, c |-> 0]
    BY <2>1 DEF normalise_quantities
  <2> DEFINE n == normalise_quantities(a.quantity, 0, 0, 0)
  <2>3. v = Split(a, n.f, n.p, n.c)
    BY <2>1 DEF from_init, make_right_quantity, Split
  <2>4. v = Split(a, 0, a.quantity, 0)
    BY <2>2, <2>3
  <2>5. QED
    BY <2>1, <2>4, Resplit
<1> HIDE DEF v
<1>2. Sound(v) /\ v.quantity \in Nat \ {0} /\ v.quantity \in Int
  BY <1>1 DEF Sound, Order, VOrder
<1> DEFINE m == make_right_quantity(v)
<1>3. /\ m \in Order /\ m.filled_quantity = 0 /\ m.canceled_quantity = 0
      /\ m.pending_quantity = m.quantity
  <2> DEFINE n == normalise_quantities(v.quantity, 0, v.quantity, 0)
  <2>1. n = [f |-> 0, p |-> v.quantity, c |-> 0]
    BY <1>2 DEF normalise_quantities, MinOf
  <2>2. m = Split(v, n.f, n.p, n.c)
    BY <1>1 DEF make_right_quantity, Split
  <2>3. m = Split(v, 0, v.quantity, 0)
    BY <2>1, <2>2
  <2>4. QED
    BY <1>1, <1>2, <2>3, Resplit
<1>4. CASE Accepted(a)
  <2>1. NewOrder(a) \in {v, fill_all(v), m}
    BY <1>4 DEF NewOrder, apply_as_market, as_market, v
  <2>2. Sound(m)
    BY <1>3 DEF Sound, Order, VOrder
  <2> HIDE DEF m
  <2>3. QED
    BY <1>1, <1>2, <1>3, <1>4, <2>1, <2>2, FillAllCloses
<1>5. CASE ~Accepted(a)
  <2>1. NewOrder(a) = Rejected(v)
    BY <1>5 DEF NewOrder, v
  <2>2. QED
    BY <1>1, <1>2, <2>1 DEF Rejected, Sound, Order, VOrder
<1>6. QED
  BY <1>4, <1>5

(* A cancel leaves something pending and something canceled.                 *)
LEMMA CanceledOrder ==
    ASSUME NEW v \in Order, Sound(v), ~is_done(v)
    PROVE  /\ Canceled(v) \in Order /\ Sound(Canceled(v))
           /\ v.pending_quantity > 0
           /\ Canceled(v).pending_quantity = v.pending_quantity
           /\ Canceled(v).canceled_quantity = Canceled(v).quantity
BY DEF Canceled, Sound, Order, VOrder, is_done

(* A modify keeps what is filled, pending and canceled.                      *)
LEMMA RewrittenOrder ==
    ASSUME NEW v \in Order, Sound(v), NEW w \in Rewrite(v)
    PROVE  /\ w \in Order /\ Sound(w)
           /\ w.filled_quantity = v.filled_quantity
           /\ w.pending_quantity = v.pending_quantity
           /\ w.canceled_quantity = v.canceled_quantity
BY CallAssumption DEF Rewrite, Sound, Order, VOrder

(* An order that is done has left the open stage.                            *)
LEMMA DoneHasLeft ==
    ASSUME NEW v \in Order, Sound(v), is_done(v)
    PROVE  Left(v)
BY DEF Left, Sound, Order, VOrder, is_done

(* For an order that exists, having left the open stage is what Stage says.  *)
LEMMA LeftIsStage ==
    ASSUME NEW v \in Order, Sound(v)
    PROVE  /\ Left(v) <=> StageOf(v) # "open"
           /\ StageOf(v) # "none"
BY NoneAssumption DEF Left, StageOf, Sound, Order, VOrder, is_done

-----------------------------------------------------------------------------
(* What any step does to the orders.                                          *)

(* Orders stay placed, well-formed and numbered without gaps, and none comes *)
(* back to the open stage.                                                    *)
OrdersKept ==
    /\ orders' \in [Ids -> Order \cup {None}]
    /\ SoundOrders' /\ PlacedInOrder'
    /\ Placed \subseteq Placed'
    /\ \A o \in Placed : Left(orders[o]) => Left(orders'[o])

LEMMA PlacedOrder ==
    ASSUME IInv, NEW o \in Placed
    PROVE  o \in Ids /\ orders[o] \in Order /\ Sound(orders[o])
BY DEF IInv, TypeOK, SoundOrders, Placed

LEMMA NothingChanged ==
    ASSUME IInv, UNCHANGED orders
    PROVE  OrdersKept
BY DEF IInv, TypeOK, OrdersKept, SoundOrders, PlacedInOrder, Placed

LEMMA OneChanged ==
    ASSUME IInv, NEW o \in Placed, NEW w \in Order, Sound(w),
           Left(orders[o]) => Left(w),
           orders' = [orders EXCEPT ![o] = w]
    PROVE  OrdersKept
<1>1. w # None
  BY NoneAssumption
<1>2. Placed' = Placed
  BY <1>1 DEF IInv, TypeOK, Placed
<1>3. SoundOrders'
  BY <1>2 DEF IInv, TypeOK, SoundOrders, Placed
<1>4. \A u \in Placed : Left(orders[u]) => Left(orders'[u])
  BY DEF IInv, TypeOK, Placed
<1>5. orders' \in [Ids -> Order \cup {None}]
  BY DEF IInv, TypeOK, Placed
<1>6. QED
  BY <1>2, <1>3, <1>4, <1>5 DEF OrdersKept, IInv, PlacedInOrder

(* The number given to a new order is free.                                  *)
LEMMA NextNumber ==
    ASSUME IInv, NEW o \in Ids, o = Cardinality(Placed) + 1
    PROVE  orders[o] = None /\ Placed = 1 .. (o - 1)
<1>1. PICK k \in 0 .. MaxOrders : Placed = 1 .. k
  BY DEF IInv, PlacedInOrder
<1>2. Cardinality(Placed) = k
  <2>1. 1 \in Int /\ k \in Int
    BY CallAssumption
  <2>2. Cardinality(1 .. k) = IF 1 > k THEN 0 ELSE k - 1 + 1
    BY <2>1, FS_Interval
  <2>3. k \in Nat
    BY CallAssumption
  <2>4. QED
    BY <1>1, <2>2, <2>3
<1>3. k \in Nat
  BY CallAssumption
<1>4. Placed = 1 .. (o - 1) /\ o \notin Placed
  BY <1>1, <1>2, <1>3
<1>5. QED
  BY <1>4 DEF Placed

LEMMA OnePlaced ==
    ASSUME IInv, NEW o \in Ids, NEW a \in Placements, Record(o, a)
    PROVE  /\ OrdersKept /\ orders[o] = None
           /\ orders' = [orders EXCEPT ![o] = NewOrder(a)]
           /\ Placed' = Placed \cup {o}
<1> DEFINE w == NewOrder(a)
<1>1. w \in Order /\ Sound(w) /\ w # None
  BY FreshOrder, NoneAssumption
<1>2. orders' = [orders EXCEPT ![o] = w] /\ o = Cardinality(Placed) + 1
  BY DEF Record
<1> HIDE DEF w
<1>3. orders[o] = None /\ Placed = 1 .. (o - 1)
  BY <1>2, NextNumber
<1>4. Placed' = Placed \cup {o}
  BY <1>1, <1>2 DEF IInv, TypeOK, Placed
<1>5. PlacedInOrder'
  <2>1. 1 .. (o - 1) \cup {o} = 1 .. o /\ o \in 0 .. MaxOrders
    BY CallAssumption DEF Ids
  <2>2. Placed' = 1 .. o
    BY <1>3, <1>4, <2>1
  <2>3. QED
    BY <2>1, <2>2 DEF PlacedInOrder
<1>6. SoundOrders'
  BY <1>1, <1>2, <1>4 DEF IInv, TypeOK, SoundOrders, Placed
<1>7. \A u \in Placed : Left(orders[u]) => Left(orders'[u])
  BY <1>2, <1>3 DEF IInv, TypeOK, Placed
<1>8. orders' \in [Ids -> Order \cup {None}]
  BY <1>1, <1>2 DEF IInv, TypeOK
<1>9. QED
  BY <1>2, <1>3, <1>4, <1>5, <1>6, <1>7, <1>8 DEF OrdersKept, w

LEMMA OneUpdated ==
    ASSUME IInv, NEW o \in Placed, NEW w \in Order, Sound(w),
           orders' = [orders EXCEPT ![o] = w],
           \/ /\ w.pending_quantity = orders[o].pending_quantity
              /\ w.canceled_quantity = orders[o].canceled_quantity
           \/ w.pending_quantity = 0
           \/ w.canceled_quantity > 0
    PROVE  OrdersKept
BY OneChanged DEF Left

LEMMA AllUpdated ==
    ASSUME IInv, sync_run_fill
    PROVE  /\ OrdersKept
           /\ \A o \in Ids : orders[o] = None => orders'[o] = None
           /\ \A o \in Placed :
                /\ orders'[o] \in Order /\ Sound(orders'[o])
                /\ \/ /\ orders'[o].quantity = orders[o].quantity
                      /\ orders'[o].filled_quantity = orders[o].filled_quantity
                      /\ orders'[o].pending_quantity = orders[o].pending_quantity
                      /\ orders'[o].canceled_quantity = orders[o].canceled_quantity
                   \/ ~is_done(orders[o]) /\ orders'[o].pending_quantity = 0
<1> DEFINE visited == {o \in fills : Priced(o, instruments)}
<1>1. orders' = [o \in Ids |-> IF o \in visited
                               THEN apply_fill_update(orders[o], instruments[orders[o].symbol])
                               ELSE orders[o]]
  BY DEF sync_run_fill
<1>2. \A o \in visited : o \in Placed /\ instruments[orders[o].symbol] \in Int
  <2> TAKE o \in visited
  <2>1. o \in Placed
    BY DEF IInv, TypeOK, ListsPlaced
  <2>2. orders[o].symbol \in Symbols
    BY <2>1, PlacedOrder DEF Order, VOrder
  <2>3. instruments[orders[o].symbol] \in Prices
    BY <2>2 DEF IInv, TypeOK, Priced, Unlisted
  <2>4. QED
    BY <2>1, <2>3, CallAssumption
<1> HIDE DEF visited
<1>3. \A o \in Ids : orders[o] = None => orders'[o] = None
  BY <1>1, <1>2 DEF Placed
<1>4. ASSUME NEW o \in Placed
      PROVE  /\ orders'[o] \in Order /\ Sound(orders'[o])
             /\ \/ /\ orders'[o].quantity = orders[o].quantity
                   /\ orders'[o].filled_quantity = orders[o].filled_quantity
                   /\ orders'[o].pending_quantity = orders[o].pending_quantity
                   /\ orders'[o].canceled_quantity = orders[o].canceled_quantity
                \/ ~is_done(orders[o]) /\ orders'[o].pending_quantity = 0
  <2>1. o \in Ids /\ orders[o] \in Order /\ Sound(orders[o])
    BY PlacedOrder
  <2>2. CASE o \in visited
    <3> DEFINE price == instruments[orders[o].symbol]
    <3>1. orders'[o] = apply_fill_update(orders[o], price)
      BY <1>1, <2>1, <2>2
    <3>2. price \in Int
      BY <1>2, <2>2
    <3> HIDE DEF price
    <3>3. QED
      BY <2>1, <3>1, <3>2, UpdateClosesOrKeeps
  <2>3. CASE o \notin visited
    BY <1>1, <2>1, <2>3
  <2>4. QED
    BY <2>2, <2>3
<1>5. Placed' = Placed
  BY <1>3, <1>4, NoneAssumption DEF Placed
<1>6. orders' \in [Ids -> Order \cup {None}]
  BY <1>1, <1>3, <1>4 DEF Placed
<1>7. SoundOrders' /\ PlacedInOrder'
  BY <1>4, <1>5 DEF SoundOrders, PlacedInOrder, IInv
<1>8. \A o \in Placed : Left(orders[o]) => Left(orders'[o])
  BY <1>4 DEF Left
<1>9. QED
  BY <1>3, <1>4, <1>5, <1>6, <1>7, <1>8 DEF OrdersKept

-----------------------------------------------------------------------------
(* The parts of the invariant that follow from what the orders do.           *)

LEMMA ThreadKept ==
    ASSUME IInv, OrdersKept, NEW t \in Threads, threads'[t] = threads[t]
    PROVE  ThreadSound(t)'
BY DEF IInv, OrdersKept, ThreadSound

(* Nothing is lost from the fills but what was reported and has left the     *)
(* open stage.                                                                *)
LEMMA ReportKept ==
    ASSUME IInv, OrdersKept, broker' = broker,
           \A o \in Ids : completed[o] > 0 => completed'[o] > 0,
           \A o \in pending' \ fills' :
               \/ o \in pending \ fills
               \/ broker # "async"
               \/ o \in Placed /\ Left(orders[o]) /\ completed'[o] > 0
    PROVE  KeptOrReported'
<1> SUFFICES ASSUME broker = "async", NEW o \in pending' \ fills'
             PROVE  completed'[o] > 0 /\ StageOf(orders'[o]) # "open"
  BY DEF KeptOrReported, Stage
<1>1. CASE o \in pending \ fills
  <2>1. o \in Placed /\ completed[o] > 0 /\ StageOf(orders[o]) # "open"
    BY <1>1 DEF IInv, KeptOrReported, ListsPlaced, Stage
  <2>2. Left(orders[o])
    BY <2>1, PlacedOrder, LeftIsStage
  <2>3. Left(orders'[o]) /\ o \in Placed'
    BY <2>1, <2>2 DEF OrdersKept
  <2>4. orders'[o] \in Order /\ Sound(orders'[o])
    BY <2>3 DEF OrdersKept, SoundOrders, Placed
  <2>5. completed'[o] > 0
    BY <2>1, PlacedOrder
  <2>6. QED
    BY <2>3, <2>4, <2>5, LeftIsStage
<1>2. CASE o \in Placed /\ Left(orders[o]) /\ completed'[o] > 0
  <2>1. Left(orders'[o]) /\ o \in Placed'
    BY <1>2 DEF OrdersKept
  <2>2. orders'[o] \in Order /\ Sound(orders'[o])
    BY <2>1 DEF OrdersKept, SoundOrders, Placed
  <2>3. QED
    BY <1>2, <2>1, <2>2, LeftIsStage
<1>3. QED
  BY <1>1, <1>2

(* Either push only adds, and the unique one keeps every count at most one.  *)
LEMMA PushAdds ==
    ASSUME TypeOK, NEW S
    PROVE  /\ Push(S) \in [Ids -> Nat] /\ push_completed_unique(S) \in [Ids -> Nat]
           /\ \A o \in Ids : completed[o] > 0 => Push(S)[o] > 0
           /\ \A o \in Ids : completed[o] > 0 => push_completed_unique(S)[o] > 0
           /\ \A o \in Ids \cap S : push_completed_unique(S)[o] > 0 /\ Push(S)[o] > 0
           /\ \A o \in Ids \ S : /\ push_completed_unique(S)[o] = completed[o]
                                /\ Push(S)[o] = completed[o]
           /\ \A o \in Ids : completed[o] <= 1 => push_completed_unique(S)[o] <= 1
BY DEF TypeOK, Push, push_completed_unique

-----------------------------------------------------------------------------
(* The invariant, action by action.                                           *)

(* A step that leaves the threads alone.                                     *)
LEMMA ThreadsUntouched ==
    ASSUME IInv, OrdersKept, UNCHANGED threads
    PROVE  \A t \in Threads : ThreadSound(t)'
BY ThreadKept

LEMMA PlaceKeeps ==
    ASSUME IInv, NEW o \in Ids, NEW a \in Placements, order_place(o, a) \/ place(o, a)
    PROVE  IInv'
<1>1. /\ Record(o, a) /\ UNCHANGED threads
      /\ completed' \in {completed, Push({o}), push_completed_unique({o})}
      /\ broker = "async" => completed' \in {completed, push_completed_unique({o})}
  BY DEF order_place, place
<1>2. OrdersKept /\ Placed' = Placed \cup {o}
  BY <1>1, OnePlaced
<1>3. /\ UNCHANGED <<broker, instruments, modifies, updates>>
      /\ pending' \in {pending, pending \cup {o}} /\ fills' \in {fills, fills \cup {o}}
      /\ pending' \ fills' \subseteq pending \ fills /\ fills' \subseteq pending'
  BY <1>1 DEF Record, IInv, TypeOK
<1>4. TypeOK'
  BY <1>1, <1>2, <1>3, PushAdds DEF IInv, TypeOK, OrdersKept
<1>5. ListsPlaced'
  BY <1>2, <1>3 DEF IInv, ListsPlaced
<1>6. CompletedOnce'
  BY <1>1, <1>3, PushAdds DEF IInv, CompletedOnce
<1>7. \A u \in Ids : completed[u] > 0 => completed'[u] > 0
  BY <1>1, PushAdds DEF IInv
<1>8. KeptOrReported'
  BY <1>2, <1>3, <1>7, ReportKept
<1>9. QED
  BY <1>1, <1>2, <1>4, <1>5, <1>6, <1>8, ThreadsUntouched DEF IInv, OrdersKept

LEMMA ModifyKeeps ==
    ASSUME IInv, NEW o \in Ids, order_modify(o) \/ modify(o)
    PROVE  IInv'
<1>1. PICK w \in Rewrite(orders[o]) : orders' = [orders EXCEPT ![o] = w]
  BY DEF order_modify, modify
<1>2. o \in Placed /\ modifies' = modifies + 1
      /\ UNCHANGED <<broker, instruments, pending, fills, completed, threads, updates>>
  BY DEF order_modify, modify
<1>3. /\ w \in Order /\ Sound(w)
      /\ w.pending_quantity = orders[o].pending_quantity
      /\ w.canceled_quantity = orders[o].canceled_quantity
  BY <1>2, PlacedOrder, RewrittenOrder
<1>4. OrdersKept
  BY <1>1, <1>2, <1>3, OneUpdated
<1>5. TypeOK'
  BY <1>2, <1>4 DEF IInv, TypeOK, OrdersKept
<1>6. ListsPlaced' /\ CompletedOnce'
  BY <1>2, <1>4 DEF IInv, ListsPlaced, OrdersKept, CompletedOnce
<1>7. KeptOrReported'
  BY <1>2, <1>4, ReportKept
<1>8. QED
  BY <1>2, <1>4, <1>5, <1>6, <1>7, ThreadsUntouched DEF IInv, OrdersKept

LEMMA SyncCancelKeeps ==
    ASSUME IInv, NEW o \in Ids, order_cancel(o)
    PROVE  IInv'
<1>1. /\ o \in Placed /\ ~is_done(orders[o]) /\ broker = "sync"
      /\ orders' = [orders EXCEPT ![o] = Canceled(orders[o])]
      /\ completed' = Push({o})
      /\ UNCHANGED <<broker, instruments, pending, fills, threads, modifies, updates>>
  BY DEF order_cancel, SetOrder
<1> DEFINE w == Canceled(orders[o])
<1>2. w \in Order /\ Sound(w) /\ w.canceled_quantity = w.quantity
  BY <1>1, PlacedOrder, CanceledOrder
<1>3. w.canceled_quantity > 0
  BY <1>2 DEF Order, VOrder
<1> HIDE DEF w
<1>4. OrdersKept
  BY <1>1, <1>2, <1>3, OneUpdated DEF w
<1>5. TypeOK'
  BY <1>1, <1>4, PushAdds DEF IInv, TypeOK, OrdersKept
<1>6. ListsPlaced' /\ CompletedOnce'
  BY <1>1, <1>4 DEF IInv, ListsPlaced, OrdersKept, CompletedOnce
<1>7. KeptOrReported'
  BY <1>1, <1>4, PushAdds, ReportKept DEF IInv
<1>8. QED
  BY <1>1, <1>4, <1>5, <1>6, <1>7, ThreadsUntouched DEF IInv, OrdersKept

LEMMA SyncFillKeeps ==
    ASSUME IInv, sync_run_fill
    PROVE  IInv'
<1>1. OrdersKept
  BY AllUpdated
<1>2. PICK S : completed' = Push(S)
  BY DEF sync_run_fill
<1>3. /\ broker = "sync" /\ fills' \subseteq fills
      /\ UNCHANGED <<broker, instruments, pending, threads, modifies, updates>>
  BY DEF sync_run_fill
<1>4. TypeOK'
  BY <1>1, <1>2, <1>3, PushAdds DEF IInv, TypeOK, OrdersKept
<1>5. ListsPlaced' /\ CompletedOnce'
  BY <1>1, <1>3 DEF IInv, ListsPlaced, OrdersKept, CompletedOnce
<1>6. KeptOrReported'
  BY <1>3 DEF KeptOrReported
<1>7. QED
  BY <1>1, <1>3, <1>4, <1>5, <1>6, ThreadsUntouched DEF IInv, OrdersKept

LEMMA UpdateKeeps ==
    ASSUME IInv, NEW s \in Symbols, NEW p \in Prices, update(s, p)
    PROVE  IInv'
<1>1. /\ UNCHANGED <<broker, orders, pending, fills, completed, threads, modifies>>
      /\ instruments' = [instruments EXCEPT ![s] = p] /\ updates' = updates + 1
  BY DEF update
<1>2. OrdersKept
  BY <1>1, NothingChanged
<1>3. TypeOK'
  BY <1>1 DEF IInv, TypeOK
<1>4. ListsPlaced' /\ CompletedOnce'
  BY <1>1, <1>2 DEF IInv, ListsPlaced, OrdersKept, CompletedOnce
<1>5. KeptOrReported'
  BY <1>1, <1>2, ReportKept
<1>6. QED
  BY <1>1, <1>2, <1>3, <1>4, <1>5, ThreadsUntouched DEF IInv, OrdersKept

(* A step of one thread that leaves the lists alone.                         *)
LEMMA ThreadStepKeeps ==
    ASSUME IInv, OrdersKept, NEW t \in Threads,
           UNCHANGED <<broker, instruments, pending, fills, completed, modifies, updates>>,
           NEW st \in [pc : {"idle", "push", "prices", "fill", "check"},
                       order : Ids \cup {None}, todo : SUBSET Ids, done : SUBSET Ids,
                       prices : [Symbols -> Prices \cup {Unlisted}]],
           threads' = [threads EXCEPT ![t] = st],
           ThreadSound(t)'
    PROVE  IInv'
<1>1. \A u \in Threads : ThreadSound(u)'
  <2> TAKE u \in Threads
  <2>1. CASE u = t
    BY <2>1
  <2>2. CASE u # t
    BY <2>2, ThreadKept DEF IInv, TypeOK
  <2>3. QED
    BY <2>1, <2>2
<1>2. TypeOK'
  BY DEF IInv, TypeOK, OrdersKept
<1>3. ListsPlaced' /\ CompletedOnce'
  BY DEF IInv, ListsPlaced, OrdersKept, CompletedOnce
<1>4. KeptOrReported'
  BY ReportKept
<1>5. QED
  BY <1>1, <1>2, <1>3, <1>4 DEF IInv, OrdersKept

ThreadState ==
    [pc : {"idle", "push", "prices", "fill", "check"}, order : Ids \cup {None},
     todo : SUBSET Ids, done : SUBSET Ids, prices : [Symbols -> Prices \cup {Unlisted}]]

LEMMA CancelKeeps ==
    ASSUME IInv, NEW t \in Threads, NEW o \in Ids, cancel(t, o)
    PROVE  IInv'
<1> DEFINE w == Canceled(orders[o])
           st == [Idle EXCEPT !.pc = "push", !.order = o]
<1>1. /\ o \in Placed /\ ~is_done(orders[o])
      /\ orders' = [orders EXCEPT ![o] = w]
      /\ threads' = [threads EXCEPT ![t] = st]
      /\ UNCHANGED <<broker, instruments, pending, fills, completed, modifies, updates>>
  BY DEF cancel, SetOrder
<1>2. w \in Order /\ Sound(w) /\ w.canceled_quantity = w.quantity
  BY <1>1, PlacedOrder, CanceledOrder
<1>3. w.canceled_quantity > 0
  BY <1>2 DEF Order, VOrder
<1> HIDE DEF w
<1>4. OrdersKept
  BY <1>1, <1>2, <1>3, OneUpdated
<1>5. st \in ThreadState /\ st.pc = "push" /\ st.order = o /\ st.todo = {} /\ st.done = {}
  BY DEF Idle, ThreadState, Unlisted
<1> HIDE DEF st
<1>6. threads'[t] = st
  BY <1>1 DEF IInv, TypeOK
<1>7. Left(orders'[o]) /\ o \in Placed'
  BY <1>1, <1>3, <1>4 DEF IInv, TypeOK, Left, OrdersKept
<1>8. ThreadSound(t)'
  BY <1>5, <1>6, <1>7 DEF ThreadSound
<1>9. QED
  BY <1>1, <1>4, <1>5, <1>8, ThreadStepKeeps DEF ThreadState

LEMMA RunFillKeeps ==
    ASSUME IInv, NEW t \in Threads, run_fill(t)
    PROVE  IInv'
<1> DEFINE st == [Idle EXCEPT !.pc = "prices", !.todo = fills]
<1>1. /\ threads' = [threads EXCEPT ![t] = st]
      /\ UNCHANGED <<broker, orders, instruments, pending, fills, completed, modifies, updates>>
  BY DEF run_fill
<1>2. OrdersKept
  BY <1>1, NothingChanged
<1>3. st \in ThreadState /\ st.pc = "prices" /\ st.todo = fills /\ st.done = {}
  BY DEF Idle, ThreadState, Unlisted, IInv, TypeOK
<1> HIDE DEF st
<1>4. threads'[t] = st
  BY <1>1 DEF IInv, TypeOK
<1>5. fills \subseteq Placed'
  BY <1>2 DEF IInv, TypeOK, ListsPlaced, OrdersKept
<1>6. ThreadSound(t)'
  BY <1>3, <1>4, <1>5 DEF ThreadSound
<1>7. QED
  BY <1>1, <1>2, <1>3, <1>6, ThreadStepKeeps DEF ThreadState

LEMMA FillPricesKeeps ==
    ASSUME IInv, NEW t \in Threads, FillPrices(t)
    PROVE  IInv'
<1> DEFINE th == threads[t]
           st == [th EXCEPT !.pc = "fill", !.prices = instruments]
<1>1. /\ threads' = [threads EXCEPT ![t] = st]
      /\ UNCHANGED <<broker, orders, instruments, pending, fills, completed, modifies, updates>>
  BY DEF FillPrices, IInv, TypeOK
<1>2. OrdersKept
  BY <1>1, NothingChanged
<1>3. th \in ThreadState
  BY DEF IInv, TypeOK, ThreadState
<1>4. st \in ThreadState /\ st.pc = "fill" /\ st.todo = th.todo /\ st.done = th.done
  BY <1>3 DEF ThreadState, IInv, TypeOK
<1> HIDE DEF st
<1>5. threads'[t] = st
  BY <1>1 DEF IInv, TypeOK
<1>6. ThreadSound(t)'
  BY <1>2, <1>4, <1>5 DEF ThreadSound, IInv, OrdersKept
<1>7. QED
  BY <1>1, <1>2, <1>4, <1>6, ThreadStepKeeps DEF ThreadState

(* What phase B does to one order, to share it with the refinement.          *)
LEMMA FillUpdateOrder ==
    ASSUME IInv, NEW t \in Threads, NEW o \in Ids, FillUpdate(t, o)
    PROVE  /\ o \in Placed
           /\ \/ UNCHANGED orders
              \/ \E w \in Order :
                   /\ Sound(w)
                   /\ orders' = [orders EXCEPT ![o] = w]
                   /\ \/ /\ w.quantity = orders[o].quantity
                         /\ w.filled_quantity = orders[o].filled_quantity
                         /\ w.pending_quantity = orders[o].pending_quantity
                         /\ w.canceled_quantity = orders[o].canceled_quantity
                      \/ ~is_done(orders[o]) /\ w.pending_quantity = 0
<1>1. o \in Placed
  BY DEF FillUpdate, IInv, ThreadSound
<1>2. orders[o] \in Order /\ Sound(orders[o])
  BY <1>1, PlacedOrder
<1>3. CASE Priced(o, threads[t].prices)
  <2> DEFINE price == threads[t].prices[orders[o].symbol]
             w == apply_fill_update(orders[o], price)
  <2>1. orders' = [orders EXCEPT ![o] = w]
    BY <1>3 DEF FillUpdate
  <2>2. orders[o].symbol \in Symbols
    BY <1>2 DEF Order, VOrder
  <2>3. threads[t].prices \in [Symbols -> Prices \cup {Unlisted}]
    BY DEF IInv, TypeOK
  <2>4. price \in Int
    BY <1>3, <2>2, <2>3, CallAssumption DEF Priced, Unlisted
  <2> HIDE DEF price
  <2>5. /\ w \in Order /\ Sound(w)
        /\ \/ /\ w.quantity = orders[o].quantity
              /\ w.filled_quantity = orders[o].filled_quantity
              /\ w.pending_quantity = orders[o].pending_quantity
              /\ w.canceled_quantity = orders[o].canceled_quantity
           \/ ~is_done(orders[o]) /\ w.pending_quantity = 0
    BY <1>2, <2>4, UpdateClosesOrKeeps
  <2> HIDE DEF w
  <2>6. QED
    BY <1>1, <2>1, <2>5
<1>4. CASE ~Priced(o, threads[t].prices)
  BY <1>1, <1>4 DEF FillUpdate
<1>5. QED
  BY <1>3, <1>4

LEMMA FillUpdateKeeps ==
    ASSUME IInv, NEW t \in Threads, NEW o \in Ids, FillUpdate(t, o)
    PROVE  IInv'
<1>1. OrdersKept
  BY FillUpdateOrder, NothingChanged, OneUpdated
<1> DEFINE th == threads[t]
           st == [th EXCEPT !.todo = @ \ {o}, !.order = o, !.pc = "check"]
           su == [th EXCEPT !.todo = @ \ {o}]
<1>2. /\ threads' \in {[threads EXCEPT ![t] = st], [threads EXCEPT ![t] = su]}
      /\ th.pc = "fill" /\ o \in th.todo
      /\ UNCHANGED <<broker, instruments, pending, fills, completed, modifies, updates>>
  BY DEF FillUpdate, IInv, TypeOK
<1>3. th \in ThreadState /\ ThreadSound(t)
  BY DEF IInv, TypeOK, ThreadState
<1>4. /\ st \in ThreadState /\ st.pc = "check" /\ st.todo = th.todo \ {o}
      /\ st.done = th.done /\ st.order = o
  BY <1>3 DEF ThreadState
<1>5. /\ su \in ThreadState /\ su.pc = "fill" /\ su.todo = th.todo \ {o}
      /\ su.done = th.done
  BY <1>2, <1>3 DEF ThreadState
<1> HIDE DEF st, su
<1>6. threads'[t] \in {st, su} /\ threads' = [threads EXCEPT ![t] = threads'[t]]
  BY <1>2 DEF IInv, TypeOK
<1>7. ThreadSound(t)'
  BY <1>1, <1>2, <1>3, <1>4, <1>5, <1>6 DEF ThreadSound, OrdersKept
<1>8. QED
  BY <1>1, <1>2, <1>4, <1>5, <1>6, <1>7, ThreadStepKeeps DEF ThreadState

LEMMA FillCheckKeeps ==
    ASSUME IInv, NEW t \in Threads, FillCheck(t)
    PROVE  IInv'
<1> DEFINE th == threads[t]
           grown == IF is_done(orders[th.order]) THEN th.done \cup {th.order} ELSE th.done
           st == [th EXCEPT !.pc = "fill", !.order = None, !.done = grown]
<1>1. /\ threads' = [threads EXCEPT ![t] = st] /\ th.pc = "check"
      /\ UNCHANGED <<broker, orders, instruments, pending, fills, completed, modifies, updates>>
  BY DEF FillCheck, IInv, TypeOK
<1>2. OrdersKept
  BY <1>1, NothingChanged
<1>3. th \in ThreadState /\ ThreadSound(t)
  BY DEF IInv, TypeOK, ThreadState
<1>4. th.order \in Placed
  BY <1>1, <1>3 DEF ThreadSound
<1>5. grown \subseteq Ids /\ \A o \in grown : o \in Placed /\ Left(orders[o])
  BY <1>3, <1>4, PlacedOrder, DoneHasLeft DEF ThreadState, ThreadSound
<1> HIDE DEF grown
<1>6. st \in ThreadState /\ st.pc = "fill" /\ st.todo = th.todo /\ st.done = grown
  BY <1>3, <1>5 DEF ThreadState
<1> HIDE DEF st
<1>7. threads'[t] = st
  BY <1>1 DEF IInv, TypeOK
<1>8. ThreadSound(t)'
  BY <1>1, <1>2, <1>3, <1>5, <1>6, <1>7 DEF ThreadSound, OrdersKept
<1>9. QED
  BY <1>1, <1>2, <1>6, <1>8, ThreadStepKeeps DEF ThreadState

(* The ends of the calls: both report and go idle.                           *)
LEMMA IdleSound ==
    Idle \in ThreadState /\ Idle.pc = "idle" /\ Idle.todo = {} /\ Idle.done = {}
BY DEF Idle, ThreadState, Unlisted

LEMMA ReportingKeeps ==
    ASSUME IInv, NEW t \in Threads, NEW S \in SUBSET Ids,
           \A o \in S : o \in Placed /\ Left(orders[o]),
           completed' = push_completed_unique(S),
           fills' \in {fills, fills \ S},
           threads' = [threads EXCEPT ![t] = Idle],
           UNCHANGED <<broker, orders, instruments, pending, modifies, updates>>
    PROVE  IInv'
<1>1. OrdersKept
  BY NothingChanged
<1>2. TypeOK'
  BY PushAdds, IdleSound DEF IInv, TypeOK, ThreadState
<1>3. ListsPlaced'
  BY <1>1 DEF IInv, ListsPlaced, OrdersKept
<1>4. CompletedOnce'
  BY PushAdds DEF IInv, CompletedOnce
<1>5. \A o \in Ids : completed[o] > 0 => completed'[o] > 0
  BY PushAdds DEF IInv
<1>6. \A o \in S : completed'[o] > 0
  BY PushAdds DEF IInv
<1>7. KeptOrReported'
  BY <1>1, <1>5, <1>6, ReportKept
<1>8. \A u \in Threads : ThreadSound(u)'
  <2> TAKE u \in Threads
  <2>1. CASE u = t
    BY <2>1, IdleSound DEF ThreadSound, IInv, TypeOK
  <2>2. CASE u # t
    BY <1>1, <2>2, ThreadKept DEF IInv, TypeOK
  <2>3. QED
    BY <2>1, <2>2
<1>9. QED
  BY <1>1, <1>2, <1>3, <1>4, <1>7, <1>8 DEF IInv, OrdersKept

LEMMA CancelPushKeeps ==
    ASSUME IInv, NEW t \in Threads, CancelPush(t)
    PROVE  IInv'
<1>1. threads[t].order \in Placed /\ Left(orders[threads[t].order])
  BY DEF CancelPush, IInv, ThreadSound
<1>2. {threads[t].order} \in SUBSET Ids
  BY <1>1 DEF Placed
<1>3. QED
  BY <1>1, <1>2, ReportingKeeps DEF CancelPush

LEMMA FillReconcileKeeps ==
    ASSUME IInv, NEW t \in Threads, FillReconcile(t)
    PROVE  IInv'
<1>1. /\ threads[t].done \in SUBSET Ids
      /\ \A o \in threads[t].done : o \in Placed /\ Left(orders[o])
  BY DEF IInv, TypeOK, ThreadSound
<1>2. QED
  BY <1>1, ReportingKeeps DEF FillReconcile

LEMMA InitIInv == Init => IInv
<1> SUFFICES ASSUME Init PROVE IInv
  OBVIOUS
<1>1. Placed = {} /\ orders \in [Ids -> Order \cup {None}]
  BY DEF Init, Placed
<1>2. TypeOK
  BY <1>1, IdleSound DEF Init, TypeOK, ThreadState, Unlisted
<1>3. PlacedInOrder
  <2>1. 0 \in 0 .. MaxOrders /\ 1 .. 0 = {}
    BY CallAssumption
  <2>2. QED
    BY <1>1, <2>1 DEF PlacedInOrder
<1>4. \A t \in Threads : ThreadSound(t)
  BY IdleSound DEF Init, ThreadSound
<1>5. QED
  BY <1>1, <1>2, <1>3, <1>4
     DEF IInv, Init, SoundOrders, ListsPlaced, CompletedOnce, KeptOrReported

LEMMA Inductive == IInv /\ [Next]_vars => IInv'
<1> SUFFICES ASSUME IInv, [Next]_vars PROVE IInv'
  OBVIOUS
<1>1. CASE UNCHANGED vars
  BY <1>1 DEF vars, IInv, TypeOK, SoundOrders, PlacedInOrder, ListsPlaced, ThreadSound,
              CompletedOnce, KeptOrReported, Placed, Stage
<1>2. ASSUME NEW s \in Symbols, NEW p \in Prices, update(s, p) PROVE IInv'
  BY <1>2, UpdateKeeps
<1>3. ASSUME NEW o \in Ids, NEW a \in Placements, order_place(o, a) \/ place(o, a)
      PROVE  IInv'
  BY <1>3, PlaceKeeps
<1>4. ASSUME NEW o \in Ids, order_modify(o) \/ order_cancel(o) \/ modify(o) PROVE IInv'
  BY <1>4, ModifyKeeps, SyncCancelKeeps
<1>5. CASE sync_run_fill
  BY <1>5, SyncFillKeeps
<1>6. ASSUME NEW t \in Threads, NEW o \in Ids, cancel(t, o) \/ order_cancel_outcome(t, o)
      PROVE  IInv'
  BY <1>6, CancelKeeps DEF order_cancel_outcome
<1>7. ASSUME NEW t \in Threads, run_fill(t) PROVE IInv'
  BY <1>7, RunFillKeeps
<1>8. ASSUME NEW t \in Threads, Step(t) PROVE IInv'
  BY <1>8, CancelPushKeeps, FillPricesKeeps, FillUpdateKeeps, FillCheckKeeps,
     FillReconcileKeeps DEF Step
<1>9. QED
  BY <1>1, <1>2, <1>3, <1>4, <1>5, <1>6, <1>7, <1>8 DEF Next

LEMMA Always == Spec => []IInv
BY InitIInv, Inductive, PTL DEF Spec

(* Values stay in their sets, with any number of orders, threads and calls.  *)
THEOREM TypeCorrect == Spec => []TypeOK
<1>1. IInv => TypeOK
  BY DEF IInv
<1>2. QED
  BY <1>1, Always, PTL

(* push_completed_unique reports an order of the asynchronous broker once,   *)
(* however many cancels and run_fills overlap.                                *)
THEOREM CompletedOnceSafe == Spec => []CompletedOnce
<1>1. IInv => CompletedOnce
  BY DEF IInv
<1>2. QED
  BY <1>1, Always, PTL

(* The asynchronous run_fill drops an order from its fills in phase C on     *)
(* what it saw of it in phase B, after letting its lock go: the order has     *)
(* been reported, and nothing made it plainly open again in between.          *)
THEOREM KeptSafe == Spec => []KeptOrReported
<1>1. IInv => KeptOrReported
  BY DEF IInv
<1>2. QED
  BY <1>1, Always, PTL

-----------------------------------------------------------------------------
(* The refinement.                                                            *)

(* The steps of the engine, told of the broker's state.                      *)
Reports == \A o \in Ids : completed[o] > 0 => completed'[o] > 0

OnlyLeft == \A o \in Ids : completed'[o] > 0 /\ ~(completed[o] > 0)
                              => StageOf(orders'[o]) \notin {"none", "open"}

LEMMA Matching ==
    ASSUME IInv, NEW S \in SUBSET Ids, Reports, OnlyLeft,
           \A o \in S : StageOf(orders[o]) \in {"open", "reopened"},
           \A o \in Ids : StageOf(orders'[o]) = IF o \in S THEN "closed"
                                                ELSE StageOf(orders[o])
    PROVE  Engine!ENext
<1> DEFINE stage == [o \in Ids |-> Stage(o)]
           reported == {o \in Ids : completed[o] > 0}
<1>1. S \in SUBSET {o \in Ids : stage[o] \in {"open", "reopened"}}
  BY DEF Stage
<1>2. stage' = [o \in Ids |-> IF o \in S THEN "closed" ELSE stage[o]]
  BY DEF Stage
<1>3. /\ reported \subseteq reported'
      /\ \A o \in reported' \ reported : o \in Ids /\ stage'[o] \notin {"none", "open"}
  BY DEF Reports, OnlyLeft, Stage
<1>4. Engine!Match
  BY <1>1, <1>2, <1>3 DEF Engine!Match, Engine!Live
<1>5. QED
  BY <1>4 DEF Engine!ENext

LEMMA OneStage ==
    ASSUME IInv, NEW o \in Ids, NEW w, orders' = [orders EXCEPT ![o] = w]
    PROVE  [u \in Ids |-> Stage(u)]' = [[u \in Ids |-> Stage(u)] EXCEPT ![o] = StageOf(w)]
BY DEF IInv, TypeOK, Stage

(* What the engine sees of a step that reports nothing.                      *)
LEMMA SameReports ==
    ASSUME UNCHANGED completed
    PROVE  {o \in Ids : completed[o] > 0}' = {o \in Ids : completed[o] > 0}
OBVIOUS

LEMMA AddedReport ==
    ASSUME IInv, NEW o \in Ids, completed' \in {Push({o}), push_completed_unique({o})}
    PROVE  {u \in Ids : completed[u] > 0}' = {u \in Ids : completed[u] > 0} \cup {o}
<1>1. TypeOK
  BY DEF IInv
<1>2. \A u \in Ids : completed'[u] > 0 <=> u = o \/ completed[u] > 0
  BY <1>1, PushAdds
<1>3. QED
  BY <1>2

LEMMA PlaceRefines ==
    ASSUME IInv, NEW o \in Ids, NEW a \in Placements, order_place(o, a) \/ place(o, a)
    PROVE  Engine!ENext
<1> DEFINE stage == [u \in Ids |-> Stage(u)]
           reported == {u \in Ids : completed[u] > 0}
           w == NewOrder(a)
<1>1. Record(o, a)
  BY DEF order_place, place
<1>2. orders[o] = None /\ orders' = [orders EXCEPT ![o] = w]
  BY <1>1, OnePlaced
<1>3. /\ w \in Order /\ Sound(w) /\ (~Accepted(a) => w.pending_quantity = 0)
      /\ (w.pending_quantity = 0 \/ w.canceled_quantity = 0)
  BY FreshOrder
<1> HIDE DEF w
<1>4. StageOf(w) \in {"open", "closed"} /\ (~Accepted(a) => StageOf(w) = "closed")
  BY <1>3, NoneAssumption DEF StageOf, Sound, Order, VOrder, is_done
<1>5. stage' = [stage EXCEPT ![o] = StageOf(w)]
  BY <1>2, OneStage
<1>6. stage[o] = "none"
  BY <1>2 DEF Stage, StageOf
<1>7. CASE Accepted(a)
  <2>1. UNCHANGED completed
    BY <1>7 DEF order_place, place
  <2>2. reported' = reported
    BY <2>1, SameReports
  <2>3. Engine!Place(o)
    BY <1>4, <1>5, <1>6, <2>2 DEF Engine!Place
  <2>4. QED
    BY <2>3 DEF Engine!ENext
<1>8. CASE ~Accepted(a)
  <2>1. completed' \in {Push({o}), push_completed_unique({o})}
    BY <1>8 DEF order_place, place
  <2>2. reported' = reported \cup {o}
    BY <2>1, AddedReport
  <2>3. Engine!Place(o)
    BY <1>4, <1>5, <1>6, <1>8, <2>2 DEF Engine!Place
  <2>4. QED
    BY <2>3 DEF Engine!ENext
<1>9. QED
  BY <1>7, <1>8

LEMMA CancelRefines ==
    ASSUME IInv, NEW o \in Placed, ~is_done(orders[o]),
           orders' = [orders EXCEPT ![o] = Canceled(orders[o])],
           completed' \in {completed, Push({o})}
    PROVE  Engine!ENext
<1> DEFINE stage == [u \in Ids |-> Stage(u)]
           reported == {u \in Ids : completed[u] > 0}
           v == orders[o]
           w == Canceled(v)
<1>1. o \in Ids /\ v \in Order /\ Sound(v)
  BY PlacedOrder
<1>2. /\ w \in Order /\ Sound(w) /\ v.pending_quantity > 0
      /\ w.pending_quantity = v.pending_quantity /\ w.canceled_quantity = w.quantity
  BY <1>1, CanceledOrder
<1>3. stage[o] \in {"open", "reopened"}
  BY <1>1, <1>2, NoneAssumption DEF Stage, StageOf, Order, VOrder
<1> HIDE DEF w
<1>4. StageOf(w) = "canceled"
  BY <1>2, NoneAssumption DEF StageOf, Sound, Order, VOrder, is_done
<1>5. stage' = [stage EXCEPT ![o] = "canceled"]
  BY <1>1, <1>4, OneStage DEF w
<1>6. reported' \in {reported, reported \cup {o}}
  BY <1>1, AddedReport, SameReports
<1>7. Engine!Cancel(o)
  BY <1>1, <1>3, <1>5, <1>6 DEF Engine!Cancel, Engine!Live
<1>8. QED
  BY <1>1, <1>7 DEF Engine!ENext

LEMMA ModifyRefines ==
    ASSUME IInv, NEW o \in Ids, order_modify(o) \/ modify(o)
    PROVE  [Engine!ENext]_(Engine!evars)
<1> DEFINE stage == [u \in Ids |-> Stage(u)]
           reported == {u \in Ids : completed[u] > 0}
           v == orders[o]
<1>1. PICK w \in Rewrite(v) : orders' = [orders EXCEPT ![o] = w]
  BY DEF order_modify, modify
<1>2. o \in Placed /\ UNCHANGED completed
  BY DEF order_modify, modify
<1>3. v \in Order /\ Sound(v)
  BY <1>2, PlacedOrder
<1>4. /\ w \in Order /\ Sound(w)
      /\ w.filled_quantity = v.filled_quantity
      /\ w.pending_quantity = v.pending_quantity
      /\ w.canceled_quantity = v.canceled_quantity
  BY <1>3, RewrittenOrder
<1>5. \/ StageOf(w) = StageOf(v)
      \/ StageOf(v) = "canceled" /\ StageOf(w) = "reopened"
      \/ StageOf(v) = "reopened" /\ StageOf(w) = "canceled"
  BY <1>3, <1>4, NoneAssumption DEF StageOf, Sound, Order, VOrder, is_done
<1>6. stage' = [stage EXCEPT ![o] = StageOf(w)] /\ stage[o] = StageOf(v)
  BY <1>1, OneStage DEF Stage
<1>7. reported' = reported
  BY <1>2, SameReports
<1>8. CASE StageOf(w) = StageOf(v)
  BY <1>6, <1>7, <1>8 DEF Engine!evars
<1>9. CASE StageOf(w) # StageOf(v)
  <2>1. Engine!Modify(o)
    BY <1>5, <1>6, <1>7, <1>9 DEF Engine!Modify
  <2>2. QED
    BY <2>1 DEF Engine!ENext
<1>10. QED
  BY <1>8, <1>9

(* A price closes the live orders it fills; the stage of an order whose      *)
(* quantities it leaves alone stays.                                          *)
LEMMA ClosedOrSame ==
    ASSUME NEW v \in Order, Sound(v), NEW w \in Order, Sound(w),
           \/ /\ w.quantity = v.quantity
              /\ w.filled_quantity = v.filled_quantity
              /\ w.pending_quantity = v.pending_quantity
              /\ w.canceled_quantity = v.canceled_quantity
           \/ ~is_done(v) /\ w.pending_quantity = 0
    PROVE  \/ StageOf(w) = StageOf(v)
           \/ StageOf(v) \in {"open", "reopened"} /\ StageOf(w) = "closed"
BY NoneAssumption DEF StageOf, Sound, Order, VOrder, is_done

LEMMA FillUpdateRefines ==
    ASSUME IInv, NEW t \in Threads, NEW o \in Ids, FillUpdate(t, o)
    PROVE  Engine!ENext
<1>1. UNCHANGED completed
  BY DEF FillUpdate
<1>2. o \in Placed
  BY FillUpdateOrder
<1>3. CASE UNCHANGED orders
  <2>1. {} \in SUBSET Ids
    OBVIOUS
  <2>2. QED
    BY <1>1, <1>3, <2>1, Matching DEF Reports, OnlyLeft
<1>4. ASSUME NEW w \in Order, Sound(w), orders' = [orders EXCEPT ![o] = w],
             \/ /\ w.quantity = orders[o].quantity
                /\ w.filled_quantity = orders[o].filled_quantity
                /\ w.pending_quantity = orders[o].pending_quantity
                /\ w.canceled_quantity = orders[o].canceled_quantity
             \/ ~is_done(orders[o]) /\ w.pending_quantity = 0
      PROVE  Engine!ENext
  <2> DEFINE S == IF StageOf(w) = StageOf(orders[o]) THEN {} ELSE {o}
  <2>1. \/ StageOf(w) = StageOf(orders[o])
        \/ StageOf(orders[o]) \in {"open", "reopened"} /\ StageOf(w) = "closed"
    BY <1>2, <1>4, PlacedOrder, ClosedOrSame
  <2>2. \A u \in Ids : orders'[u] = IF u = o THEN w ELSE orders[u]
    BY <1>4 DEF IInv, TypeOK
  <2>3. /\ S \in SUBSET Ids
        /\ \A u \in S : StageOf(orders[u]) \in {"open", "reopened"}
        /\ \A u \in Ids : StageOf(orders'[u]) = IF u \in S THEN "closed"
                                                ELSE StageOf(orders[u])
    BY <2>1, <2>2
  <2> HIDE DEF S
  <2>4. QED
    BY <1>1, <2>3, Matching DEF Reports, OnlyLeft
<1>5. QED
  BY <1>3, <1>4, FillUpdateOrder

LEMMA SyncFillRefines ==
    ASSUME IInv, sync_run_fill
    PROVE  Engine!ENext
<1> DEFINE S == {o \in Ids : StageOf(orders'[o]) # StageOf(orders[o])}
<1>1. \A o \in Ids : orders[o] = None => orders'[o] = None
  BY AllUpdated
<1>2. \A o \in Placed :
        /\ orders'[o] \in Order /\ Sound(orders'[o])
        /\ \/ StageOf(orders'[o]) = StageOf(orders[o])
           \/ StageOf(orders[o]) \in {"open", "reopened"} /\ StageOf(orders'[o]) = "closed"
  BY AllUpdated, PlacedOrder, ClosedOrSame
<1>3. /\ S \in SUBSET Ids
      /\ \A o \in S : StageOf(orders[o]) \in {"open", "reopened"}
      /\ \A o \in Ids : StageOf(orders'[o]) = IF o \in S THEN "closed"
                                              ELSE StageOf(orders[o])
  BY <1>1, <1>2 DEF Placed
<1> HIDE DEF S
<1>4. PICK D \in SUBSET fills : completed' = Push(D) /\ \A o \in D : is_done(orders'[o])
  BY DEF sync_run_fill
<1>5. Reports
  BY <1>4, PushAdds DEF Reports, IInv
<1>6. OnlyLeft
  <2> SUFFICES ASSUME NEW o \in Ids, completed'[o] > 0, ~(completed[o] > 0)
               PROVE  StageOf(orders'[o]) \notin {"none", "open"}
    BY DEF OnlyLeft
  <2>1. o \in D
    BY <1>4, PushAdds DEF IInv
  <2>2. o \in Placed /\ is_done(orders'[o])
    BY <1>4, <2>1 DEF IInv, TypeOK, ListsPlaced
  <2>3. QED
    BY <1>2, <2>2, DoneHasLeft, LeftIsStage
<1>7. QED
  BY <1>3, <1>5, <1>6, Matching

LEMMA ReportRefines ==
    ASSUME IInv, NEW S \in SUBSET Ids, UNCHANGED orders,
           \A o \in S : o \in Placed /\ Left(orders[o]),
           completed' = push_completed_unique(S)
    PROVE  Engine!ENext
<1>1. Reports
  BY PushAdds DEF Reports, IInv
<1>2. OnlyLeft
  <2> SUFFICES ASSUME NEW o \in Ids, completed'[o] > 0, ~(completed[o] > 0)
               PROVE  StageOf(orders[o]) \notin {"none", "open"}
    BY DEF OnlyLeft
  <2>1. o \in S
    BY PushAdds DEF IInv
  <2>2. QED
    BY <2>1, PlacedOrder, LeftIsStage
<1>3. {} \in SUBSET Ids
  OBVIOUS
<1>4. QED
  BY <1>1, <1>2, <1>3, Matching

LEMMA StepRefines ==
    ASSUME IInv, NEW t \in Threads, Step(t)
    PROVE  [Engine!ENext]_(Engine!evars)
<1>1. CASE CancelPush(t)
  <2>1. threads[t].order \in Placed /\ Left(orders[threads[t].order])
    BY <1>1 DEF CancelPush, IInv, ThreadSound
  <2>2. {threads[t].order} \in SUBSET Ids
    BY <2>1 DEF Placed
  <2>3. QED
    BY <1>1, <2>1, <2>2, ReportRefines DEF CancelPush
<1>2. CASE FillPrices(t) \/ FillCheck(t)
  <2>1. UNCHANGED <<orders, completed>>
    BY <1>2 DEF FillPrices, FillCheck
  <2>2. QED
    BY <2>1 DEF Engine!evars, Stage
<1>3. ASSUME NEW o \in Ids, FillUpdate(t, o) PROVE Engine!ENext
  BY <1>3, FillUpdateRefines
<1>4. CASE FillReconcile(t)
  <2>1. /\ threads[t].done \in SUBSET Ids
        /\ \A o \in threads[t].done : o \in Placed /\ Left(orders[o])
    BY DEF IInv, TypeOK, ThreadSound
  <2>2. QED
    BY <1>4, <2>1, ReportRefines DEF FillReconcile
<1>5. QED
  BY <1>1, <1>2, <1>3, <1>4 DEF Step

LEMMA NextRefines == IInv /\ [Next]_vars => [Engine!ENext]_(Engine!evars)
<1> SUFFICES ASSUME IInv, [Next]_vars PROVE [Engine!ENext]_(Engine!evars)
  OBVIOUS
<1>1. ASSUME UNCHANGED <<orders, completed>> PROVE [Engine!ENext]_(Engine!evars)
  BY <1>1 DEF Engine!evars, Stage
<1>2. CASE UNCHANGED vars
  BY <1>1, <1>2 DEF vars
<1>3. ASSUME NEW s \in Symbols, NEW p \in Prices, update(s, p)
      PROVE  [Engine!ENext]_(Engine!evars)
  BY <1>1, <1>3 DEF update
<1>4. ASSUME NEW o \in Ids, NEW a \in Placements, order_place(o, a) \/ place(o, a)
      PROVE  [Engine!ENext]_(Engine!evars)
  BY <1>4, PlaceRefines
<1>5. ASSUME NEW o \in Ids, order_modify(o) \/ modify(o)
      PROVE  [Engine!ENext]_(Engine!evars)
  BY <1>5, ModifyRefines
<1>6. ASSUME NEW o \in Ids, order_cancel(o) PROVE [Engine!ENext]_(Engine!evars)
  BY <1>6, CancelRefines DEF order_cancel, SetOrder
<1>7. CASE sync_run_fill
  BY <1>7, SyncFillRefines
<1>8. ASSUME NEW t \in Threads, NEW o \in Ids, cancel(t, o) \/ order_cancel_outcome(t, o)
      PROVE  [Engine!ENext]_(Engine!evars)
  BY <1>8, CancelRefines DEF cancel, order_cancel_outcome, SetOrder
<1>9. ASSUME NEW t \in Threads, run_fill(t) PROVE [Engine!ENext]_(Engine!evars)
  BY <1>1, <1>9 DEF run_fill
<1>10. ASSUME NEW t \in Threads, Step(t) PROVE [Engine!ENext]_(Engine!evars)
  BY <1>10, StepRefines
<1>11. QED
  BY <1>2, <1>3, <1>4, <1>5, <1>6, <1>7, <1>8, <1>9, <1>10 DEF Next

LEMMA InitRefines == Init => Engine!EInit
BY DEF Init, Engine!EInit, Stage, StageOf

(* Both brokers implement the matching engine, for any orders, prices and    *)
(* threads: however the critical sections of cancels and run_fills interleave *)
(* with placements and modifies, closing is final, and what is reported has   *)
(* left the open stage.                                                       *)
THEOREM RefinesSafe == Spec => Refines
BY InitRefines, NextRefines, Always, PTL DEF Spec, Refines, Engine!ESpec
=============================================================================
