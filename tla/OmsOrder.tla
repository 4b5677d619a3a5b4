------------------------------- MODULE OmsOrder -------------------------------
(* The order object of order.rs, with the OrderLock of models.rs that it      *)
(* owns, as operators on a record.  Prices, tags and timestamps other than    *)
(* the one that starts the expiry are left out; so are pending_quantity,      *)
(* which every constructor and update recomputes and nothing reads, and       *)
(* cancelled_quantity, which stays 0: Order::update has no such attribute.    *)
EXTENDS Simulation

CONSTANTS ExpiresIn,            \* expires_in of every order
          MaxModifications,     \* max_modifications of every order
          LockCap               \* max_order_*_lock_time

OrderStatus == {"COMPLETE", "CANCELED", "REJECTED", "OPEN"}

Epoch == -1             \* a lock that was never engaged

unlocked_with_clock(o) ==
    [o EXCEPT !.modification_lock_till = Epoch, !.cancellation_lock_till = Epoch]

(* A new order: identified, stamped, unlocked, never modified.               *)
from_init_with_clock(init, now) ==
    [quantity |-> init.quantity, filled_quantity |-> init.filled_quantity,
     status |-> init.status, order_id |-> init.order_id,
     order_type |-> init.order_type, timestamp |-> init.timestamp,
     convert_to_market_after_expiry |-> init.convert_to_market_after_expiry,
     cancel_after_expiry |-> init.cancel_after_expiry, num_modifications |-> 0,
     modification_lock_till |-> Epoch, cancellation_lock_till |-> Epoch]

(* What is written to the database: neither the locks nor the number of      *)
(* modifications.                                                             *)
to_row(o) ==
    [quantity |-> o.quantity, filled_quantity |-> o.filled_quantity,
     status |-> o.status, order_id |-> o.order_id, order_type |-> o.order_type,
     timestamp |-> o.timestamp,
     convert_to_market_after_expiry |-> o.convert_to_market_after_expiry,
     cancel_after_expiry |-> o.cancel_after_expiry]

(* Read back: a row is an init, and goes the way of every init.              *)
from_row(row, now) == from_init_with_clock(row, now)

(* Overwriting the clock replaces the lock by a fresh one.                   *)
set_clock(o) == unlocked_with_clock(o)

is_complete(o) == o.quantity = o.filled_quantity \/ o.status = "COMPLETE"

is_pending(o) ==
    /\ o.status \notin {"COMPLETE", "CANCELED", "REJECTED"}
    /\ o.filled_quantity < o.quantity

order_is_done(o) == is_complete(o) \/ o.status \in {"CANCELED", "REJECTED"}

has_expired(o, now) == now - o.timestamp >= ExpiresIn

can_modify(o, now) == now > o.modification_lock_till

can_cancel(o, now) == now > o.cancellation_lock_till

(* Code 1 locks modify, code 2 locks cancel, for at most the cap.            *)
add_lock(o, code, seconds, now) ==
    LET till == now + MinOf(seconds, LockCap)
    IN  IF code = 1 THEN [o EXCEPT !.modification_lock_till = till]
        ELSE [o EXCEPT !.cancellation_lock_till = till]

-----------------------------------------------------------------------------
(* Updates from the broker.                                                   *)

(* A plausible mistake: the reported fill is taken as it is.                 *)
TakeReported(o, n) == n

(* i64::clamp between the fills so far and the quantity, then kept only if   *)
(* it grew.                                                                   *)
set_from_value(o, n) ==
    IF n < o.filled_quantity THEN o.filled_quantity ELSE MinOf(n, o.quantity)

(* i64::clamp panics when its lower bound is above its upper one.            *)
Panics(o) == ~order_is_done(o) /\ o.filled_quantity > o.quantity

(* The status comes before the filled quantity in the list of attributes: a  *)
(* panic leaves it behind.                                                    *)
order_update(o, data) ==
    IF order_is_done(o) THEN o
    ELSE IF Panics(o) THEN [o EXCEPT !.status = data.status]
    ELSE [o EXCEPT !.status = data.status,
                   !.filled_quantity = set_from_value(o, data.filled_quantity)]

(* The quantity a modify names is written before anything is checked but the *)
(* lock.                                                                      *)
set_local_field(o, q) == [o EXCEPT !.quantity = q]

(* Conversion of an expired order, before the modify that tells the broker.  *)
to_market(o) == [o EXCEPT !.order_type = "MARKET"]

(* Whether execute places the order, and whether modify reaches the broker.  *)

(* A plausible mistake: an order that already has an id is placed again.     *)
NotComplete(o) == ~is_complete(o)

Executable(o) == ~is_complete(o) /\ o.order_id = None

Sendable(o) == o.num_modifications < MaxModifications /\ o.order_id # None
=============================================================================
