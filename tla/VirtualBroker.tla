---------------------------- MODULE VirtualBroker ----------------------------
(* The bookkeeping of the virtual broker, as operators on its order table, a *)
(* sequence whose positions are the order ids.  virtual_broker.rs and         *)
(* async_virtual_broker.rs hold the same code; every method is one critical   *)
(* section.  Each first rolls the dice: a failed roll answers "Unexpected     *)
(* error" and changes nothing (the caller of these operators decides).        *)
(*                                                                            *)
(* An entry is a VOrder with the time it was placed (`at`) and, to state the  *)
(* properties, the order object it was placed for (`slot`), the most it was   *)
(* ever filled (`peak`) and whether its quantity was ever modified.           *)
EXTENDS OmsOrder, Sequences

(* The order a placement makes.  The side and the symbol are always given.   *)
order_place(o, slot, now) ==
    from_init([symbol |-> "sym", side |-> "Buy",
               order_type |-> IF o.order_type = "MARKET" THEN "Market" ELSE "Limit",
               price |-> None, trigger_price |-> None, quantity |-> o.quantity,
               filled_quantity |-> 0, pending_quantity |-> 0, canceled_quantity |-> 0,
               rejected |-> FALSE, slot |-> slot, at |-> now, peak |-> 0,
               modified |-> FALSE])

(* The quantity is overwritten, nothing else is recomputed; the order type   *)
(* is not among the fields a modify looks at.                                 *)
order_modify(v, q) == [v EXCEPT !.quantity = q, !.modified = @ \/ q # v.quantity]

(* Only a completely filled order refuses the cancel.                        *)
order_cancel(v) ==
    IF status(v) = "Complete" THEN v
    ELSE [v EXCEPT !.canceled_quantity = v.quantity - v.filled_quantity,
                   !.pending_quantity = 0]

(* The asynchronous broker's copies of the three, behind its one lock.       *)
place(o, slot, now) == order_place(o, slot, now)

modify(v, q) == order_modify(v, q)

cancel(v) == order_cancel(v)

(* The snapshot every reply and accessor hands out: rebuilt from its own     *)
(* fields, so that the quantities are normalised once more.                   *)
cloned_clone_weak(v) == from_init(v)

(* A driver of the simulation moves an order that is old enough.             *)
get(v, st, now) ==
    {[w EXCEPT !.peak = IF @ < w.filled_quantity THEN w.filled_quantity ELSE @] :
        w \in modify_by_status(v, st, now > v.at)}

(* What a consumer of a snapshot <<order id, order>> tells the order object. *)
Report(snap) ==
    [order_id |-> snap[1], filled_quantity |-> snap[2].filled_quantity,
     status |-> CASE status(snap[2]) = "Complete" -> "COMPLETE"
                  [] status(snap[2]) = "Canceled" -> "CANCELED"
                  [] status(snap[2]) = "Rejected" -> "REJECTED"
                  [] OTHER -> "OPEN"]
=============================================================================
