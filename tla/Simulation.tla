------------------------------ MODULE Simulation ------------------------------
(* The simulated order of simulation.rs (VOrder) and the rules by which a    *)
(* price fills it (OrderFill).  Quantities and prices, f64 in the code, are   *)
(* whole numbers here; average_price, timestamps and messages are left out    *)
(* (nothing in the code decides on them), except that "the message starts     *)
(* with REJ" is the flag `rejected`.                                          *)
EXTENDS Integers

CONSTANT None           \* an absent price or trigger

Status == {"Complete", "Rejected", "Canceled", "PartialFill", "Open", "Pending"}

Side == {"Buy", "Sell"}

OrderType == {"Market", "Limit", "Stop"}

(* The fields of a VOrder that some decision reads.                          *)
VOrder(Symbols, Quantities, Prices) ==
    [symbol : Symbols, side : Side, order_type : OrderType,
     price : Prices \cup {None}, trigger_price : Prices \cup {None},
     quantity : Quantities, filled_quantity : Int, pending_quantity : Int,
     canceled_quantity : Int, rejected : BOOLEAN]

MinOf(a, b) == IF a < b THEN a ELSE b

(* Of cancelled, filled and pending, the first that is positive decides the  *)
(* other two; an order with none of them is all pending.                      *)
normalise_quantities(q, f, p, c) ==
    IF c > 0 THEN [f |-> q - MinOf(c, q), p |-> 0, c |-> MinOf(c, q)]
    ELSE IF f > 0 THEN [f |-> MinOf(f, q), p |-> q - MinOf(f, q), c |-> c]
    ELSE IF p > 0 THEN [f |-> q - MinOf(p, q), p |-> MinOf(p, q), c |-> c]
    ELSE [f |-> f, p |-> q - p, c |-> c]

make_right_quantity(o) ==
    LET n == normalise_quantities(o.quantity, o.filled_quantity,
                                  o.pending_quantity, o.canceled_quantity)
    IN  [o EXCEPT !.filled_quantity = n.f, !.pending_quantity = n.p,
                  !.canceled_quantity = n.c]

(* Every constructor of a VOrder, the clone included, ends here.             *)
from_init(init) == make_right_quantity(init)

is_done(o) ==
    \/ o.quantity = o.filled_quantity
    \/ o.quantity = o.canceled_quantity
    \/ o.pending_quantity <= 0

status(o) ==
    CASE o.quantity = o.filled_quantity -> "Complete"
      [] o.quantity # o.filled_quantity /\ o.quantity = o.canceled_quantity ->
            IF o.rejected THEN "Rejected" ELSE "Canceled"
      [] OTHER ->
            IF o.canceled_quantity > 0
            THEN IF o.canceled_quantity + o.filled_quantity = o.quantity
                 THEN "PartialFill" ELSE "Pending"
            ELSE IF o.pending_quantity > 0 /\ o.filled_quantity > 0
                 THEN "Pending" ELSE "Open"

(* The orders a forced status can leave behind: a partial fill and a pending *)
(* one draw the filled part at random from 1 .. q-1 (1 when q is 1).          *)
modify_order_by_status(o, st) ==
    LET drawn == IF o.quantity > 1 THEN 1 .. (o.quantity - 1) ELSE {1}
        split(f, p, c) == [o EXCEPT !.filled_quantity = f,
                                    !.pending_quantity = p,
                                    !.canceled_quantity = c]
    IN  CASE st \in {"Canceled", "Rejected"} -> {split(0, 0, o.quantity)}
          [] st = "Open" -> {split(0, o.pending_quantity, 0)}
          [] st = "PartialFill" -> {split(a, 0, o.quantity - a) : a \in drawn}
          [] st = "Pending" -> {split(a, o.quantity - a, 0) : a \in drawn}
          [] st = "Complete" -> {split(o.quantity, 0, 0)}

(* An order that is done, or too young, keeps its quantities.                *)
modify_by_status(o, st, past_delay) ==
    IF is_done(o) \/ ~past_delay THEN {o} ELSE modify_order_by_status(o, st)

-----------------------------------------------------------------------------
(* Prices.  A limit order wants a better price than its own, a stop order a  *)
(* worse one than its trigger; equality triggers neither.                     *)

Better(side, p, own) == IF side = "Buy" THEN p < own ELSE p > own

fill_all(o) == make_right_quantity([o EXCEPT !.filled_quantity = o.quantity])

(* What placing does: a limit or stop order already through the market is    *)
(* filled at once; a market order waits for the first update.                 *)
as_market(o, last_price) ==
    LET own == IF o.order_type = "Stop" /\ o.trigger_price # None
               THEN o.trigger_price ELSE o.price
        hit == IF o.order_type = "Limit" THEN Better(o.side, last_price, own)
               ELSE Better(o.side, own, last_price)
    IN  IF o.order_type = "Market" \/ own = None THEN o
        ELSE IF hit THEN fill_all(o)
        ELSE make_right_quantity(o)

(* What every later price does to an order that is not done.                 *)
update_with_price(o, last_price) ==
    LET s == IF o.order_type = "Stop" /\ o.trigger_price = None
             THEN [o EXCEPT !.trigger_price = o.price] ELSE o
    IN  IF is_done(o) THEN o
        ELSE CASE o.order_type = "Market" -> fill_all([o EXCEPT !.price = last_price])
               [] o.order_type = "Limit" ->
                    IF o.price # None /\ Better(o.side, last_price, o.price)
                    THEN fill_all(o) ELSE o
               [] o.order_type = "Stop" ->
                    IF s.trigger_price # None /\ Better(s.side, s.trigger_price, last_price)
                    THEN fill_all(s) ELSE s
=============================================================================
