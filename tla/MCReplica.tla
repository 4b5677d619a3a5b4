------------------------------ MODULE MCReplica ------------------------------
(* A small instance of Replica with one symbol and limit orders to buy, which *)
(* a price of 1 fills and a price of 2 does not.  A modify turns them into    *)
(* market or stop orders; before the symbol is listed they are rejected.      *)
EXTENDS Replica

CONSTANTS t1, t2, yes

Wanted(side, ty, p) ==
    [symbol |-> yes, side |-> side, order_type |-> ty, price |-> p,
     trigger_price |-> None, quantity |-> 2, filled_quantity |-> 0,
     pending_quantity |-> 0, canceled_quantity |-> 0, rejected |-> FALSE]

Orders == {Wanted("Buy", "Limit", 2)}
=============================================================================
