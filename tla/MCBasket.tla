------------------------------- MODULE MCBasket -------------------------------
(* Two orders: the first is converted after its expiry, the other canceled.  *)
EXTENDS Basket

MCQuantity == [s \in Slots |-> IF s = 1 THEN 2 ELSE 1]

MCNewQuantities == [s \in Slots |-> IF s = 1 THEN {1} ELSE {}]

MCLocks == {<<1, 1>>, <<2, 2>>}
=============================================================================
