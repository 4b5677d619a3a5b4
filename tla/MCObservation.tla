---------------------------- MODULE MCObservation ----------------------------
(* Small instances of Observation: an order and its amend successor on one  *)
(* wire, two executions of one contract each.                               *)
EXTENDS Observation

CONSTANTS c1, c2, v1

AllBuy == [c \in Cids |-> "BuyYes"]
=============================================================================
