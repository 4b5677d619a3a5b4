---------------------------- MODULE MatchingEngine ----------------------------
(* What a matching engine promises about each order, whatever its locks and  *)
(* collections: an order is open until a price closes it or a cancel stops    *)
(* it; closing is final; a canceled order trades again only after a modify    *)
(* changed its quantity; and the engine reports the orders that have left     *)
(* the open stage, never one that has not, and takes no report back.          *)
CONSTANT Ids

VARIABLES stage, reported

evars == <<stage, reported>>

Stages == {"none", "open", "closed", "canceled", "reopened"}

Live == {o \in Ids : stage[o] \in {"open", "reopened"}}

EInit == stage = [o \in Ids |-> "none"] /\ reported = {}

(* Placed and waiting, placed and filled at once, or rejected: reported.     *)
Place(o) ==
    /\ stage[o] = "none"
    /\ \/ /\ \E s \in {"open", "closed"} : stage' = [stage EXCEPT ![o] = s]
          /\ UNCHANGED reported
       \/ /\ stage' = [stage EXCEPT ![o] = "closed"]
          /\ reported' = reported \cup {o}

(* A cancel stops a live order; the report may come with it or later.        *)
Cancel(o) ==
    /\ o \in Live
    /\ stage' = [stage EXCEPT ![o] = "canceled"]
    /\ reported' \in {reported, reported \cup {o}}

(* A modified quantity reopens a canceled order, or stops a reopened one     *)
(* again by asking for no more than was canceled.                             *)
Modify(o) ==
    /\ \/ stage[o] = "canceled" /\ stage' = [stage EXCEPT ![o] = "reopened"]
       \/ stage[o] = "reopened" /\ stage' = [stage EXCEPT ![o] = "canceled"]
    /\ UNCHANGED reported

(* A price closes some live orders, and orders that have left the open stage *)
(* are reported.                                                              *)
Match ==
    \E S \in SUBSET Live :
        /\ stage' = [o \in Ids |-> IF o \in S THEN "closed" ELSE stage[o]]
        /\ reported \subseteq reported'
        /\ \A o \in reported' \ reported : o \in Ids /\ stage'[o] \notin {"none", "open"}

ENext == (\E o \in Ids : Place(o) \/ Cancel(o) \/ Modify(o)) \/ Match

ESpec == EInit /\ [][ENext]_evars
=============================================================================
