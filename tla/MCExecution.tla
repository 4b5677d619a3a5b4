----------------------------- MODULE MCExecution -----------------------------
(* Small instances of Execution: two orders that may claim the same          *)
(* execution, a row of another ledger, and evidence that repeats, upgrades   *)
(* and contradicts itself.                                                   *)
EXTENDS Execution

CONSTANTS c1, c2, c3, f1, f2, v1, v2

E(id, qty, side, venue, fee, ts) ==
    [id |-> id, qty |-> qty, price |-> 1, ts |-> ts, venue |-> venue, fee |-> fee,
     side |-> side, claimed |-> None]
Claiming(e, c) == [e EXCEPT !.claimed = c]

Input(kind, c, type, arg, page) ==
    [kind |-> kind, cid |-> c, event |-> [type |-> type, arg |-> arg], page |-> page]
Order(c, type, arg) == Input("order", c, type, arg, <<>>)
FillFor(c, e) == Input("batch", c, "Fill", None, <<e>>)
NoRow(e) == Input("norow", None, "Fill", None, <<e>>)

AllBuy == [c \in Cids |-> "BuyYes"]

Resp0(v, n, r) == [venue |-> v, fill_count |-> n, remaining_count |-> r, avg |-> None,
                   fee |-> None, boundary |-> None]
Rep(s, v, n, r) == [status |-> s, venue |-> v, filled |-> n, remaining |-> r,
                    others |-> 0, mine |-> TRUE]

Plain1 == E(f1, 1, "BuyYes", v1, None, 0)
Bare1 == E(f1, 1, "BuyYes", None, None, 1)
Paid1 == E(f1, 1, "BuyYes", None, 1, 1)
Other1 == E(f1, 1, "BuyYes", v2, 2, 0)
Wrong1 == E(f1, 1, "SellYes", v1, None, 0)
Big2 == E(f2, 2, "BuyYes", v1, 1, 0)
Plain2 == E(f2, 1, "BuyYes", v1, 1, 0)
Zero2 == E(f2, 0, "BuyYes", v1, None, 0)

(* Recovery: one transaction at a time, with crashes *)
RecoveryInputs ==
    {FillFor(c, e) : c \in {c1, c2}, e \in {Plain1, Bare1, Plain2, Wrong1}}
    \cup {FillFor(c3, Bare1), NoRow(Claiming(Bare1, c1)), NoRow(Paid1), NoRow(Other1)}
    \cup {Order(c1, "SubmitResponse", Resp0(v1, n, 2 - n)) : n \in 0..1}
    \cup {Order(c1, "CancelRequested", None), Order(c1, "CancelOutcome", "Canceled"),
          Order(c1, "OwnAction", None), Order(c2, "SubmitTimeout", None)}
    \cup {Input("batch", c1, "ImmediateFillBackfillResult", None, page) :
            page \in {<<Bare1, Paid1>>, <<Plain1, Other1>>, <<Plain1, Plain2>>}}
    \cup {Input("batch", c1, "ReconcileResult", Rep("Canceled", v1, n, 0), page) :
            n \in 0..1, page \in {<<>>, <<Plain1>>}}
    \cup {Input("batch", c2, "UnknownBackfillResult", Rep("Open", v1, 1, 1), <<Plain1, Zero2>>)}

(* Race: two workers prepare against the same memory *)
RaceInputs ==
    {FillFor(c, e) : c \in {c1, c2}, e \in {Plain1, Paid1, Wrong1}}
    \cup {FillFor(c1, Big2), FillFor(c3, Paid1), NoRow(Bare1), NoRow(Other1)}
    \cup {Order(c1, "SubmitResponse", Resp0(v1, 1, 1)), Order(c1, "SubmitTimeout", None),
          Order(c1, "CancelRequested", None), Order(c1, "CloseSubmission", None)}
    \cup {Input("batch", c1, "UnknownBackfillResult", Rep("Canceled", v1, 1, 0), page) :
            page \in {<<>>, <<Plain1, Paid1>>}}
    \cup {Input("batch", c3, "ReconcileResult", Rep("Open", v1, 1, 1), <<Bare1, Paid1>>)}
=============================================================================
