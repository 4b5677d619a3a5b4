----------------------------- MODULE MCLifecycle -----------------------------
(* Small instances of Lifecycle.  Each family of inputs opens one dimension *)
(* (identity, response domain, report arithmetic) and keeps the others small *)
EXTENDS Lifecycle

CONSTANTS f1, f2, v1, v2

F(id, qty, price, fee, venue, ts) ==
    [id |-> id, qty |-> qty, price |-> price, fee |-> fee, venue |-> venue, ts |-> ts]
Resp0(v, n, r) == [venue |-> v, fill_count |-> n, remaining_count |-> r, avg |-> None,
                   fee |-> None, boundary |-> None]
Rep(s, v, n, r) == [status |-> s, venue |-> v, filled |-> n, remaining |-> r,
                    others |-> 0, mine |-> TRUE]

(* Identity: two venue ids, fills with and without provenance *)
IdFills == {F(id, 1, 1, None, v, 0) : id \in FillIds, v \in Opt(Venues)}
           \cup {F(f1, 2, 1, None, v1, 0)}
IdPages == {<<>>} \cup {<<f>> : f \in IdFills}
           \cup {<<F(f1, 1, 1, None, v1, 0), F(f2, 1, 1, None, v, 0)>> : v \in Opt(Venues)}
IdResponses == {Resp0(v, n, r) : v \in Venues, n \in {0, 1}, r \in {0, 1, 2}}
IdReports == {Rep("Canceled", v, n, 0) : v \in Opt(Venues), n \in 0..2}
             \cup {Rep("Open", v, n, 2 - n) : v \in Opt(Venues), n \in 0..1}
             \cup {Rep("Filled", v, 2, 0) : v \in Opt(Venues)}
IdResting == {<<v, n>> : v \in Venues, n \in 1..2}
IdTerminal == {<<v, n, e>> : v \in Venues, n \in 0..2, e \in BOOLEAN}

(* Arithmetic: one venue id, every report, response and claim quantity *)
QtyFills == {F(id, q, 1, None, v1, 0) : id \in FillIds, q \in 1..2}
QtyPages == {<<>>} \cup {<<F(f1, q, 1, None, v1, 0)>> : q \in 1..2}
            \cup {<<F(f1, 1, 1, None, v1, 0), F(f2, q, 1, None, v1, 0)>> : q \in 1..2}
QtyResponses == {Resp0(v1, n, r) : n \in 0..(Qty + 1), r \in 0..Qty}
QtyReports == {Rep(s, v1, n, r) : s \in Status, n \in 0..(Qty + 1), r \in 0..Qty}
              \cup {[Rep(s, v1, n, r) EXCEPT !.others = 1]
                    : s \in Status, n \in 0..(Qty + 1), r \in 0..1}
              \cup {[Rep("Open", v1, 0, Qty) EXCEPT !.mine = FALSE]}
QtyResting == {<<v1, n>> : n \in 1..Qty}
QtyTerminal == {<<v1, n, e>> : n \in 0..Qty, e \in BOOLEAN}

(* Response domain: prices, fees that arrive late, timestamps on both sides of *)
(* the boundary, reliable and unreliable boundaries *)
DomFills == {F(id, 1, pt[1], fee, v1, pt[2])
             : id \in FillIds, fee \in {None, 1}, pt \in {<<1, 0>>, <<3, 0>>, <<1, 1>>}}
            \cup {F(f2, 1, 1, 2, v1, 0)}
DomPages == {<<>>} \cup {<<F(f1, 1, p, 1, v1, 0), F(f2, 1, 1, None, v1, 0)>> : p \in {1, 3}}
DomResponses == {[Resp0(v1, n, 2 - n) EXCEPT !.avg = avg, !.fee = fee,
                                             !.boundary = [kind |-> "TsNs", at |-> 0]]
                 : n \in 1..2, avg \in {None, 1}, fee \in {None, 1}}
                \cup {[Resp0(v1, 1, 1) EXCEPT !.avg = 1, !.fee = 1,
                                              !.boundary = [kind |-> "Seq", at |-> 0]],
                      Resp0(v1, 1, 1), Resp0(v1, 0, 2)}
DomReports == {Rep(s, v1, n, 2 - n) : s \in {"Open", "Canceled", "Filled"}, n \in 0..2}
DomTerminal == {<<v1, 1, FALSE>>, <<v1, 2, TRUE>>}
=============================================================================
