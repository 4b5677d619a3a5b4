------------------------------ MODULE OrderCtx ------------------------------
(***************************************************************************)
(* The per-order accounting context of lifecycle.rs (OrderCtx) and the     *)
(* operations every event handler is built from: venue identity, the fill  *)
(* obligation, the generation-scoped authority latch, the response domain, *)
(* and the booking of one fill by its fill_id.                             *)
(*                                                                         *)
(* A context is a record, and an operation is a function from the context  *)
(* before to the context after.  The identity fields of the Rust struct    *)
(* (client id, market, strategy, side, limit price) never change and never *)
(* steer a transition, so they are left out; the order quantity is the     *)
(* constant Qty.  Option<T> is T \cup {None}.                              *)
(***************************************************************************)
EXTENDS Integers, FiniteSets, Folds

CONSTANTS
    None,       \* Option::None
    Qty,        \* ctx.qty, the order quantity
    U64Max,     \* u64::MAX: the epoch saturates there, a fee sum overflows there
    FillIds,    \* the fill_ids the venue may use for this order
    Venues      \* the venue order ids that may be reported

ASSUME QtyAssumption == Qty \in Nat \ {0} /\ U64Max \in Nat /\ Qty <= U64Max
\* HaltReason: the ones this state machine produces itself.
HaltReason == {"ImmediateFillCrossCheckMismatch", "CrossCheckMismatch",
               "UnprovenIdempotentResubmit", "PostTerminalFill", "OverFill",
               "ResponseZeroButLocalFills", "AmbiguousMatch", "ConflictingFillPayload",
               "FeeOverflow", "FillOwnershipMismatch", "OwnershipConflict",
               "ObligationExceedsOrderQty", "Operator"}

ASSUME NoneAssumption == None \notin Int \cup HaltReason \cup Venues

Opt(S) == S \cup {None}
OrZero(x) == IF x = None THEN 0 ELSE x

\* FillPayload: what is remembered of a fill under its fill_id.
Payload == [qty : Nat, price : Nat, fee : Opt(0..U64Max), venue : Opt(Venues),
            ts : Int]

ASSUME PayloadAssumption == None \notin Payload

\* SnapshotBoundary: TsNs(t) orders fills in time; Seq is not wired to fills.
Boundary == [kind : {"TsNs", "Seq"}, at : Int]

ResponseSnapshot == [fill_count : Opt(Nat), remaining_count : Opt(Nat),
                     avg : Opt(Nat), fee : Opt(Nat), boundary : Opt(Boundary)]

IsDomain(d) == d = [qty |-> d.qty, notional |-> d.notional, fee |-> d.fee]

\* Every field; the values of the domain sums are left to DomainByIdentity
\* (Lifecycle), which pins them down.
CtxTyped(c) ==
    /\ c \in
          [applied_fills : [FillIds -> Opt(Payload)],
           attributed_fill_qty : Nat,
           fill_obligation : Nat,
           venue_order_id : Opt(Venues),
           authority_complete : BOOLEAN,
           authority_epoch : 0..U64Max,
           authority_latched_epoch : 0..U64Max,
           last_venue_remaining_qty : Opt(Nat),
           response : ResponseSnapshot,
           attributed_notional : Nat,
           attributed_fee : 0..U64Max,
           domain : {c.domain}]
    /\ IsDomain(c.domain)

NoResponse == [fill_count |-> None, remaining_count |-> None, avg |-> None,
               fee |-> None, boundary |-> None]
EmptyDomain == [qty |-> 0, notional |-> 0, fee |-> 0]

\* OrderCtx::new
new_ctx ==
    [applied_fills |-> [f \in FillIds |-> None],
     attributed_fill_qty |-> 0,
     fill_obligation |-> 0,
     venue_order_id |-> None,
     authority_complete |-> FALSE,
     authority_epoch |-> 0,
     authority_latched_epoch |-> 0,
     last_venue_remaining_qty |-> None,
     response |-> NoResponse,
     attributed_notional |-> 0,
     attributed_fee |-> 0,
     domain |-> EmptyDomain]

AppliedIds(c) == {f \in FillIds : c.applied_fills[f] # None}

-----------------------------------------------------------------------------
(* Authority latch (F1/G1) and fill obligation (R2)                        *)

\* Mutant: the epoch wraps past u64::MAX instead of saturating.
UncheckedAdd(a, b) == a + b

SaturatingAdd(a, b) == IF a + b > U64Max THEN U64Max ELSE a + b

authority_is_fresh(c) ==
    c.authority_complete /\ c.authority_latched_epoch = c.authority_epoch

latch_authority_complete(c) ==
    [c EXCEPT !.authority_complete = TRUE,
              !.authority_latched_epoch = c.authority_epoch]

invalidate_authority(c) ==
    [c EXCEPT !.authority_epoch = SaturatingAdd(c.authority_epoch, 1),
              !.authority_complete = FALSE]

note_venue_remaining(c, r) == [c EXCEPT !.last_venue_remaining_qty = r]

\* The quantity arithmetic is checked: None stands for an underflow.
remaining_qty_checked(c) ==
    IF c.attributed_fill_qty > Qty THEN None ELSE Qty - c.attributed_fill_qty
remaining_qty(c) == OrZero(remaining_qty_checked(c))

\* Mutant: off by one, evidence of one contract too many passes.
RaiseFailsLate(evidence) == evidence > Qty + 1

\* raise_fill_obligation fails exactly on evidence above the order quantity.
RaiseFails(evidence) == evidence > Qty

\* Mutant: the last evidence wins instead of the highest.
ReplaceObligation(c, evidence) == [c EXCEPT !.fill_obligation = evidence]

raise_fill_obligation(c, evidence) ==
    LET raised == [c EXCEPT !.fill_obligation = evidence] IN
    IF evidence <= c.fill_obligation THEN c
    ELSE IF c.attributed_fill_qty < evidence THEN invalidate_authority(raised)
    ELSE raised

\* The journal fold raises the mark without touching the authority.
restore_fill_obligation(c, evidence) ==
    IF evidence > c.fill_obligation THEN [c EXCEPT !.fill_obligation = evidence]
    ELSE c

-----------------------------------------------------------------------------
(* Venue identity (R3)                                                     *)

\* Mutant: a first bind does not look at the fills already applied.
BindIgnoringFills(c, v) ==
    IF c.venue_order_id \in {None, v} THEN None ELSE "OwnershipConflict"

\* The HaltReason with which bind_venue_id fails, None when it succeeds.
BindError(c, v) ==
    IF c.venue_order_id = None
    THEN IF \E f \in AppliedIds(c) : c.applied_fills[f].venue \notin {None, v}
         THEN "FillOwnershipMismatch" ELSE None
    ELSE IF c.venue_order_id = v THEN None ELSE "OwnershipConflict"

Bind(c, v) == [c EXCEPT !.venue_order_id = v]

-----------------------------------------------------------------------------
(* Response snapshot domain (F6)                                           *)

has_reliable_boundary(c) ==
    c.response.boundary # None /\ c.response.boundary.kind = "TsNs"

fill_in_response_domain(c, ts) ==
    has_reliable_boundary(c) /\ ts <= c.response.boundary.at

response_domain_overfill(c) ==
    /\ c.response.fill_count # None
    /\ has_reliable_boundary(c)
    /\ c.domain.qty > c.response.fill_count

accumulate_response_domain(c, p) ==
    IF c.response.fill_count # None /\ fill_in_response_domain(c, p.ts)
    THEN [c EXCEPT !.domain =
            [qty |-> @.qty + p.qty, notional |-> @.notional + p.qty * p.price,
             fee |-> SaturatingAdd(@.fee, OrZero(p.fee))]]
    ELSE c

\* The applied fills of the response snapshot, by identity.
InDomainIds(c) ==
    {f \in AppliedIds(c) : fill_in_response_domain(c, c.applied_fills[f].ts)}

\* The sum of the values of a function.
SumOver(val) ==
    MapThenFoldSet(+, 0, LAMBDA x : val[x], LAMBDA T : CHOOSE x \in T : TRUE, DOMAIN val)

\* The sums over some of the applied fills.
TotalsOver(c, S) ==
    LET fill(f) == c.applied_fills[f]
    IN [qty |-> SumOver([f \in S |-> fill(f).qty]),
        notional |-> SumOver([f \in S |-> fill(f).qty * fill(f).price]),
        fee |-> SumOver([f \in S |-> OrZero(fill(f).fee)])]

DomainOf(c) == TotalsOver(c, InDomainIds(c))

\* Mutant: fills that came before the response are not counted into it.
ForgetEarlierFills(c) == c

\* Only reached once the response snapshot is on the context.
recompute_response_domain(c) == [c EXCEPT !.domain = DomainOf(c)]

Abs(n) == IF n < 0 THEN -n ELSE n

\* One cent per contract of rounding is tolerated.
notional_avg_mismatch(notional, avg, fill_count) ==
    fill_count # 0 /\ Abs(notional - avg * fill_count) > fill_count

fee_cross_check_mismatch(response_fee, fee) ==
    response_fee # None /\ response_fee # fee

-----------------------------------------------------------------------------
(* Booking one fill: account_fill_core                                     *)

PayloadOf(f) == [qty |-> f.qty, price |-> f.price, fee |-> f.fee,
                 venue |-> f.venue, ts |-> f.ts]

\* A fill_id seen for the first time.
FirstSightError(c, f) ==
    IF c.venue_order_id # None /\ f.venue # c.venue_order_id
    THEN "FillOwnershipMismatch"
    ELSE IF c.attributed_fill_qty + f.qty > Qty THEN "OverFill"
    ELSE IF c.attributed_fee + OrZero(f.fee) > U64Max THEN "FeeOverflow"
    ELSE None

\* A fill_id seen again: its economics are fixed, its venue and its fee may be
\* supplied late but never withdrawn or changed.
RedeliveryError(c, f) ==
    LET prev == c.applied_fills[f.id] IN
    IF prev = PayloadOf(f) THEN None
    ELSE IF prev.qty # f.qty \/ prev.price # f.price THEN "ConflictingFillPayload"
    ELSE IF prev.venue = None /\ f.venue # None
            /\ c.venue_order_id \notin {None, f.venue}
    THEN "FillOwnershipMismatch"
    ELSE IF prev.venue # None /\ f.venue # prev.venue THEN "ConflictingFillPayload"
    ELSE IF prev.fee = None /\ f.fee # None /\ c.attributed_fee + f.fee > U64Max
    THEN "FeeOverflow"
    ELSE IF prev.fee # None /\ f.fee # prev.fee THEN "ConflictingFillPayload"
    ELSE None

FillError(c, f) ==
    IF c.applied_fills[f.id] = None THEN FirstSightError(c, f)
    ELSE RedeliveryError(c, f)

VenueArrives(c, f) == c.applied_fills[f.id].venue = None /\ f.venue # None
FeeArrives(c, f) == c.applied_fills[f.id].fee = None /\ f.fee # None

\* The quantity, notional and fee of a new fill enter the totals.
BookFill(c, f) ==
    [c EXCEPT !.applied_fills[f.id] = PayloadOf(f),
              !.attributed_fill_qty = @ + f.qty,
              !.attributed_notional = @ + f.qty * f.price,
              !.attributed_fee = @ + OrZero(f.fee)]

\* Late venue and fee of a known fill; the first-seen timestamp is kept.
EnrichFill(c, f) ==
    LET prev == c.applied_fills[f.id]
        fee == IF FeeArrives(c, f) THEN f.fee ELSE 0
        inDomain == /\ FeeArrives(c, f)
                    /\ c.response.fill_count # None
                    /\ fill_in_response_domain(c, prev.ts)
    IN [c EXCEPT !.applied_fills[f.id] =
                     [prev EXCEPT !.venue = IF VenueArrives(c, f) THEN f.venue ELSE @,
                                  !.fee = IF FeeArrives(c, f) THEN f.fee ELSE @],
                 !.attributed_fee = @ + fee,
                 !.domain.fee = IF inDomain THEN SaturatingAdd(@, fee) ELSE @]
=============================================================================
