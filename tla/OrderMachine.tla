---------------------------- MODULE OrderMachine ----------------------------
(***************************************************************************)
(* The event handlers of lifecycle.rs: what apply_event does with one      *)
(* order, its state and its context.                                       *)
(*                                                                         *)
(* A handler threads a work record through the operations of the Rust code *)
(* in their order: the context, the records appended to the journal, what  *)
(* AccountFill and AccountFeeCorrection book, the requests made to the     *)
(* shell and the reservation effect.  An outcome is Accept, Reject or Halt *)
(* with the new state and the work done.                                   *)
(***************************************************************************)
EXTENDS JournalFold

MaxPage == 2      \* fills per page: the loops over a page are unrolled to it

FillRecord == [id : FillIds, qty : Nat, price : Nat, fee : Opt(0..U64Max),
               venue : Opt(Venues), ts : Int]
Response == [venue : Venues, fill_count : Nat, remaining_count : Nat,
             avg : Opt(Nat), fee : Opt(Nat), boundary : Opt(Boundary)]
Status == {"Open", "Partial", "Filled", "Canceled"}
Report == [status : Status, venue : Opt(Venues), filled : Nat, remaining : Nat,
           others : Nat, mine : BOOLEAN]

-----------------------------------------------------------------------------
(* OrderState                                                              *)

Terminals == {"Canceled", "Filled", "Terminal"}
CloseReasons == {"LocalNotSent", "DefiniteFailure", "ExhaustiveAbsent"}
CancelOutcomes == {"Canceled", "Accepted", "NotFound", "AlreadyTerminal",
                   "Rejected", "TransportUnknown", "Unknown"}
LiveKinds == {"Accepted", "Partial"}
PendingKinds == {"CancelPending", "ReconcilePending"}
Kinds == {"New", "SubmitPrepared", "SubmitStarted", "SubmitUnknown",
          "ImmediateFillUnattributed", "ImmediateFillUnresolved",
          "UnknownNoMatch", "Halted", "SubmissionClosed"}
         \cup Terminals \cup LiveKinds \cup PendingKinds

Target == [terminal : Terminals, filled : Nat, remaining : Opt(Nat)]

\* The response fields that a state variant copies from the context.
Resp == [fill_count : Opt(Nat), remaining_count : Opt(Nat), avg : Opt(Nat),
         fee : Opt(Nat)]
NoResp == [fill_count |-> None, remaining_count |-> None, avg |-> None,
           fee |-> None]
RespOf(c) == [fill_count |-> c.response.fill_count, remaining_count |-> None,
              avg |-> c.response.avg, fee |-> c.response.fee]

\* Fields a variant does not have are at the default of Plain.
OrderState == [kind : Kinds, venue : Opt(Venues), filled : Nat, remaining : Nat,
               target : Opt(Target), resp : Resp, reason : Opt(HaltReason \cup CloseReasons)]

Plain(k) == [kind |-> k, venue |-> None, filled |-> 0, remaining |-> 0,
             target |-> None, resp |-> NoResp, reason |-> None]
Accepted(v) == [Plain("Accepted") EXCEPT !.venue = v]
Partial(v, filled, remaining) ==
    [Plain("Partial") EXCEPT !.venue = v, !.filled = filled, !.remaining = remaining]
CancelPending(c, v, filled, remaining, target) ==
    [Plain("CancelPending") EXCEPT !.venue = v, !.filled = filled,
        !.remaining = remaining, !.target = target, !.resp = RespOf(c)]
\* Mutant: the state shows what is owed instead of what is attributed.
ReconcilePendingOwed(c, v, target) ==
    [Plain("ReconcilePending") EXCEPT !.venue = v, !.filled = c.fill_obligation,
        !.remaining = remaining_qty(c), !.target = target, !.resp = RespOf(c)]

ReconcilePending(c, v, target) ==
    [Plain("ReconcilePending") EXCEPT !.venue = v, !.filled = c.attributed_fill_qty,
        !.remaining = remaining_qty(c), !.target = target, !.resp = RespOf(c)]
Unattributed(r) ==
    [Plain("ImmediateFillUnattributed") EXCEPT !.venue = r.venue,
        !.resp = [fill_count |-> r.fill_count, remaining_count |-> r.remaining_count,
                  avg |-> r.avg, fee |-> r.fee]]
Halted(reason) == [Plain("Halted") EXCEPT !.reason = reason]
SubmissionClosed(reason) == [Plain("SubmissionClosed") EXCEPT !.reason = reason]

is_restart_frozen(s) ==
    s.kind \in Terminals \cup {"ImmediateFillUnresolved", "UnknownNoMatch", "Halted",
                               "SubmissionClosed"}

reservation_held(s) ==
    IF s.kind \in Terminals \cup {"SubmissionClosed"} THEN "Released" ELSE "Full"

-----------------------------------------------------------------------------
(* Effects                                                                 *)

Requests == {"BackfillFills", "BackfillUnknown", "ReconcileCancel",
             "RequestAuthorityReconcile", "HaltNewExposure"}

NoWork(c) == [ctx |-> c, log |-> <<>>, qty |-> 0, fee |-> 0, asks |-> {},
              hold |-> "Keep"]

AppendFsync(w, r) == [w EXCEPT !.log = Append(@, r)]
Ask(w, names) == [w EXCEPT !.asks = @ \cup names]
AccountFill(w, f) == [w EXCEPT !.qty = @ + f.qty, !.fee = @ + OrZero(f.fee)]
AccountFeeCorrection(w, delta) == [w EXCEPT !.fee = @ + delta]

accept(s, w) == [outcome |-> "Accept", state |-> s, work |-> w]
reject(s, w) == [outcome |-> "Reject", state |-> s, work |-> w]
halt_with_reason_state(s, w) ==
    [outcome |-> "Halt", state |-> s, work |-> Ask(w, {"HaltNewExposure"})]
halt_with_reason(reason, w) == halt_with_reason_state(Halted(reason), w)

-----------------------------------------------------------------------------
(* Operations on the context that also journal                             *)

\* bind_venue_id where BindError is None: a VenueBoundCid when newly bound.
bind_venue_id(w, v) ==
    IF w.ctx.venue_order_id = None
    THEN AppendFsync([w EXCEPT !.ctx = Bind(@, v)], VenueBoundRecord(v))
    ELSE w

note_fill_evidence(w, evidence) ==
    LET raised == [w EXCEPT !.ctx = raise_fill_obligation(@, evidence)] IN
    IF raised.ctx.fill_obligation > w.ctx.fill_obligation
    THEN AppendFsync(raised, ObligationRaisedRecord(raised.ctx))
    ELSE raised

\* The raise of a create response or a cancel outcome journals the bump too.
NoteResponseEvidence(w, evidence) ==
    LET raised == note_fill_evidence(w, evidence) IN
    IF raised.ctx.authority_epoch # w.ctx.authority_epoch
    THEN AppendFsync(raised, AuthorityInvalidatedRecord(raised.ctx))
    ELSE raised

note_authority_complete(w, complete) ==
    LET latched == [w EXCEPT !.ctx = latch_authority_complete(@)] IN
    IF complete THEN AppendFsync(latched, AuthorityLatchedRecord(latched.ctx)) ELSE w

\* Mutant: a cancel or a new fill leaves the authority latch as it is.
KeepAuthority(w) == w

authority_invalidate_effects(w) ==
    LET stale == [w EXCEPT !.ctx = invalidate_authority(@)]
    IN AppendFsync(stale, AuthorityInvalidatedRecord(stale.ctx))

\* AccountAttempt: NoOp, Applied, Enriched or Halt with its reason.
Attempt(tag, reason, w) == [tag |-> tag, reason |-> reason, work |-> w]

\* A new fill_id: authority is stale, the obligation covers it, it is journalled
\* and booked, and only then may the response domain contradict it.
ApplyFill(w, f) ==
    LET booked == authority_invalidate_effects([w EXCEPT !.ctx = BookFill(@, f)])
        raised == note_fill_evidence(booked, booked.ctx.attributed_fill_qty)
        emitted == AccountFill(AppendFsync(raised, FillRecordCid(f)), f)
        done == [emitted EXCEPT !.ctx = accumulate_response_domain(@, PayloadOf(f))]
    IN IF response_domain_overfill(done.ctx)
       THEN Attempt("Halt", "CrossCheckMismatch", done)
       ELSE Attempt("Applied", None, done)

\* A known fill_id: its venue or its fee arrives late.
UpgradeFill(w, f) ==
    LET known == EnrichFill(w.ctx, f).applied_fills[f.id]
        restated == [f EXCEPT !.ts = known.ts, !.fee = known.fee, !.venue = known.venue]
        upgraded == AppendFsync([w EXCEPT !.ctx = EnrichFill(@, f)],
                                FillRecordCid(restated))
    IN IF ~ (VenueArrives(w.ctx, f) \/ FeeArrives(w.ctx, f)) THEN Attempt("NoOp", None, w)
       ELSE IF FeeArrives(w.ctx, f)
       THEN Attempt("Enriched", None,
              AccountFeeCorrection(AppendFsync(upgraded, FeeCorrectionRecord(f)), f.fee))
       ELSE Attempt("Enriched", None, upgraded)

\* Mutant: a redelivered fill_id is booked again.
AccountEveryDelivery(w, f) ==
    IF FirstSightError(w.ctx, f) # None
    THEN Attempt("Halt", FirstSightError(w.ctx, f), w)
    ELSE ApplyFill(w, f)

account_fill_core(w, f) ==
    IF FillError(w.ctx, f) # None THEN Attempt("Halt", FillError(w.ctx, f), w)
    ELSE IF w.ctx.applied_fills[f.id] = None THEN ApplyFill(w, f)
    ELSE UpgradeFill(w, f)

\* for f in fills { ... }: the first Halt ends the loop.
AccountNext(a, f) == IF a.tag = "Halt" THEN a ELSE account_fill_core(a.work, f)
AccountPage(w, page) ==
    LET start == Attempt("NoOp", None, w)
        one == IF Len(page) >= 1 THEN AccountNext(start, page[1]) ELSE start
    IN IF Len(page) >= 2 THEN AccountNext(one, page[2]) ELSE one

-----------------------------------------------------------------------------
(* try_finalize_terminal: the only producer of ReleaseReservation          *)

Proposed(terminal, filled, remaining) ==
    [terminal |-> terminal, filled |-> filled, remaining |-> remaining]
ProposedCanceled == Proposed("Canceled", None, None)
ProposedTerminal == Proposed("Terminal", None, None)

OrElse(x, y) == IF x # None THEN x ELSE y

\* Mutant: nothing is requested when the fills have caught up.
WaitWithoutRequest(w, v, fallback, request_authority, remaining) ==
    LET c == w.ctx
        target == [terminal |-> fallback,
                   filled |-> MaxOf(c.fill_obligation, c.attributed_fill_qty),
                   remaining |-> OrElse(remaining, c.last_venue_remaining_qty)]
        lagging == c.attributed_fill_qty < c.fill_obligation
    IN accept(ReconcilePending(c, v, target),
         Ask(w, (IF lagging THEN {"BackfillFills"} ELSE {})
                \cup (IF request_authority
                      THEN {"RequestAuthorityReconcile", "ReconcileCancel"} ELSE {})))

\* A gate failed: wait in ReconcilePending and have the shell fetch what lacks.
not_ready_for_terminal(w, v, fallback, request_authority, remaining) ==
    LET c == w.ctx
        target == [terminal |-> fallback,
                   filled |-> MaxOf(c.fill_obligation, c.attributed_fill_qty),
                   remaining |-> OrElse(remaining, c.last_venue_remaining_qty)]
        lagging == c.attributed_fill_qty < c.fill_obligation
    IN accept(ReconcilePending(c, v, target),
         Ask(w, (IF lagging THEN {"BackfillFills"} ELSE {})
                \cup (IF request_authority \/ ~ lagging
                      THEN {"RequestAuthorityReconcile"} ELSE {})
                \cup (IF request_authority THEN {"ReconcileCancel"} ELSE {})))

ForeignFill(c) ==
    c.venue_order_id # None
    /\ \E f \in AppliedIds(c) : c.applied_fills[f].venue \notin {None, c.venue_order_id}
UnprovenFill(c) ==
    c.venue_order_id # None /\ \E f \in AppliedIds(c) : c.applied_fills[f].venue = None

DomainKnown(c) == c.response.fill_count # None /\ has_reliable_boundary(c)
DomainContradicts(c) ==
    \/ c.domain.qty > c.response.fill_count
    \/ /\ c.response.avg # None
       /\ notional_avg_mismatch(c.domain.notional, c.response.avg, c.response.fill_count)
    \/ fee_cross_check_mismatch(c.response.fee, c.domain.fee)

\* The response's fills are all there, and no more.
DomainClosed(c) ==
    DomainKnown(c) => /\ ~ (c.domain.qty < c.response.fill_count)
                      /\ ~ response_domain_overfill(c)

Finalize(w, terminal) ==
    accept(Plain(terminal),
           [AppendFsync(w, OrderTerminalRecord(w.ctx)) EXCEPT !.hold = "ReleaseReservation"])

\* A foreign fill cannot be reached (Ownership below), so the order in which
\* the loop meets a foreign and an unproven fill does not matter.
try_finalize_terminal(w, p, v, fallback) ==
    LET c == w.ctx
        remaining == IF p.terminal = "Filled" THEN p.remaining
                     ELSE c.last_venue_remaining_qty
        fetching == Ask(w, {"BackfillFills"})
    IN IF ForeignFill(c) THEN halt_with_reason("FillOwnershipMismatch", w)
       ELSE IF UnprovenFill(c)
       THEN not_ready_for_terminal(fetching, v, fallback, TRUE, remaining)
       ELSE IF ~ authority_is_fresh(c)
       THEN not_ready_for_terminal(w, v, fallback, TRUE, remaining)
       ELSE IF c.attributed_fill_qty # c.fill_obligation
       THEN not_ready_for_terminal(w, v, fallback, FALSE, remaining)
       ELSE IF DomainKnown(c) /\ c.domain.qty < c.response.fill_count
       THEN not_ready_for_terminal(fetching, v, fallback, TRUE, remaining)
       ELSE IF DomainKnown(c) /\ DomainContradicts(c)
       THEN halt_with_reason("CrossCheckMismatch", w)
       ELSE IF p.terminal # "Filled" THEN Finalize(w, p.terminal)
       ELSE IF p.filled > Qty \/ remaining_qty_checked(c) = None
       THEN halt_with_reason("OverFill", w)
       ELSE IF p.filled # Qty \/ p.remaining # 0 \/ remaining_qty_checked(c) # 0
       THEN not_ready_for_terminal(w, v, "Filled", FALSE, p.remaining)
       ELSE Finalize(w, "Filled")

-----------------------------------------------------------------------------
(* Create response and immediate fills (B2)                                *)

route_live_or_filled(w, v) ==
    LET c == w.ctx
        remaining == remaining_qty_checked(c)
    IN IF remaining = None THEN halt_with_reason("OverFill", w)
       ELSE IF remaining = 0
       THEN try_finalize_terminal(note_authority_complete(w, TRUE),
              Proposed("Filled", c.attributed_fill_qty, 0), v, "Filled")
       ELSE IF c.attributed_fill_qty = 0 THEN accept(Accepted(v), w)
       ELSE accept(Partial(v, c.attributed_fill_qty, remaining), w)

resolve_unattributed(w, s) ==
    LET c == w.ctx
        n == s.resp.fill_count
        avg == OrElse(s.resp.avg, c.response.avg)
        fee == OrElse(s.resp.fee, c.response.fee)
        kept == [w EXCEPT !.ctx.response.avg = OrElse(@, s.resp.avg),
                          !.ctx.response.fee = OrElse(@, s.resp.fee)]
    IN IF has_reliable_boundary(c)
       THEN IF c.domain.qty < n THEN accept(s, w)
            ELSE IF c.domain.qty # n \/ MaxOf(Qty - n, 0) # s.resp.remaining_count
            THEN halt_with_reason("ImmediateFillCrossCheckMismatch", w)
            ELSE IF \/ avg # None /\ notional_avg_mismatch(c.domain.notional, avg, n)
                    \/ fee_cross_check_mismatch(fee, c.domain.fee)
            THEN halt_with_reason("CrossCheckMismatch", w)
            ELSE route_live_or_filled(kept, s.venue)
       ELSE IF c.attributed_fill_qty < n THEN accept(s, w)
            ELSE route_live_or_filled(kept, s.venue)

\* fill_count = 0: resting, raced by WS fills, missed (IOC), or contradictory.
ZeroFillResponse(w, r) ==
    IF w.ctx.attributed_fill_qty # 0
    THEN IF r.remaining_count = Qty THEN route_live_or_filled(w, r.venue)
         ELSE halt_with_reason("ResponseZeroButLocalFills", w)
    ELSE IF r.remaining_count = Qty THEN accept(Accepted(r.venue), w)
    ELSE IF r.remaining_count = 0
    THEN try_finalize_terminal(note_authority_complete(w, TRUE), ProposedCanceled,
                               r.venue, "Canceled")
    ELSE halt_with_reason("CrossCheckMismatch", w)

SnapshotOf(r) ==
    [fill_count |-> r.fill_count, remaining_count |-> r.remaining_count,
     avg |-> r.avg, fee |-> r.fee, boundary |-> r.boundary]

apply_submit_response(w, r) ==
    LET logged == AppendFsync(w, SubmitResponseRecord(r.venue, SnapshotOf(r)))
        bound == [bind_venue_id(logged, r.venue) EXCEPT
                    !.ctx = note_venue_remaining(@, r.remaining_count)]
        snapped == [bound EXCEPT !.ctx.response = SnapshotOf(r)]
        ready == [NoteResponseEvidence(snapped, r.fill_count) EXCEPT
                    !.ctx = recompute_response_domain(@)]
        entered == Ask(AppendFsync(ready, UnattributedRecord(r.venue, SnapshotOf(r))),
                       {"BackfillFills"})
    IN IF BindError(w.ctx, r.venue) # None
       THEN halt_with_reason(BindError(w.ctx, r.venue), logged)
       ELSE IF r.fill_count = 0 THEN ZeroFillResponse(bound, r)
       ELSE IF RaiseFails(r.fill_count)
       THEN halt_with_reason("ObligationExceedsOrderQty", snapped)
       ELSE IF response_domain_overfill(ready.ctx)
       THEN halt_with_reason("CrossCheckMismatch", ready)
       ELSE IF ready.ctx.attributed_fill_qty > 0
       THEN resolve_unattributed(entered, Unattributed(r))
       ELSE accept(Unattributed(r), entered)

ResolveAccounted(s, a) ==
    IF a.tag = "Halt" THEN halt_with_reason(a.reason, a.work)
    ELSE resolve_unattributed(a.work, s)

apply_immediate_fill_backfill(s, w, page) ==
    IF BindError(w.ctx, s.venue) # None
    THEN halt_with_reason(BindError(w.ctx, s.venue), w)
    ELSE ResolveAccounted(s, AccountPage(bind_venue_id(w, s.venue), page))

-----------------------------------------------------------------------------
(* A fill while the order is open                                          *)

finalize_reconcile_target(w, target, v) ==
    LET unseen == IF target.filled = Qty THEN 0 ELSE 1
        remaining == OrElse(target.remaining,
                            OrElse(w.ctx.last_venue_remaining_qty, unseen))
    IN try_finalize_terminal(w,
         IF target.terminal = "Filled" THEN Proposed("Filled", target.filled, remaining)
         ELSE Proposed(target.terminal, None, None),
         v, target.terminal)

\* A pending cancel or reconcile re-checks its target after a fill.
after_fill_cancel_or_reconcile(w, v, target, is_enrichment) ==
    LET c == w.ctx
        remaining == remaining_qty_checked(c)
        raised == note_fill_evidence(w, target.filled)
        rc == raised.ctx
        covered == note_authority_complete(raised, rc.attributed_fill_qty = Qty)
    IN IF remaining = None THEN halt_with_reason("OverFill", w)
       ELSE IF target = None
       THEN IF remaining = 0 /\ ~ is_enrichment
            THEN try_finalize_terminal(note_authority_complete(w, TRUE),
                   Proposed("Filled", c.attributed_fill_qty, 0), v, "Filled")
            ELSE accept(CancelPending(c, v, c.attributed_fill_qty, remaining, None), w)
       ELSE IF RaiseFails(target.filled)
       THEN halt_with_reason("ObligationExceedsOrderQty", w)
       ELSE IF rc.attributed_fill_qty > target.filled
       THEN not_ready_for_terminal(raised, v, target.terminal, TRUE, target.remaining)
       ELSE IF /\ rc.attributed_fill_qty = target.filled
               /\ rc.attributed_fill_qty = rc.fill_obligation
       THEN finalize_reconcile_target(covered, target, v)
       ELSE accept(ReconcilePending(rc, v, target), raised)

\* The match on what accounting the fill did (a).
AfterOpenFill(s, w, a) ==
    IF a.tag = "NoOp" THEN accept(s, w)
    ELSE IF a.tag = "Halt" THEN halt_with_reason(a.reason, a.work)
    ELSE IF s.kind = "SubmitStarted" THEN accept(s, a.work)
    ELSE IF s.kind \in PendingKinds
    THEN after_fill_cancel_or_reconcile(a.work, s.venue, s.target, a.tag = "Enriched")
    ELSE IF a.tag = "Enriched" THEN accept(s, a.work)
    ELSE route_live_or_filled(a.work, a.work.ctx.venue_order_id)

apply_fill_while_open(s, w, f) == AfterOpenFill(s, w, account_fill_core(w, f))

apply_fill_dedup_only(s, w, f) ==
    LET a == account_fill_core(w, f) IN
    IF a.tag = "Halt" THEN halt_with_reason(a.reason, a.work) ELSE accept(s, a.work)

\* Mutant: a late fill is booked but the released order stays terminal.
BookLateFill(s, w, f) ==
    LET a == account_fill_core(w, f) IN
    IF a.tag # "Halt" THEN accept(s, a.work) ELSE halt_with_reason(a.reason, a.work)

\* Mutant: the order halts without taking its reservation back.
HaltWithoutReserve(s, w, f) ==
    LET a == account_fill_core(w, f) IN
    IF a.tag \in {"NoOp", "Enriched"} THEN accept(s, a.work)
    ELSE halt_with_reason(IF a.tag = "Halt" THEN a.reason ELSE "PostTerminalFill", a.work)

\* A frozen order books late money and halts; late metadata is only recorded.
AfterFrozenFill(s, a) ==
    LET rereserved == IF reservation_held(s) = "Released"
                      THEN [a.work EXCEPT !.hold = "ReserveFull"] ELSE a.work
    IN IF a.tag \in {"NoOp", "Enriched"} THEN accept(s, a.work)
       ELSE halt_with_reason(IF a.tag = "Halt" THEN a.reason ELSE "PostTerminalFill",
                             rereserved)

restart_safe_fill(s, w, f) == AfterFrozenFill(s, account_fill_core(w, f))

-----------------------------------------------------------------------------
(* Venue reports: reconcile, unknown-submission backfill (C), cancel       *)

\* backfill_member_quantities underflows.
MemberError(rep) == rep.others > rep.filled \/ rep.others > Qty

Observed(w, v, rep, complete) ==
    AppendFsync(w, ReconcileObservedRecord(w.ctx, v, rep.filled, rep.remaining,
                                           rep.others, complete))

\* Fills lag a live report: the order goes back to live and fills are fetched.
continue_reconcile_pending(w, v) ==
    LET c == w.ctx IN
    accept(IF c.attributed_fill_qty = 0 THEN Accepted(v)
           ELSE Partial(v, c.attributed_fill_qty, remaining_qty(c)),
           Ask(w, {"BackfillFills"}))

\* The status match at the end of route_from_backfill_status.  A live report
\* must add up once the fills are attributed; a terminal one goes to the gate.
RouteStatus(w, v, rep) ==
    LET c == w.ctx
        remaining == Qty - rep.others - c.attributed_fill_qty
    IN IF rep.status = "Canceled"
       THEN try_finalize_terminal(w, ProposedCanceled, v, "Canceled")
       ELSE IF rep.status = "Filled"
       THEN try_finalize_terminal(w, Proposed("Filled", rep.filled, rep.remaining), v,
                                  "Filled")
       ELSE IF c.attributed_fill_qty # rep.filled - rep.others
       THEN continue_reconcile_pending(w, v)
       ELSE IF remaining < 0 THEN halt_with_reason("OverFill", w)
       ELSE IF rep.remaining # remaining THEN halt_with_reason("CrossCheckMismatch", w)
       ELSE IF c.attributed_fill_qty = 0 THEN accept(Accepted(v), w)
       ELSE accept(Partial(v, c.attributed_fill_qty, remaining), w)

\* Once the page is accounted (a): the latch of a complete report, then its
\* status, unless more was attributed than it reports.
RouteSettled(w, v, rep) ==
    IF w.ctx.attributed_fill_qty > rep.filled - rep.others
    THEN halt_with_reason("CrossCheckMismatch", w)
    ELSE RouteStatus(w, v, rep)
RouteAccounted(a, v, rep, complete) ==
    LET latched == note_authority_complete(a.work, complete)
    IN IF a.tag = "Halt" THEN halt_with_reason(a.reason, a.work)
       ELSE RouteSettled(IF complete THEN Observed(latched, v, rep, TRUE) ELSE latched,
                         v, rep)

\* Every caller from SubmitUnknown passes complete = TRUE, so the branches for
\* an incomplete report there are dead and left out.
route_from_backfill_status(w, v, rep, page, complete) ==
    LET member == rep.filled - rep.others
        bound == bind_venue_id(w, v)
        seen == Observed([bound EXCEPT !.ctx = note_venue_remaining(@, rep.remaining)],
                         v, rep, FALSE)
    IN IF MemberError(rep) THEN halt_with_reason("CrossCheckMismatch", w)
       ELSE IF BindError(w.ctx, v) # None
       THEN halt_with_reason(BindError(w.ctx, v), w)
       ELSE IF RaiseFails(member) THEN halt_with_reason("ObligationExceedsOrderQty", seen)
       ELSE RouteAccounted(AccountPage(note_fill_evidence(seen, member), page), v, rep,
                           complete)

\* resolve_reconcile_venue: the state's venue id is bound first, then the
\* event's is checked against it.
ReconcileReport(s, w, rep, page, complete) ==
    LET bound == bind_venue_id(w, s.venue)
        v == OrElse(rep.venue, s.venue)
    IN IF BindError(w.ctx, s.venue) # None
       THEN halt_with_reason(BindError(w.ctx, s.venue), w)
       ELSE IF BindError(bound.ctx, v) # None
       THEN halt_with_reason(BindError(bound.ctx, v), bound)
       ELSE route_from_backfill_status(bound, v, rep, page, complete)

\* A matched row's fills must carry a venue id.
AccountOwned(a, f) ==
    IF a.tag = "Halt" THEN a
    ELSE IF f.venue = None THEN Attempt("Halt", "FillOwnershipMismatch", a.work)
    ELSE account_fill_core(a.work, f)
AccountOwnedPage(w, page) ==
    LET start == Attempt("NoOp", None, w)
        one == IF Len(page) >= 1 THEN AccountOwned(start, page[1]) ELSE start
    IN IF Len(page) >= 2 THEN AccountOwned(one, page[2]) ELSE one

RouteMatched(a, rep) ==
    IF a.tag = "Halt" THEN halt_with_reason(a.reason, a.work)
    ELSE route_from_backfill_status(note_authority_complete(a.work, TRUE), rep.venue, rep,
                                    <<>>, TRUE)

\* apply_unknown_backfill with exactly one matched row.
MatchedBackfill(w, exhaustive, rep, page) ==
    LET v == rep.venue
        bound == bind_venue_id(w, v)
        seen == Observed([bound EXCEPT !.ctx = note_venue_remaining(@, rep.remaining)],
                         v, rep, FALSE)
        raised == note_fill_evidence(seen, rep.filled - rep.others)
    IN IF ~ rep.mine THEN halt_with_reason("Operator", w)
       ELSE IF ~ exhaustive
       THEN accept(Plain("SubmitUnknown"),
              Ask(w, {"BackfillUnknown"}
                     \cup (IF rep.filled > 0 /\ page = <<>> THEN {"BackfillFills"} ELSE {})))
       ELSE IF MemberError(rep) THEN halt_with_reason("CrossCheckMismatch", w)
       ELSE IF BindError(w.ctx, v) # None THEN halt_with_reason(BindError(w.ctx, v), w)
       ELSE IF RaiseFails(rep.filled - rep.others)
       THEN halt_with_reason("ObligationExceedsOrderQty", seen)
       ELSE RouteMatched(AccountOwnedPage(note_authority_complete(raised, TRUE), page), rep)

\* The seven-way match, once the evidence is merged and the venue bound.
SettleCancel(s, w, outcome) ==
    LET c == w.ctx
        waiting == CancelPending(c, s.venue, s.filled, s.remaining, s.target)
        live == IF s.filled = 0 /\ c.attributed_fill_qty = 0 THEN Accepted(s.venue)
                ELSE Partial(s.venue, MaxOf(c.attributed_fill_qty, s.filled),
                             remaining_qty(c))
    IN CASE outcome = "Canceled" ->
              try_finalize_terminal(w, ProposedCanceled, s.venue, "Canceled")
         [] outcome = "AlreadyTerminal" ->
              try_finalize_terminal(w, ProposedTerminal, s.venue,
                IF c.fill_obligation > 0 THEN "Filled" ELSE "Canceled")
         [] outcome = "Accepted" -> accept(waiting, w)
         [] outcome = "Rejected" -> accept(live, w)
         [] OTHER -> accept(waiting, Ask(w, {"ReconcileCancel"}))

\* Authority is stale first, and never latched here.
apply_cancel_outcome(s, w, outcome) ==
    LET logged == AppendFsync(authority_invalidate_effects(w), CancelRecord)
        rc == s.resp.fill_count
        snapped == [logged EXCEPT !.ctx.response.fill_count = OrElse(@, rc)]
        counted == IF rc = None THEN logged ELSE NoteResponseEvidence(snapped, rc)
        kept == [counted EXCEPT !.ctx.response.avg = OrElse(@, s.resp.avg),
                                !.ctx.response.fee = OrElse(@, s.resp.fee)]
        aimed == IF s.target = None THEN kept
                 ELSE [note_fill_evidence(kept, s.target.filled) EXCEPT
                         !.ctx.last_venue_remaining_qty = OrElse(s.target.remaining, @)]
        bound == bind_venue_id(aimed, s.venue)
    IN IF rc # None /\ RaiseFails(rc)
       THEN halt_with_reason("ObligationExceedsOrderQty", snapped)
       ELSE IF s.target # None /\ RaiseFails(s.target.filled)
       THEN halt_with_reason("ObligationExceedsOrderQty", kept)
       ELSE IF BindError(aimed.ctx, s.venue) # None
       THEN halt_with_reason(BindError(aimed.ctx, s.venue), aimed)
       ELSE SettleCancel(s, bound, outcome)

\* CancelRequested on a live order: fills may race it, so authority is stale.
request_cancel(s, w) ==
    LET logged == AppendFsync(authority_invalidate_effects(w), CancelRecord)
        c == logged.ctx
        pending == CancelPending(c, s.venue, c.attributed_fill_qty, remaining_qty(c), None)
        carried == [s.resp EXCEPT !.remaining_count = None]
    IN accept(IF s.kind = "ImmediateFillUnattributed"
              THEN [pending EXCEPT !.resp = carried] ELSE pending, logged)

-----------------------------------------------------------------------------
(* Closing a submission that never reached the venue                       *)

\* Mutant: only a bound venue id or an authority latch blocks the close.
BlockedWhenBound(c) == c.venue_order_id # None \/ c.authority_complete

submission_close_blocked(c) ==
    \/ c.venue_order_id # None
    \/ AppliedIds(c) # {}
    \/ c.attributed_fill_qty > 0
    \/ c.fill_obligation > 0
    \/ c.response # NoResponse
    \/ c.last_venue_remaining_qty # None
    \/ c.attributed_notional > 0
    \/ c.attributed_fee > 0
    \/ c.domain # EmptyDomain
    \/ c.authority_complete

try_close_submission(s, w, reason) ==
    IF submission_close_blocked(w.ctx) THEN reject(s, w)
    ELSE accept(SubmissionClosed(reason), w)

\* Mutant: an unresolved immediate fill trades on when its fill arrives late.
ResumeUnresolved(s, w, f) ==
    IF is_restart_frozen(s) /\ s.kind # "ImmediateFillUnresolved"
    THEN restart_safe_fill(s, w, f)
    ELSE IF s.kind = "SubmitUnknown" THEN apply_fill_dedup_only(s, w, f)
    ELSE IF s.kind = "ImmediateFillUnattributed"
    THEN apply_immediate_fill_backfill(s, w, <<f>>)
    ELSE apply_fill_while_open(s, w, f)

\* The dispatch of a Fill on the state.
on_fill(s, w, f) ==
    IF is_restart_frozen(s) THEN restart_safe_fill(s, w, f)
    ELSE IF s.kind = "SubmitUnknown" THEN apply_fill_dedup_only(s, w, f)
    ELSE IF s.kind = "ImmediateFillUnattributed"
    THEN apply_immediate_fill_backfill(s, w, <<f>>)
    ELSE apply_fill_while_open(s, w, f)
=============================================================================
