------------------------------ MODULE Lifecycle ------------------------------
(***************************************************************************)
(* The life of one order under lifecycle.rs: apply_event as a transition   *)
(* system, one action per event, with the effects the shell executes for   *)
(* it: the journal, the books, the reservation and the requests.           *)
(***************************************************************************)
EXTENDS OrderMachine

CONSTANTS
    Fills,        \* the fill records that WS and GET may deliver
    Pages,        \* the pages of fills a backfill or a reconcile may carry
    Responses,    \* the create responses
    Reports,      \* the order rows a backfill or a reconcile may report
    RestingClaims,    \* <<venue id, remaining>> of user_order resting frames
    TerminalClaims    \* <<venue id, filled, executed>> of terminal frames

ASSUME InputAssumption ==
    /\ Fills \subseteq FillRecord
    /\ \A p \in Pages : p \in Seq(FillRecord) /\ Len(p) <= MaxPage
    /\ Responses \subseteq Response
    /\ Reports \subseteq Report
    /\ RestingClaims \subseteq Venues \X Nat
    /\ TerminalClaims \subseteq Venues \X Nat \X BOOLEAN

VARIABLES
    state,      \* OrderState
    ctx,        \* OrderCtx in memory
    durable,    \* what rebuild_ctx_from_journal returns for the journal so far
    ledger,     \* quantity and fee booked by AccountFill / AccountFeeCorrection
    hold,       \* the reservation as the effects drive it: "Full" or "Released"
    asks        \* requests to the shell not yet answered

vars == <<state, ctx, durable, ledger, hold, asks>>

-----------------------------------------------------------------------------
(* apply_event: one action per event; a rejected event changes nothing and *)
(* is no step                                                              *)

Now == NoWork(ctx)

\* The shell executes the effects of an outcome.  An answer, or a change of
\* state, settles the requests made before it.
Step(o, answer) ==
    /\ o.outcome # "Reject"
    /\ state' = o.state
    /\ ctx' = o.work.ctx
    /\ durable' = rebuild_ctx_from_journal(durable, o.work.log)
    /\ ledger' = [qty |-> ledger.qty + o.work.qty, fee |-> ledger.fee + o.work.fee]
    /\ hold' = CASE o.work.hold = "ReleaseReservation" -> "Released"
                 [] o.work.hold = "ReserveFull" -> "Full"
                 [] OTHER -> hold
    /\ asks' = (IF answer \/ o.state.kind # state.kind THEN {} ELSE asks)
               \cup o.work.asks

Init ==
    /\ state = Plain("New")
    /\ ctx = new_ctx
    /\ durable = Ok(new_ctx)
    /\ ledger = [qty |-> 0, fee |-> 0]
    /\ hold = "Full"
    /\ asks = {}

PrepareSubmit ==
    /\ state.kind = "New"
    /\ Step(accept(Plain("SubmitPrepared"), Now), FALSE)

StartSubmit ==
    /\ state.kind = "SubmitPrepared"
    /\ Step(accept(Plain("SubmitStarted"), Now), FALSE)

SubmitResponse ==
    /\ state.kind = "SubmitStarted"
    /\ \E r \in Responses : Step(apply_submit_response(Now, r), FALSE)

SubmitTimeout ==
    /\ state.kind = "SubmitStarted"
    /\ Step(accept(Plain("SubmitUnknown"), Ask(Now, {"BackfillUnknown"})), FALSE)

Fill ==
    /\ state.kind \notin {"New", "SubmitPrepared"}
    /\ \E f \in Fills : Step(on_fill(state, Now, f), FALSE)

CancelRequested ==
    /\ state.kind \in LiveKinds \cup {"ImmediateFillUnattributed"}
    /\ Step(request_cancel(state, Now), FALSE)

\* A retried cancel, or a cancel outcome that comes after the reconcile began.
CancelRetried ==
    /\ state.kind \in PendingKinds
    /\ Step(accept(state, Now), FALSE)

CancelOutcome ==
    /\ state.kind = "CancelPending"
    /\ \E oc \in CancelOutcomes : Step(apply_cancel_outcome(state, Now, oc), FALSE)

UnknownBackfillNoMatch ==
    /\ state.kind = "SubmitUnknown"
    /\ \/ Step(halt_with_reason_state(Plain("UnknownNoMatch"), Now), TRUE)
       \/ Step(accept(state, Ask(Now, {"BackfillUnknown"})), TRUE)
       \/ Step(halt_with_reason("AmbiguousMatch", Now), TRUE)

UnknownBackfillMatch ==
    /\ state.kind = "SubmitUnknown"
    /\ \E rep \in Reports, page \in Pages, exhaustive \in BOOLEAN :
         /\ rep.venue # None
         /\ Step(MatchedBackfill(Now, exhaustive, rep, page), TRUE)

ImmediateFillBackfillResult ==
    /\ state.kind = "ImmediateFillUnattributed"
    /\ \E page \in Pages :
         Step(apply_immediate_fill_backfill(state, Now, page), TRUE)

BackfillDeadlineElapsed ==
    /\ state.kind = "ImmediateFillUnattributed"
    /\ Step(halt_with_reason_state(Plain("ImmediateFillUnresolved"), Now), FALSE)

\* With proven idempotency the request is rejected; the core never resubmits.
RequestResubmit ==
    /\ state.kind = "SubmitUnknown"
    /\ Step(halt_with_reason("UnprovenIdempotentResubmit", Now), FALSE)

ReconcileResult ==
    /\ state.kind \in PendingKinds
    /\ \E rep \in Reports, page \in Pages, complete \in BOOLEAN :
         /\ rep.others = 0 /\ rep.mine
         /\ Step(ReconcileReport(state, Now, rep, page, complete), TRUE)

UserOrderRestingClaim ==
    /\ state.kind = "SubmitUnknown"
    /\ ctx.attributed_fill_qty = 0
    /\ \E claim \in RestingClaims :
         LET v == claim[1]
             bound == bind_venue_id(Now, v)
         IN /\ claim[2] = Qty
            /\ Step(IF BindError(ctx, v) # None
                    THEN halt_with_reason(BindError(ctx, v), Now)
                    ELSE accept(Accepted(v),
                           [bound EXCEPT !.ctx = note_venue_remaining(@, claim[2])]), FALSE)

UserOrderTerminalClaim ==
    /\ state.kind \in LiveKinds \cup PendingKinds
    /\ \E claim \in TerminalClaims :
         LET v == claim[1]
             filled == claim[2]
             executed == claim[3]
             noted == [Now EXCEPT !.ctx = note_venue_remaining(@, 0)]
         IN /\ ctx.venue_order_id = v
            /\ ctx.attributed_fill_qty = filled
            /\ IF executed THEN filled = Qty ELSE filled <= Qty
            /\ Step(try_finalize_terminal(note_authority_complete(noted, TRUE),
                      IF executed THEN Proposed("Filled", filled, 0) ELSE ProposedCanceled,
                      v, IF executed THEN "Filled" ELSE "Canceled"), FALSE)

\* DecreaseObserved / AmendObserved: a record the fold ignores, nothing else.
OwnActionObserved ==
    /\ \/ state.kind \in LiveKinds \cup PendingKinds \cup {"ImmediateFillUnattributed"}
       \/ is_restart_frozen(state)
    /\ Step(accept(state, Now), FALSE)

CloseSubmission ==
    \E reason \in CloseReasons :
      \/ /\ state.kind = "SubmissionClosed"
         /\ Step(accept(state, Now), FALSE)
      \/ /\ \/ state.kind = "SubmitStarted" /\ reason # "ExhaustiveAbsent"
            \/ state.kind \in {"SubmitUnknown", "UnknownNoMatch"}
               /\ reason = "ExhaustiveAbsent"
         /\ Step(try_close_submission(state, Now, reason), FALSE)

Next ==
    \/ PrepareSubmit \/ StartSubmit \/ SubmitResponse \/ SubmitTimeout
    \/ Fill
    \/ CancelRequested \/ CancelRetried \/ CancelOutcome
    \/ UnknownBackfillNoMatch \/ UnknownBackfillMatch
    \/ ImmediateFillBackfillResult \/ BackfillDeadlineElapsed
    \/ RequestResubmit \/ ReconcileResult
    \/ UserOrderRestingClaim \/ UserOrderTerminalClaim
    \/ OwnActionObserved \/ CloseSubmission

Spec == Init /\ [][Next]_vars

-----------------------------------------------------------------------------
(* Properties                                                              *)

\* The rebuilt context is not typed here: RebuildAgrees equates it with ctx.
TypeOK ==
    /\ state \in OrderState
    /\ CtxTyped(ctx)
    /\ ledger \in [qty : Nat, fee : Nat]
    /\ hold \in {"Full", "Released"}
    /\ asks \subseteq Requests

\* What is attributed never exceeds the obligation, nor that the order: no
\* report, response, claim or fill, in any order, pushes one past the other.
\* A reconcile never waits for more than the obligation it raised.
EvidenceBounded ==
    /\ ctx.attributed_fill_qty <= ctx.fill_obligation
    /\ ctx.fill_obligation <= Qty
    /\ state.target # None => state.target.filled <= ctx.fill_obligation

\* Every fill_id is booked exactly once, whatever is redelivered, enriched or
\* paged twice: the running totals, and what the effects made the shell book,
\* are the sums over the distinct fills applied.
BooksBalance ==
    /\ [qty |-> ctx.attributed_fill_qty, notional |-> ctx.attributed_notional,
        fee |-> ctx.attributed_fee] = TotalsOver(ctx, AppliedIds(ctx))
    /\ ledger = [qty |-> ctx.attributed_fill_qty, fee |-> ctx.attributed_fee]

\* Once the order is bound to a venue id, no applied fill belongs to another
\* one, and a state that carries a venue id carries the bound one.  This makes
\* the ownership halt inside try_finalize_terminal unreachable.
Ownership ==
    /\ ~ ForeignFill(ctx)
    /\ state.venue # None => state.venue = ctx.venue_order_id
    /\ state.kind \in LiveKinds \cup PendingKinds \cup {"ImmediateFillUnattributed"}
         => state.venue # None

\* The quantities and response fields a pending state copies out of the context
\* are never stale when a later cancel outcome or fill reads them back.
StateMirrorsCtx ==
    /\ state.kind \in PendingKinds \cup {"Partial"}
         => state.filled = ctx.attributed_fill_qty
    /\ state.kind \in PendingKinds => state.resp = RespOf(ctx)
    /\ state.kind \in PendingKinds => state.remaining = Qty - ctx.attributed_fill_qty

\* The in-domain sums, kept incrementally as fills, late fees and the response
\* arrive in any order, are the sums over the fills inside the boundary.
DomainByIdentity ==
    state.kind # "Halted" =>
      IF DomainKnown(ctx) THEN ctx.domain = DomainOf(ctx) ELSE ctx.domain = EmptyDomain

\* The reservation is free only while every release gate still holds: all known
\* fills are attributed, each proven to belong to the bound venue order, under
\* authority of the current generation, with the response domain closed; an
\* order released as Filled is filled to its quantity.
ReleaseEarned ==
    hold = "Released" =>
      /\ state.kind \in Terminals
      /\ ctx.attributed_fill_qty = ctx.fill_obligation
      /\ authority_is_fresh(ctx)
      /\ ctx.venue_order_id # None
      /\ ~ UnprovenFill(ctx)
      /\ DomainClosed(ctx)
      /\ state.kind = "Filled" => ctx.attributed_fill_qty = Qty

\* The reservation as the effects drive it is the one reservation_held reads off
\* the state, through terminals and the re-reservation of a late fill.  A closed
\* submission emits no release.
HoldAgrees ==
    hold = IF state.kind = "SubmissionClosed" THEN "Full" ELSE reservation_held(state)

\* A submission is closed as never sent only if nothing of it was ever seen, in
\* memory or in the journal.
ClosedWithoutEvidence ==
    state.kind = "SubmissionClosed" =>
      /\ ~ submission_close_blocked(ctx)
      /\ durable.ok /\ ~ submission_close_blocked(durable.ctx)
      /\ ledger.qty = 0

\* An order that waits for the shell has a request out that can move it on.
WaitingIsDriven ==
    /\ state.kind = "SubmitUnknown" => "BackfillUnknown" \in asks
    /\ state.kind = "ReconcilePending"
         => asks \cap {"BackfillFills", "RequestAuthorityReconcile"} # {}

\* A restart sees what memory saw: the rebuilt context has the same fills, sums,
\* obligation, venue, epoch and response domain, and never claims a fresher
\* authority.  The last venue remaining and a latch may be missing.
RebuildAgrees ==
    durable.ok =>
      /\ [durable.ctx EXCEPT !.authority_complete = FALSE,
                             !.authority_latched_epoch = 0,
                             !.last_venue_remaining_qty = None]
           = [ctx EXCEPT !.authority_complete = FALSE,
                         !.authority_latched_epoch = 0,
                         !.last_venue_remaining_qty = None]
      /\ authority_is_fresh(durable.ctx) => authority_is_fresh(ctx)

\* "rebuild_ctx_from_journal equals event-apply ctx" (lifecycle.rs:8993): the
\* restart fold gives back the context in memory, every field of it.  It does
\* not: user_order frames move last_venue_remaining_qty without a record.
RebuildExact == durable.ok => durable.ctx = ctx

\* The rebuild only fails on a journal whose order already halted.
RebuildFailsOnlyHalted == ~ durable.ok => state.kind = "Halted"

\* What a fill or a report established is never taken back: the obligation and
\* the authority generation only grow, the venue binding is final, a fill keeps
\* its quantity, price and first timestamp, and a venue or fee once known stays.
EvidenceMonotone ==
    [][/\ ctx'.fill_obligation >= ctx.fill_obligation
       /\ ctx'.authority_epoch >= ctx.authority_epoch
       /\ ctx.venue_order_id # None => ctx'.venue_order_id = ctx.venue_order_id
       /\ \A f \in AppliedIds(ctx) :
            LET old == ctx.applied_fills[f]
                new == ctx'.applied_fills[f]
            IN /\ new # None
               /\ new.qty = old.qty /\ new.price = old.price /\ new.ts = old.ts
               /\ old.fee # None => new.fee = old.fee
               /\ old.venue # None => new.venue = old.venue]_vars

\* A cancel acknowledgement never frees the reservation by itself, whatever
\* authority was held when it arrived.
CancelNeverReleases == [][CancelOutcome => hold' = hold]_vars

\* A terminal, halted or closed order never trades again: it stays as it is, or
\* halts on late money, or an unmatched submission is closed.
FrozenStaysFrozen ==
    [][is_restart_frozen(state) =>
         \/ state' = state
         \/ state'.kind = "Halted"
         \/ state.kind = "UnknownNoMatch" /\ state'.kind = "SubmissionClosed"]_vars
=============================================================================
