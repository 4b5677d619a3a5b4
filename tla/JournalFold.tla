----------------------------- MODULE JournalFold -----------------------------
(***************************************************************************)
(* rebuild_ctx_from_journal of lifecycle.rs: the crash-restart fold of the *)
(* durable records into a context.                                         *)
(*                                                                         *)
(* The rebuild is a left fold, so the context it would return for the      *)
(* journal written so far can be carried along and advanced by the records *)
(* of each step: [ok, ctx] is that context, with ok = FALSE once a record  *)
(* made the rebuild return Err (it stops there).  Of the records that the  *)
(* fold ignores only OwnActionCid is represented (not SubmitPrepared,      *)
(* SubmitStarted, SubmitUnknownCid, Halted, the *Cid no-match records).    *)
(***************************************************************************)
EXTENDS OrderCtx, Sequences

\* JournalRecord: the variants with an effect on the rebuilt context.
SubmitResponseRecord(v, r) == [rec |-> "SubmitResponse", venue |-> v, response |-> r]
FillRecordCid(f) == [rec |-> "FillCid", fill |-> f]
FeeCorrectionRecord(f) == [rec |-> "FeeCorrection", id |-> f.id, delta |-> f.fee]
CancelRecord == [rec |-> "CancelCid"]
OwnActionRecord == [rec |-> "OwnActionCid"]
UnattributedRecord(v, r) ==
    [rec |-> "ImmediateFillUnattributed", venue |-> v, response |-> r]
VenueBoundRecord(v) == [rec |-> "VenueBoundCid", venue |-> v]
ObligationRaisedRecord(c) ==
    [rec |-> "ObligationRaised", obligation |-> c.fill_obligation,
     epoch |-> c.authority_epoch]
AuthorityLatchedRecord(c) ==
    [rec |-> "AuthorityLatched", epoch |-> c.authority_epoch]
AuthorityInvalidatedRecord(c) ==
    [rec |-> "AuthorityInvalidated", epoch |-> c.authority_epoch]
ReconcileObservedRecord(c, v, filled, remaining, others, complete) ==
    [rec |-> "ReconcileObserved", venue |-> v, filled |-> filled,
     remaining |-> remaining, others |-> others, complete |-> complete,
     epoch |-> c.authority_epoch]
OrderTerminalRecord(c) ==
    [rec |-> "OrderTerminal", venue |-> c.venue_order_id,
     obligation |-> c.fill_obligation, complete |-> authority_is_fresh(c),
     epoch |-> c.authority_epoch, qty |-> c.attributed_fill_qty,
     fee |-> c.attributed_fee]

-----------------------------------------------------------------------------
MaxOf(a, b) == IF a > b THEN a ELSE b

EpochAtLeast(c, e) == [c EXCEPT !.authority_epoch = MaxOf(e, @)]

Ok(c) == [ok |-> TRUE, ctx |-> c]
Err(c) == [ok |-> FALSE, ctx |-> c]

\* Mutant: a record that binds an already bound order again is an error.
AfterFirstBind(c, v, result) == IF c.venue_order_id # None THEN Err(c) ELSE result

\* A record that binds the venue first: the rebuild stops if the bind fails.
AfterBind(c, v, result) == IF BindError(c, v) # None THEN Err(c) ELSE result

\* A record that then restores an obligation: fails above the order quantity.
AfterRestore(c, obligation, result) == IF obligation > Qty THEN Err(c) ELSE result

FoldSubmitResponse(c, r) ==
    LET bound == note_venue_remaining(Bind(c, r.venue), r.response.remaining_count)
        snapped == [bound EXCEPT !.response = r.response]
    IN AfterBind(c, r.venue,
         IF r.response.fill_count = 0 THEN Ok(bound)
         ELSE AfterRestore(snapped, r.response.fill_count,
                Ok(recompute_response_domain(
                     restore_fill_obligation(snapped, r.response.fill_count)))))

\* try_account_fill_for_fold: booked without touching the authority, and
\* without the domain-overfill halt of the live path.
FoldFill(c, f) ==
    LET booked == BookFill(c, f)
    IN IF FillError(c, f) # None THEN Err(c)
       ELSE IF c.applied_fills[f.id] # None THEN Ok(EnrichFill(c, f))
       ELSE Ok(accumulate_response_domain(
                 restore_fill_obligation(booked, booked.attributed_fill_qty),
                 PayloadOf(f)))

\* Mutant: the fee delta is added even if the FillCid already carried the fee.
FoldFeeTwice(c, r) ==
    IF c.applied_fills[r.id] = None THEN Ok(c)
    ELSE IF c.attributed_fee + r.delta > U64Max THEN Err(c)
    ELSE Ok([c EXCEPT !.attributed_fee = @ + r.delta,
                      !.applied_fills[r.id].fee = r.delta])

\* Only a journal whose FillCid does not carry the late fee needs the delta.
FoldFeeCorrection(c, r) ==
    LET p == c.applied_fills[r.id] IN
    IF p = None \/ p.fee # None THEN Ok(c)
    ELSE IF c.attributed_fee + r.delta > U64Max THEN Err(c)
    ELSE Ok([c EXCEPT !.attributed_fee = @ + r.delta,
                      !.applied_fills[r.id].fee = r.delta])

FoldUnattributed(c, r) ==
    LET snapped == [Bind(c, r.venue) EXCEPT
                      !.response = [r.response EXCEPT !.boundary = c.response.boundary],
                      !.last_venue_remaining_qty = r.response.remaining_count]
    IN AfterBind(c, r.venue,
         AfterRestore(snapped, r.response.fill_count,
           Ok(restore_fill_obligation(snapped, r.response.fill_count))))

FoldObligationRaised(c, r) ==
    LET raised == EpochAtLeast(restore_fill_obligation(c, r.obligation), r.epoch)
    IN AfterRestore(c, r.obligation,
         Ok(IF raised.attributed_fill_qty < raised.fill_obligation
            THEN [raised EXCEPT !.authority_complete = FALSE] ELSE raised))

\* The snapshot of a report; the member frame is the raw venue quantity less
\* what other members of the wire have filled.
FoldReconcileObserved(c, r) ==
    LET seen == EpochAtLeast(note_venue_remaining(Bind(c, r.venue), r.remaining),
                             r.epoch)
        member == r.filled - r.others
        restored == restore_fill_obligation(seen, member)
    IN AfterBind(c, r.venue,
         IF r.others > r.filled \/ r.others > Qty THEN Err(seen)
         ELSE IF member > Qty THEN Ok(seen)
         ELSE IF r.complete THEN Ok(latch_authority_complete(restored))
         ELSE IF restored.attributed_fill_qty < restored.fill_obligation
         THEN Ok([restored EXCEPT !.authority_complete = FALSE])
         ELSE Ok(restored))

FoldOrderTerminal(c, r) ==
    LET bound == IF r.venue = None THEN c ELSE Bind(c, r.venue)
        restored == EpochAtLeast(restore_fill_obligation(bound, r.obligation), r.epoch)
        latched == IF r.complete
                   THEN [restored EXCEPT !.authority_complete = TRUE,
                                         !.authority_latched_epoch = r.epoch]
                   ELSE restored
    IN IF r.venue # None /\ BindError(c, r.venue) # None THEN Err(c)
       ELSE AfterRestore(bound, r.obligation,
              Ok([latched EXCEPT !.attributed_fill_qty = MaxOf(r.qty, @),
                                 !.attributed_fee = MaxOf(r.fee, @)]))

FoldRecord(c, r) ==
    CASE r.rec = "SubmitResponse" -> FoldSubmitResponse(c, r)
      [] r.rec = "FillCid" -> FoldFill(c, r.fill)
      [] r.rec = "FeeCorrection" -> FoldFeeCorrection(c, r)
      [] r.rec = "CancelCid" ->
           Ok(IF c.authority_complete THEN invalidate_authority(c) ELSE c)
      [] r.rec = "ImmediateFillUnattributed" -> FoldUnattributed(c, r)
      [] r.rec = "VenueBoundCid" -> AfterBind(c, r.venue, Ok(Bind(c, r.venue)))
      [] r.rec = "ObligationRaised" -> FoldObligationRaised(c, r)
      [] r.rec = "AuthorityLatched" ->
           Ok([EpochAtLeast(c, r.epoch) EXCEPT !.authority_complete = TRUE,
                                               !.authority_latched_epoch = r.epoch])
      [] r.rec = "AuthorityInvalidated" ->
           Ok([EpochAtLeast(c, r.epoch) EXCEPT !.authority_complete = FALSE])
      [] r.rec = "ReconcileObserved" -> FoldReconcileObserved(c, r)
      [] r.rec = "OrderTerminal" -> FoldOrderTerminal(c, r)
      [] OTHER -> Ok(c)

\* for rec in records { ... }, over the records log appended to the journal that
\* d is the rebuild of.
rebuild_ctx_from_journal(d, log) ==
    LET after[n \in 0..Len(log)] ==
          IF n = 0 THEN d
          ELSE IF after[n - 1].ok THEN FoldRecord(after[n - 1].ctx, log[n])
          ELSE after[n - 1]
    IN after[Len(log)]
=============================================================================
