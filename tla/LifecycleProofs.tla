--------------------------- MODULE LifecycleProofs ---------------------------
(***************************************************************************)
(* Lifecycle preserves its accounting and its release gates, and never     *)
(* takes back evidence, for every order quantity, every set of fills,      *)
(* venue ids, pages, responses and reports.                                *)
(*                                                                         *)
(* OrderMachineProofs shows what each handler keeps; StepInv carries that  *)
(* over to the state, and NextInv goes through the events.                 *)
(*                                                                         *)
(* The second half shows that a restart loses nothing: the journal that    *)
(* each handler leaves rebuilds into the context it has in memory, or the  *)
(* handler halts the order.                                                *)
(***************************************************************************)
EXTENDS Lifecycle, OrderMachineProofs

-----------------------------------------------------------------------------
(* The inductive invariant                                                 *)

\* Where the handler of the next event starts: the requests of the state stand
\* until it moves on, unless the event is their answer.  A halt may come before the
\* domain sums are brought up to date.
Here(answer) == [ctx |-> ctx, fills |-> FillRecord,
                 standing |-> IF answer THEN {} ELSE {state.kind},
                 exact |-> state.kind # "Halted"]

IInv ==
    /\ CtxInv(ctx)
    /\ StateInv(state, ctx)
    /\ ledger = [qty |-> ctx.attributed_fill_qty, fee |-> ctx.attributed_fee]
    /\ asks \subseteq Requests
    /\ AskedFor(state.kind, asks)
    /\ HoldAgrees
    /\ state.kind \in Terminals => Gates(ctx, state.kind)
    /\ state.kind # "Halted" => Exact(ctx)
    /\ state.kind = "SubmissionClosed" => ~ submission_close_blocked(ctx)

\* The initial state satisfies it.
LEMMA InitInv == Init => IInv
  <1> SUFFICES ASSUME Init PROVE IInv
    OBVIOUS
  <1>1. CtxInv(ctx) /\ Exact(ctx)
    BY NewCtx DEF Init
  <1>2. StateInv(state, ctx) /\ state.kind = "New"
    <2>1. "New" \in Kinds \ (LiveKinds \cup PendingKinds \cup {"ImmediateFillUnattributed"})
          /\ None \in Opt(HaltReason \cup CloseReasons)
      BY DEF Kinds, LiveKinds, PendingKinds, Opt
    <2> QED BY <2>1, PlainInv DEF Init
  <1>3. /\ ledger = [qty |-> ctx.attributed_fill_qty, fee |-> ctx.attributed_fee]
        /\ asks \subseteq Requests
    BY DEF Init, new_ctx
  <1>4. HoldAgrees /\ state.kind \notin Terminals
    BY <1>2 DEF Init, HoldAgrees, reservation_held, Terminals
  <1>5. AskedFor(state.kind, asks)
    BY <1>2 DEF AskedFor
  <1> QED BY <1>1, <1>2, <1>3, <1>4, <1>5 DEF IInv

\* A handler starts from a sound work record.
LEMMA NowInv ==
  ASSUME IInv, NEW answer \in BOOLEAN
  PROVE  /\ WorkInv(Here(answer), Now) /\ Now.ctx = ctx /\ StateInv(state, Now.ctx)
         /\ Here(answer).ctx = ctx /\ Here(answer).fills = FillRecord
         /\ Here(answer).standing = IF answer THEN {} ELSE {state.kind}
         /\ Here(answer).exact <=> state.kind # "Halted"
  <1> DEFINE g == Here(answer)
  <1>3. /\ g.ctx = ctx /\ g.fills = FillRecord
        /\ g.standing = IF answer THEN {} ELSE {state.kind}
        /\ g.exact <=> state.kind # "Halted"
    BY DEF Here
  <1> HIDE DEF g
  <1>1. Since(g, ctx)
    BY <1>3, SinceStart DEF IInv, CtxInv
  <1>2. WorkTyped(Now) /\ Now.ctx = ctx /\ Traced(g, Now)
    BY <1>3, NoWorkTyped DEF Now, Traced, BindMarks
  <1>4. BooksMatch(g, Now)
    <2>1. ctx.attributed_fill_qty \in Nat /\ ctx.attributed_fee \in Nat
      BY QtyAssumption DEF IInv, CtxInv, CtxBase, CtxTyped
    <2>2. Now.qty = 0 /\ Now.fee = 0
      BY DEF Now, NoWork
    <2> QED BY <1>2, <1>3, <2>1, <2>2 DEF BooksMatch
  <1>5. Claimed(g, ctx)
    BY <1>3 DEF IInv, Claimed
  <1> QED BY <1>1, <1>2, <1>3, <1>4, <1>5 DEF IInv, WorkInv, g

\* More requests serve as well.
LEMMA AskedMore ==
  ASSUME NEW kind, NEW A, NEW B, AskedFor(kind, A), A \subseteq B
  PROVE  AskedFor(kind, B)
  BY DEF AskedFor

\* The shell has the requests the new state needs, new or still unanswered.
LEMMA AskedStep ==
  ASSUME IInv, NEW answer \in BOOLEAN, NEW kind, NEW S,
         kind \in Here(answer).standing \/ AskedFor(kind, S)
  PROVE  AskedFor(kind, (IF answer \/ kind # state.kind THEN {} ELSE asks) \cup S)
  <1> DEFINE A == (IF answer \/ kind # state.kind THEN {} ELSE asks) \cup S
  <1>1. CASE AskedFor(kind, S)
    <2>1. S \subseteq A
      OBVIOUS
    <2> QED BY <1>1, <2>1, AskedMore
  <1>2. CASE kind \in Here(answer).standing
    <2>1. ~ answer /\ kind = state.kind
      BY <1>2, NowInv
    <2>2. asks \subseteq A
      BY <2>1
    <2>3. AskedFor(kind, asks)
      BY <2>1 DEF IInv
    <2> QED BY <2>2, <2>3, AskedMore
  <1> QED BY <1>1, <1>2

\* The shell books what the context gained.
LEMMA LedgerInv ==
  ASSUME IInv, NEW c, NEW q, NEW e,
         c.attributed_fill_qty = ctx.attributed_fill_qty + q,
         c.attributed_fee = ctx.attributed_fee + e
  PROVE  [qty |-> ledger.qty + q, fee |-> ledger.fee + e]
           = [qty |-> c.attributed_fill_qty, fee |-> c.attributed_fee]
  BY DEF IInv

\* The effects of a handler that was not called on a terminal or halted order.
LEMMA StepInv ==
  ASSUME IInv, state.kind \notin Terminals \cup {"Halted"}, NEW o, NEW answer \in BOOLEAN,
         OutcomeInv(Here(answer), o), Step(o, answer)
  PROVE  IInv' /\ Grows(ctx, ctx')
  <1>1. /\ state' = o.state /\ ctx' = o.work.ctx
        /\ ledger' = [qty |-> ledger.qty + o.work.qty, fee |-> ledger.fee + o.work.fee]
        /\ hold' = (CASE o.work.hold = "ReleaseReservation" -> "Released"
                      [] o.work.hold = "ReserveFull" -> "Full"
                      [] OTHER -> hold)
        /\ asks' = (IF answer \/ o.state.kind # state.kind THEN {} ELSE asks) \cup o.work.asks
    BY DEF Step
  <1>2. CtxInv(ctx') /\ StateInv(state', ctx')
    BY <1>1 DEF OutcomeInv, Effects
  <1>8. Grows(ctx, ctx')
    BY <1>1, NowInv DEF OutcomeInv, Effects, Since
  <1>3. ledger' = [qty |-> ctx'.attributed_fill_qty, fee |-> ctx'.attributed_fee]
    BY <1>1, NowInv, LedgerInv DEF OutcomeInv, Effects, BooksMatch
  <1>4. asks' \subseteq Requests
    BY <1>1 DEF IInv, OutcomeInv, Effects
  <1>9. AskedFor(state'.kind, asks')
    BY <1>1, AskedStep DEF OutcomeInv, Driven
  <1>10. state'.kind # "Halted" => Exact(ctx')
    BY <1>1, NowInv DEF OutcomeInv, Claimed
  <1>5. hold = "Full"
    BY DEF IInv, HoldAgrees, reservation_held
  <1>6. CASE o.state.kind \in Terminals
    <2>1. hold' = "Released" /\ Gates(ctx', state'.kind)
      BY <1>1, <1>6 DEF OutcomeInv
    <2>2. HoldAgrees'
      BY <1>1, <1>6, <2>1 DEF HoldAgrees, reservation_held, Terminals
    <2>3. state'.kind # "SubmissionClosed"
      BY <1>1, <1>6 DEF Terminals
    <2> QED BY <1>2, <1>3, <1>4, <1>8, <1>9, <1>10, <2>1, <2>2, <2>3 DEF IInv
  <1>7. CASE o.state.kind \notin Terminals
    <2>1. hold' = "Full" /\ state'.kind # "SubmissionClosed"
      BY <1>1, <1>5, <1>7 DEF OutcomeInv
    <2>2. HoldAgrees'
      BY <1>1, <1>7, <2>1 DEF HoldAgrees, reservation_held
    <2> QED BY <1>1, <1>2, <1>3, <1>4, <1>7, <1>8, <1>9, <1>10, <2>1, <2>2 DEF IInv
  <1> QED BY <1>6, <1>7, <1>8

\* A step that changes nothing of state, context and reservation.
LEMMA IdleStepInv ==
  ASSUME IInv, Step(accept(state, Now), FALSE)
  PROVE  IInv' /\ Grows(ctx, ctx')
  <1>1. /\ state' = state /\ ctx' = ctx /\ hold' = hold
        /\ ledger' = [qty |-> ledger.qty + 0, fee |-> ledger.fee + 0]
        /\ asks' = asks
    BY DEF Step, accept, Now, NoWork
  <1>2. Grows(ctx, ctx')
    BY <1>1, GrowsReflexive DEF IInv, CtxInv, Quiet
  <1>3. ledger' = ledger
    BY <1>1 DEF IInv, CtxInv, CtxBase, CtxTyped
  <1> QED BY <1>1, <1>2, <1>3 DEF IInv, HoldAgrees

\* A fill on a frozen order: late metadata leaves the release gates as they are,
\* late money halts the order and takes the reservation back.
LEMMA FrozenFillInv ==
  ASSUME IInv, is_restart_frozen(state), NEW f \in FillRecord,
         Step(restart_safe_fill(state, Now, f), FALSE)
  PROVE  IInv' /\ Grows(ctx, ctx')
  <1> DEFINE a == account_fill_core(Now, f)
             x == a.work
             held == IF reservation_held(state) = "Released"
                     THEN [x EXCEPT !.hold = "ReserveFull"] ELSE x
             reason == IF a.tag = "Halt" THEN a.reason ELSE "PostTerminalFill"
             o == restart_safe_fill(state, Now, f)
  <1>0. o = IF a.tag \in {"NoOp", "Enriched"} THEN accept(state, x)
            ELSE halt_with_reason(reason, held)
    BY DEF restart_safe_fill, AfterFrozenFill
  <1>6. state.kind = "SubmissionClosed" => a.tag \notin {"NoOp", "Enriched"}
    <2>1. state.kind = "SubmissionClosed" => ctx.applied_fills[f.id] = None
      BY DEF IInv, submission_close_blocked, AppliedIds, FillRecord
    <2>2. Now.ctx = ctx
      BY NowInv
    <2>3. ApplyFill(Now, f).tag \in {"Halt", "Applied"}
      BY DEF ApplyFill, Attempt
    <2> QED BY <2>1, <2>2, <2>3 DEF account_fill_core, Attempt
  <1>1. AttemptInv(Here(FALSE), Now, a)
    BY NowInv, AccountFillInv
  <1>2. WorkInv(Here(FALSE), x) /\ Grows(ctx, x.ctx) /\ CtxInv(x.ctx) /\ CtxInv(ctx)
        /\ x.hold = "Keep" /\ x.qty \in Nat /\ x.fee \in Nat /\ x.asks \subseteq Requests
        /\ x.ctx.attributed_fill_qty = ctx.attributed_fill_qty + x.qty
        /\ x.ctx.attributed_fee = ctx.attributed_fee + x.fee
        /\ (state.kind # "Halted" => Exact(x.ctx))
    BY <1>1, NowInv DEF AttemptInv, Follows, WorkInv, WorkTyped, BooksMatch, Claimed
  <1> HIDE DEF a, o
  <1>3. a.tag \in {"NoOp", "Enriched"} => StateInv(state, x.ctx)
    <2>1. Mirrors(state, ctx)
      BY DEF IInv, StateInv
    <2>2. a.tag \in {"NoOp", "Enriched"} => Mirrors(state, x.ctx)
      BY <1>1, <2>1, NowInv, MirrorsStay DEF AttemptInv, GateFrame
    <2> QED BY <1>2, <2>2, StateGrows DEF IInv, CtxInv
  <1>4. CASE a.tag \in {"NoOp", "Enriched"}
    <2>1. /\ state' = state /\ ctx' = x.ctx /\ hold' = hold
          /\ ledger' = [qty |-> ledger.qty + x.qty, fee |-> ledger.fee + x.fee]
          /\ asks' \subseteq asks \cup x.asks
      BY <1>0, <1>2, <1>4 DEF Step, accept, o
    <2>2. GateFrame(ctx, x.ctx)
      BY <1>1, <1>4, NowInv DEF AttemptInv
    <2>3. state.kind \in Terminals => Gates(x.ctx, state.kind)
      BY <2>2 DEF IInv, Gates, GateFrame, authority_is_fresh, DomainClosed, DomainKnown,
           has_reliable_boundary, response_domain_overfill
    <2>4. ledger' = [qty |-> ctx'.attributed_fill_qty, fee |-> ctx'.attributed_fee]
      BY <1>2, <2>1, LedgerInv
    <2>5. AskedFor(state.kind, asks')
      BY DEF AskedFor, is_restart_frozen, Terminals
    <2> QED BY <1>2, <1>3, <1>4, <1>6, <2>1, <2>3, <2>4, <2>5 DEF IInv, HoldAgrees
  <1>5. CASE a.tag \notin {"NoOp", "Enriched"}
    <2>1. reason \in HaltReason
      BY <1>1 DEF AttemptInv, HaltReason
    <2>2. held.ctx = x.ctx /\ held.qty = x.qty
          /\ held.fee = x.fee /\ held.asks = x.asks
          /\ held.hold = IF reservation_held(state) = "Released" THEN "ReserveFull" ELSE "Keep"
      BY <1>2 DEF WorkInv, WorkTyped
    <2> HIDE DEF held, reason
    <2> DEFINE y == Ask(held, {"HaltNewExposure"})
    <2>3. y.ctx = x.ctx /\ y.qty = x.qty /\ y.fee = x.fee
          /\ y.asks \subseteq Requests
          /\ y.hold = IF reservation_held(state) = "Released" THEN "ReserveFull" ELSE "Keep"
      <3>1. held \in [ctx : {held.ctx}, log : {held.log}, qty : {held.qty},
                      fee : {held.fee}, asks : {held.asks}, hold : {held.hold}]
        BY <1>2 DEF held, WorkInv, WorkTyped
      <3> QED BY <1>2, <2>2, <3>1 DEF Ask, Requests
    <2>4. o = [outcome |-> "Halt", state |-> Halted(reason), work |-> y]
      BY <1>0, <1>5 DEF halt_with_reason, halt_with_reason_state
    <2> HIDE DEF y
    <2>5. /\ state' = Halted(reason) /\ ctx' = x.ctx
          /\ ledger' = [qty |-> ledger.qty + x.qty, fee |-> ledger.fee + x.fee]
          /\ asks' \subseteq Requests
          /\ hold' = IF reservation_held(state) = "Released" THEN "Full" ELSE hold
      BY <2>3, <2>4 DEF Step, o, IInv
    <2>6. StateInv(Halted(reason), x.ctx) /\ Halted(reason).kind = "Halted"
      <3>1. "Halted" \in Kinds \ (LiveKinds \cup PendingKinds \cup {"ImmediateFillUnattributed"})
        BY DEF Kinds, LiveKinds, PendingKinds
      <3> QED BY <2>1, <3>1, PlainInv DEF Halted, Opt
    <2>7. HoldAgrees'
      BY <2>5, <2>6 DEF IInv, HoldAgrees, reservation_held, Terminals
    <2>8. ledger' = [qty |-> ctx'.attributed_fill_qty, fee |-> ctx'.attributed_fee]
      BY <1>2, <2>5, LedgerInv
    <2>9. AskedFor(state'.kind, asks')
      BY <2>5, <2>6 DEF AskedFor
    <2> QED BY <1>2, <2>5, <2>6, <2>7, <2>8, <2>9 DEF IInv, Terminals
  <1> QED BY <1>4, <1>5

\* Every action preserves the invariant.
LEMMA NextInv == IInv /\ [Next]_vars => IInv' /\ Grows(ctx, ctx')
  <1> SUFFICES ASSUME IInv, [Next]_vars PROVE IInv' /\ Grows(ctx, ctx')
    OBVIOUS
  <1> USE DEF Terminals
  <1>0. /\ WorkInv(Here(FALSE), Now) /\ WorkInv(Here(TRUE), Now)
        /\ Now.ctx = ctx /\ StateInv(state, Now.ctx)
        /\ CtxInv(ctx) /\ StateInv(state, ctx)
        /\ Here(TRUE).fills = FillRecord /\ Here(FALSE).fills = FillRecord
        /\ state.kind \in Here(FALSE).standing
    BY NowInv DEF IInv
  <1>1. CASE PrepareSubmit
    <2>1. OutcomeInv(Here(FALSE), accept(Plain("SubmitPrepared"), Now))
      BY <1>0, PlainStates, AcceptInv DEF Driven, AskedFor
    <2> QED BY <1>1, <2>1, StepInv DEF PrepareSubmit
  <1>2. CASE StartSubmit
    <2>1. OutcomeInv(Here(FALSE), accept(Plain("SubmitStarted"), Now))
      BY <1>0, PlainStates, AcceptInv DEF Driven, AskedFor
    <2> QED BY <1>2, <2>1, StepInv DEF StartSubmit
  <1>3. CASE SubmitResponse
    <2>1. PICK r \in Responses : Step(apply_submit_response(Now, r), FALSE)
      BY <1>3 DEF SubmitResponse
    <2>2. OutcomeInv(Here(FALSE), apply_submit_response(Now, r))
      BY <1>0, InputAssumption, SubmitResponseInv
    <2> QED BY <1>3, <2>1, <2>2, StepInv DEF SubmitResponse
  <1>4. CASE SubmitTimeout
    <2>1. WorkInv(Here(FALSE), Ask(Now, {"BackfillUnknown"}))
      BY <1>0, AskWork DEF Requests
    <2>2. OutcomeInv(Here(FALSE), accept(Plain("SubmitUnknown"), Ask(Now, {"BackfillUnknown"})))
      <3>1. "BackfillUnknown" \in Ask(Now, {"BackfillUnknown"}).asks
        BY <1>0 DEF Ask, WorkInv, WorkTyped
      <3>2. \A c : StateInv(Plain("SubmitUnknown"), c) /\ Plain("SubmitUnknown").kind = "SubmitUnknown"
        BY PlainStates
      <3>3. Driven(Here(FALSE), Plain("SubmitUnknown"), Ask(Now, {"BackfillUnknown"}))
        BY <3>1, <3>2 DEF Driven, AskedFor
      <3> QED BY <2>1, <3>2, <3>3, AcceptInv DEF Terminals, Halts
    <2> QED BY <1>4, <2>2, StepInv DEF SubmitTimeout
  <1>5. CASE Fill
    <2>1. PICK f \in Fills : Step(on_fill(state, Now, f), FALSE)
      BY <1>5 DEF Fill
    <2>2. f \in FillRecord
      BY InputAssumption
    <2>3. CASE is_restart_frozen(state)
      BY <2>1, <2>2, <2>3, FrozenFillInv DEF on_fill
    <2>4. CASE ~ is_restart_frozen(state)
      <3>1. state.kind \notin Terminals \cup {"New", "SubmitPrepared", "Halted"}
        BY <1>5, <2>4 DEF Fill, is_restart_frozen
      <3>2. OutcomeInv(Here(FALSE), on_fill(state, Now, f))
        BY <1>0, <2>2, <2>4, <3>1, FillInv
      <3> QED BY <2>1, <3>1, <3>2, StepInv
    <2> QED BY <2>3, <2>4
  <1>6. CASE CancelRequested
    <2>1. /\ state.kind \in LiveKinds \cup {"ImmediateFillUnattributed"}
          /\ Step(request_cancel(state, Now), FALSE)
      BY <1>6 DEF CancelRequested
    <2>2. OutcomeInv(Here(FALSE), request_cancel(state, Now))
      BY <1>0, <2>1, RequestCancelInv
    <2>3. state.kind \notin Terminals \cup {"Halted"}
      BY <2>1 DEF LiveKinds
    <2> QED BY <2>1, <2>2, <2>3, StepInv
  <1>7. CASE CancelRetried
    BY <1>7, IdleStepInv DEF CancelRetried
  <1>8. CASE CancelOutcome
    <2>1. PICK oc \in CancelOutcomes : Step(apply_cancel_outcome(state, Now, oc), FALSE)
      BY <1>8 DEF CancelOutcome
    <2>2. OutcomeInv(Here(FALSE), apply_cancel_outcome(state, Now, oc))
      BY <1>0, <1>8, CancelOutcomeInv DEF CancelOutcome
    <2> QED BY <1>8, <2>1, <2>2, StepInv DEF CancelOutcome
  <1>9. CASE UnknownBackfillNoMatch
    <2>1. OutcomeInv(Here(TRUE), halt_with_reason_state(Plain("UnknownNoMatch"), Now))
      BY <1>0, PlainStates, HaltStateInv
    <2>2. OutcomeInv(Here(TRUE), accept(state, Ask(Now, {"BackfillUnknown"})))
      <3>1. WorkInv(Here(TRUE), Ask(Now, {"BackfillUnknown"})) /\ Ask(Now, {"BackfillUnknown"}).ctx = ctx
        BY <1>0, AskWork DEF Requests
      <3>2. "BackfillUnknown" \in Ask(Now, {"BackfillUnknown"}).asks
        BY <1>0 DEF Ask, WorkInv, WorkTyped
      <3>3. Driven(Here(TRUE), state, Ask(Now, {"BackfillUnknown"}))
        BY <1>9, <3>2 DEF UnknownBackfillNoMatch, Driven, AskedFor
      <3> QED BY <1>0, <1>9, <3>1, <3>3, AcceptInv DEF UnknownBackfillNoMatch, Terminals, Halts
    <2>3. OutcomeInv(Here(TRUE), halt_with_reason("AmbiguousMatch", Now))
      BY <1>0, HaltInv DEF HaltReason
    <2>4. \E o : OutcomeInv(Here(TRUE), o) /\ Step(o, TRUE)
      BY <1>9, <2>1, <2>2, <2>3 DEF UnknownBackfillNoMatch
    <2> QED BY <1>9, <2>4, StepInv DEF UnknownBackfillNoMatch
  <1>10. CASE UnknownBackfillMatch
    <2>1. PICK rep \in Reports, page \in Pages, exhaustive \in BOOLEAN :
             rep.venue # None /\ Step(MatchedBackfill(Now, exhaustive, rep, page), TRUE)
      BY <1>10 DEF UnknownBackfillMatch
    <2>2. rep \in Report /\ page \in Seq(Here(TRUE).fills)
      BY <1>0, InputAssumption
    <2>3. OutcomeInv(Here(TRUE), MatchedBackfill(Now, exhaustive, rep, page))
      BY <1>0, <2>1, <2>2, MatchedInv
    <2> QED BY <1>10, <2>1, <2>3, StepInv DEF UnknownBackfillMatch
  <1>11. CASE ImmediateFillBackfillResult
    <2>1. PICK page \in Pages : Step(apply_immediate_fill_backfill(state, Now, page), TRUE)
      BY <1>11 DEF ImmediateFillBackfillResult
    <2>2. page \in Seq(Here(TRUE).fills)
      BY <1>0, InputAssumption
    <2>3. OutcomeInv(Here(TRUE), apply_immediate_fill_backfill(state, Now, page))
      BY <1>0, <1>11, <2>2, ImmediateBackfillInv DEF ImmediateFillBackfillResult
    <2> QED BY <1>11, <2>1, <2>3, StepInv DEF ImmediateFillBackfillResult
  <1>12. CASE BackfillDeadlineElapsed
    <2>1. OutcomeInv(Here(FALSE), halt_with_reason_state(Plain("ImmediateFillUnresolved"), Now))
      BY <1>0, PlainStates, HaltStateInv
    <2> QED BY <1>12, <2>1, StepInv DEF BackfillDeadlineElapsed
  <1>13. CASE RequestResubmit
    <2>1. OutcomeInv(Here(FALSE), halt_with_reason("UnprovenIdempotentResubmit", Now))
      BY <1>0, HaltInv DEF HaltReason
    <2> QED BY <1>13, <2>1, StepInv DEF RequestResubmit
  <1>14. CASE ReconcileResult
    <2>1. PICK rep \in Reports, page \in Pages, complete \in BOOLEAN :
             Step(ReconcileReport(state, Now, rep, page, complete), TRUE)
      BY <1>14 DEF ReconcileResult
    <2>2. rep \in Report /\ page \in Seq(Here(TRUE).fills)
      BY <1>0, InputAssumption
    <2>3. OutcomeInv(Here(TRUE), ReconcileReport(state, Now, rep, page, complete))
      BY <1>0, <1>14, <2>2, ReconcileReportInv DEF ReconcileResult
    <2>4. state.kind \notin Terminals \cup {"Halted"}
      BY <1>14 DEF ReconcileResult, PendingKinds
    <2> QED BY <2>1, <2>3, <2>4, StepInv
  <1>15. CASE UserOrderRestingClaim
    <2> DEFINE bound(v) == bind_venue_id(Now, v)
               noted(v, n) == [bound(v) EXCEPT !.ctx = note_venue_remaining(bound(v).ctx, n)]
    <2>1. PICK claim \in RestingClaims :
            Step(IF BindError(ctx, claim[1]) # None
                 THEN halt_with_reason(BindError(ctx, claim[1]), Now)
                 ELSE accept(Accepted(claim[1]), noted(claim[1], claim[2])), FALSE)
      BY <1>15 DEF UserOrderRestingClaim
    <2>2. claim[1] \in Venues /\ claim[2] \in Nat
      BY InputAssumption
    <2>3. CASE BindError(ctx, claim[1]) # None
      <3>1. BindError(ctx, claim[1]) \in HaltReason
        BY <2>3 DEF BindError, HaltReason
      <3>2. OutcomeInv(Here(FALSE), halt_with_reason(BindError(ctx, claim[1]), Now))
        BY <1>0, <3>1, HaltInv
      <3> QED BY <1>15, <2>1, <2>3, <3>2, StepInv DEF UserOrderRestingClaim
    <2>4. CASE BindError(ctx, claim[1]) = None
      <3>1. WorkInv(Here(FALSE), bound(claim[1])) /\ Bound(bound(claim[1]), claim[1])
        BY <1>0, <2>2, <2>4, BindWork DEF Follows, Bound
      <3> HIDE DEF bound
      <3>2. WorkInv(Here(FALSE), noted(claim[1], claim[2])) /\ Bound(noted(claim[1], claim[2]), claim[1])
        <4> DEFINE b == bound(claim[1])
                   d == note_venue_remaining(b.ctx, claim[2])
        <4>1. CtxInv(d) /\ Quiet(b.ctx, d) /\ d.venue_order_id = b.ctx.venue_order_id
          BY <2>2, <3>1, NoteRemainingInv DEF WorkInv, Opt
        <4> HIDE DEF d, b
        <4>2. WorkInv(Here(FALSE), [b EXCEPT !.ctx = d]) /\ [b EXCEPT !.ctx = d].ctx = d
          BY <3>1, <4>1, QuietContext DEF b
        <4> QED BY <3>1, <4>1, <4>2 DEF Bound, d, b
      <3> HIDE DEF noted
      <3>3. OutcomeInv(Here(FALSE), accept(Accepted(claim[1]), noted(claim[1], claim[2])))
        <4>1. 0 \in Nat
          OBVIOUS
        <4> QED BY <3>2, <4>1, LiveStatesInv
      <3> QED BY <1>15, <2>1, <2>4, <3>3, StepInv DEF UserOrderRestingClaim
    <2> QED BY <2>3, <2>4
  <1>16. CASE UserOrderTerminalClaim
    <2> DEFINE noted == [Now EXCEPT !.ctx = note_venue_remaining(Now.ctx, 0)]
               x == note_authority_complete(noted, TRUE)
    <2>1. PICK claim \in TerminalClaims :
            /\ ctx.venue_order_id = claim[1]
            /\ \/ Step(try_finalize_terminal(x, Proposed("Filled", claim[2], 0), claim[1], "Filled"),
                       FALSE)
               \/ Step(try_finalize_terminal(x, ProposedCanceled, claim[1], "Canceled"), FALSE)
      BY <1>16 DEF UserOrderTerminalClaim
    <2>2. claim[1] \in Venues /\ claim[2] \in Nat
      BY InputAssumption
    <2>3. WorkInv(Here(FALSE), noted) /\ Bound(noted, claim[1])
      <3> DEFINE d == note_venue_remaining(Now.ctx, 0)
      <3>1. CtxInv(d) /\ Quiet(Now.ctx, d) /\ d.venue_order_id = Now.ctx.venue_order_id
        BY <1>0, NoteRemainingInv DEF WorkInv, Opt
      <3> HIDE DEF d
      <3> DEFINE g == Here(FALSE)
                 w == Now
      <3>3. WorkInv(g, w) /\ Quiet(w.ctx, d)
        BY <1>0, <3>1
      <3> HIDE DEF g, w
      <3>4. WorkInv(g, [w EXCEPT !.ctx = d]) /\ [w EXCEPT !.ctx = d].ctx = d
        BY <3>1, <3>3, QuietContext
      <3>2. WorkInv(Here(FALSE), [Now EXCEPT !.ctx = d]) /\ [Now EXCEPT !.ctx = d].ctx = d
        BY <3>4 DEF g, w
      <3> QED BY <1>0, <2>1, <2>2, <3>1, <3>2 DEF Bound, d
    <2> HIDE DEF noted
    <2>4. WorkInv(Here(FALSE), x) /\ Bound(x, claim[1])
      BY <2>3, AuthorityWork, BoundGrows DEF Follows
    <2> HIDE DEF x
    <2>5. GoodProposal(Proposed("Filled", claim[2], 0)) /\ GoodProposal(ProposedCanceled)
          /\ "Filled" \in Terminals /\ "Canceled" \in Terminals
      BY <2>2 DEF GoodProposal, Proposed, ProposedCanceled, Opt
    <2>6. /\ OutcomeInv(Here(FALSE), try_finalize_terminal(x, Proposed("Filled", claim[2], 0), claim[1], "Filled"))
          /\ OutcomeInv(Here(FALSE), try_finalize_terminal(x, ProposedCanceled, claim[1], "Canceled"))
      BY <2>4, <2>5, TryFinalizeInv
    <2>7. state.kind \notin Terminals \cup {"Halted"}
      BY <1>16 DEF UserOrderTerminalClaim, LiveKinds, PendingKinds
    <2> QED BY <2>1, <2>6, <2>7, StepInv
  <1>17. CASE OwnActionObserved
    BY <1>17, IdleStepInv DEF OwnActionObserved
  <1>18. CASE CloseSubmission
    <2>1. CASE Step(accept(state, Now), FALSE)
      BY <2>1, IdleStepInv
    <2>2. CASE \E reason \in CloseReasons :
                 /\ state.kind \in {"SubmitStarted", "SubmitUnknown", "UnknownNoMatch"}
                 /\ Step(try_close_submission(state, Now, reason), FALSE)
      <3>1. PICK reason \in CloseReasons : Step(try_close_submission(state, Now, reason), FALSE)
        BY <2>2
      <3>2. /\ state' = SubmissionClosed(reason) /\ ctx' = ctx
            /\ hold' = hold /\ asks' \subseteq asks
            /\ ledger' = [qty |-> ledger.qty + 0, fee |-> ledger.fee + 0]
            /\ ~ submission_close_blocked(ctx)
        BY <3>1 DEF Step, try_close_submission, accept, reject, Now, NoWork
      <3>3. StateInv(SubmissionClosed(reason), ctx)
            /\ SubmissionClosed(reason).kind = "SubmissionClosed"
        <4>1. "SubmissionClosed" \in Kinds \ (LiveKinds \cup PendingKinds
                                              \cup {"ImmediateFillUnattributed"})
          BY DEF Kinds, LiveKinds, PendingKinds
        <4> QED BY <4>1, PlainInv DEF SubmissionClosed, Opt
      <3>4. hold = "Full"
        BY <2>2 DEF IInv, HoldAgrees, reservation_held
      <3>5. Grows(ctx, ctx')
        BY <1>0, <3>2, GrowsReflexive DEF CtxInv, Quiet
      <3>6. ledger' = ledger
        BY <1>0, <3>2 DEF IInv, CtxInv, CtxBase, CtxTyped
      <3>7. AskedFor(state'.kind, asks')
        BY <3>2, <3>3 DEF AskedFor
      <3>8. Exact(ctx')
        BY <2>2, <3>2 DEF IInv
      <3> QED BY <3>2, <3>3, <3>4, <3>5, <3>6, <3>7, <3>8 DEF IInv, HoldAgrees
    <2> QED BY <1>18, <2>1, <2>2 DEF CloseSubmission
  <1>19. CASE UNCHANGED vars
    <2>1. Grows(ctx, ctx')
      BY <1>0, <1>19, GrowsReflexive DEF CtxInv, Quiet, vars
    <2> QED BY <1>19, <2>1 DEF vars, IInv, HoldAgrees
  <1> QED BY <1>1, <1>2, <1>3, <1>4, <1>5, <1>6, <1>7, <1>8, <1>9, <1>10, <1>11, <1>12, <1>13,
             <1>14, <1>15, <1>16, <1>17, <1>18, <1>19 DEF Next

\* The invariant gives the properties.
LEMMA InvImplies ==
    IInv => /\ TypeOK /\ EvidenceBounded /\ BooksBalance /\ Ownership
            /\ StateMirrorsCtx /\ DomainByIdentity /\ WaitingIsDriven /\ HoldAgrees
            /\ ReleaseEarned
  <1> SUFFICES ASSUME IInv
               PROVE  /\ TypeOK /\ EvidenceBounded /\ BooksBalance /\ Ownership
                      /\ StateMirrorsCtx /\ DomainByIdentity /\ WaitingIsDriven /\ HoldAgrees
                      /\ ReleaseEarned
    OBVIOUS
  <1>1. hold \in {"Full", "Released"} /\ (hold = "Released" => state.kind \in Terminals)
    BY DEF IInv, HoldAgrees, reservation_held, Terminals
  <1>2. TypeOK
    <2>1. ctx.attributed_fill_qty \in Nat /\ ctx.attributed_fee \in Nat
      BY QtyAssumption DEF IInv, CtxInv, CtxBase, CtxTyped
    <2> QED BY <1>1, <2>1 DEF IInv, TypeOK, CtxInv, CtxBase, StateInv
  <1>3. EvidenceBounded
    BY DEF IInv, EvidenceBounded, CtxInv, CtxBase, StateInv
  <1>4. Ownership
    BY DEF IInv, Ownership, CtxInv, CtxBase, StateInv
  <1>5. ReleaseEarned
    BY <1>1 DEF IInv, ReleaseEarned, Gates
  <1>6. BooksBalance
    BY DEF IInv, BooksBalance, CtxInv, CtxBase, Balanced
  <1>7. StateMirrorsCtx
    BY DEF IInv, StateInv, Mirrors, StateMirrorsCtx
  <1>8. WaitingIsDriven
    BY DEF IInv, AskedFor, WaitingIsDriven
  <1>9. DomainByIdentity
    BY DEF IInv, Exact, DomainByIdentity
  <1> QED BY <1>2, <1>3, <1>4, <1>5, <1>6, <1>7, <1>8, <1>9 DEF IInv

\* The inductive invariant holds in every reachable state.
LEMMA Invariance == Spec => []IInv
  BY InitInv, NextInv, PTL DEF Spec

\* Every state the machine reaches has its type: the context of OrderCtx, the
\* OrderState variants, the booked totals, the reservation and the requests.
THEOREM TypeCorrect == Spec => []TypeOK
  BY Invariance, InvImplies, PTL

\* Attribution never overtakes the obligation nor the obligation the order, for
\* any sequence of fills, responses, reports and claims.
THEOREM EvidenceSafe == Spec => []EvidenceBounded
  BY Invariance, InvImplies, PTL

\* The totals of the context, and what the shell booked, are the sums over the
\* distinct fills applied, for any sequence of deliveries and redeliveries.
THEOREM BooksSafe == Spec => []BooksBalance
  BY Invariance, InvImplies, PTL

\* A bound order never holds a fill of another venue order, and its state never
\* names another venue id.
THEOREM OwnershipSafe == Spec => []Ownership
  BY Invariance, InvImplies, PTL

\* What a pending state copies out of the context is never stale when a later
\* cancel outcome or fill reads it back.
THEOREM MirrorSafe == Spec => []StateMirrorsCtx
  BY Invariance, InvImplies, PTL

\* The sums of the response domain, kept up to date as fills, late fees and the
\* response arrive, are those of the fills inside its boundary, in any order.
THEOREM DomainSafe == Spec => []DomainByIdentity
  BY Invariance, InvImplies, PTL

\* An order never waits for the shell without a request the shell still owes an
\* answer to, whatever fills, outcomes and reports come in between.
THEOREM DrivenSafe == Spec => []WaitingIsDriven
  BY Invariance, InvImplies, PTL

\* The reservation the effects leave behind is the one the state claims.
THEOREM HoldSafe == Spec => []HoldAgrees
  BY Invariance, InvImplies, PTL

\* The reservation is free only while every gate of try_finalize_terminal holds.
THEOREM ReleaseSafe == Spec => []ReleaseEarned
  BY Invariance, InvImplies, PTL

\* What a fill or a report established is never taken back.
THEOREM EvidenceGrows == Spec => EvidenceMonotone
  <1> DEFINE A == /\ ctx'.fill_obligation >= ctx.fill_obligation
                  /\ ctx'.authority_epoch >= ctx.authority_epoch
                  /\ ctx.venue_order_id # None => ctx'.venue_order_id = ctx.venue_order_id
                  /\ \A f \in AppliedIds(ctx) :
                       LET old == ctx.applied_fills[f]
                           new == ctx'.applied_fills[f]
                       IN /\ new # None
                          /\ new.qty = old.qty /\ new.price = old.price /\ new.ts = old.ts
                          /\ old.fee # None => new.fee = old.fee
                          /\ old.venue # None => new.venue = old.venue
  <1>1. IInv /\ [Next]_vars => [A]_vars
    BY NextInv DEF Grows, Kept, AppliedIds
  <1>2. [][A]_vars => EvidenceMonotone
    BY DEF EvidenceMonotone
  <1> HIDE DEF A
  <1> QED BY <1>1, <1>2, Invariance, PTL DEF Spec

\* The answer to a cancel never frees the reservation: it leaves the fill
\* authority incomplete, so no gate of try_finalize_terminal can be open on it.
THEOREM CancelSafe == Spec => CancelNeverReleases
  <1> DEFINE A == CancelOutcome => hold' = hold
  <1>1. IInv /\ [Next]_vars => [A]_vars
    <2> SUFFICES ASSUME IInv, CancelOutcome
                 PROVE  hold' = hold
      OBVIOUS
    <2>1. /\ WorkInv(Here(FALSE), Now) /\ StateInv(state, Now.ctx) /\ state.kind = "CancelPending"
      BY NowInv DEF CancelOutcome, IInv, Now
    <2>2. PICK oc \in CancelOutcomes : Step(apply_cancel_outcome(state, Now, oc), FALSE)
      BY DEF CancelOutcome
    <2> DEFINE o == apply_cancel_outcome(state, Now, oc)
    <2>3. OutcomeInv(Here(FALSE), o) /\ ~ o.work.ctx.authority_complete
      BY <2>1, CancelOutcomeInv
    <2>4. Step(o, FALSE)
      BY <2>2
    <2> HIDE DEF o
    <2>5. o.work.hold = "Keep"
      BY <2>3 DEF OutcomeInv, Gates, authority_is_fresh
    <2> QED BY <2>4, <2>5 DEF Step
  <1>2. [][A]_vars => CancelNeverReleases
    BY DEF CancelNeverReleases
  <1> HIDE DEF A
  <1> QED BY <1>1, <1>2, Invariance, PTL DEF Spec

\* A terminal, halted or closed order stays as it is, halts on late money, or,
\* when no venue order matched it, is closed: no event revives it.
THEOREM FrozenSafe == Spec => FrozenStaysFrozen
  <1> DEFINE A == is_restart_frozen(state) =>
                    \/ state' = state
                    \/ state'.kind = "Halted"
                    \/ state.kind = "UnknownNoMatch" /\ state'.kind = "SubmissionClosed"
  <1>1. [Next]_vars => [A]_vars
    <2> SUFFICES ASSUME Next, is_restart_frozen(state)
                 PROVE  \/ state' = state
                        \/ state'.kind = "Halted"
                        \/ state.kind = "UnknownNoMatch" /\ state'.kind = "SubmissionClosed"
      BY DEF vars
    <2>1. state.kind \in Terminals \cup {"ImmediateFillUnresolved", "UnknownNoMatch", "Halted",
                                         "SubmissionClosed"}
      BY DEF is_restart_frozen
    <2>2. Fill \/ OwnActionObserved \/ CloseSubmission
      BY <2>1 DEF Next, Terminals, LiveKinds, PendingKinds, PrepareSubmit, StartSubmit,
           SubmitResponse, SubmitTimeout, CancelRequested, CancelRetried, CancelOutcome,
           UnknownBackfillNoMatch, UnknownBackfillMatch, ImmediateFillBackfillResult,
           BackfillDeadlineElapsed, RequestResubmit, ReconcileResult, UserOrderRestingClaim,
           UserOrderTerminalClaim
    <2>3. CASE Fill
      <3>1. PICK f \in Fills : Step(restart_safe_fill(state, Now, f), FALSE)
        BY <2>3 DEF Fill, on_fill
      <3> DEFINE o == restart_safe_fill(state, Now, f)
      <3>2. o.state = state \/ o.state.kind = "Halted"
        BY DEF restart_safe_fill, AfterFrozenFill, accept, halt_with_reason, halt_with_reason_state, Halted, Plain
      <3> QED BY <3>1, <3>2 DEF Step
    <2>4. CASE OwnActionObserved
      BY <2>4 DEF OwnActionObserved, Step, accept
    <2>5. CASE CloseSubmission
      <3>1. CASE Step(accept(state, Now), FALSE)
        BY <3>1 DEF Step, accept
      <3>2. CASE /\ state.kind \in {"SubmitStarted", "SubmitUnknown", "UnknownNoMatch"}
                 /\ \E reason \in CloseReasons :
                      Step(try_close_submission(state, Now, reason), FALSE)
        <4>1. PICK reason : Step(try_close_submission(state, Now, reason), FALSE)
          BY <3>2
        <4>2. state'.kind = "SubmissionClosed"
          BY <4>1 DEF Step, try_close_submission, accept, reject, SubmissionClosed, Plain
        <4>3. state.kind = "UnknownNoMatch"
          BY <2>1, <3>2 DEF Terminals
        <4> QED BY <4>2, <4>3
      <3> QED BY <2>5, <3>1, <3>2 DEF CloseSubmission
    <2> QED BY <2>2, <2>3, <2>4, <2>5
  <1>2. [][A]_vars => FrozenStaysFrozen
    BY DEF FrozenStaysFrozen
  <1> HIDE DEF A
  <1> QED BY <1>1, <1>2, PTL DEF Spec

-----------------------------------------------------------------------------
(* The rebuild, record by record                                           *)

\* What one more record makes of a rebuild.
Advance(e, r) == IF e.ok THEN FoldRecord(e.ctx, r) ELSE e

\* f is the rebuild after each of the first n records.
Refold(d, log, n, f) == f = [i \in 0..n |-> IF i = 0 THEN d ELSE Advance(f[i - 1], log[i])]

\* The rebuild of n records depends on these records only.
LEMMA RefoldUnique ==
  ASSUME NEW d, NEW n \in Nat, NEW log, NEW other, \A i \in 1..n : other[i] = log[i],
         NEW f, Refold(d, log, n, f), NEW g, Refold(d, other, n, g)
  PROVE  \A i \in 0..n : f[i] = g[i]
  <1> DEFINE Bad == {i \in 0..n : f[i] # g[i]}
  <1>1. \A i \in 0..n : /\ f[i] = IF i = 0 THEN d ELSE Advance(f[i - 1], log[i])
                        /\ g[i] = IF i = 0 THEN d ELSE Advance(g[i - 1], other[i])
    BY DEF Refold
  <1> SUFFICES ASSUME Bad # {}
               PROVE  FALSE
    OBVIOUS
  <1>2. Bad \in SUBSET Nat
    OBVIOUS
  <1> HIDE DEF Bad
  <1>3. PICK m \in Bad : \A k \in Bad : m <= k
    BY <1>2, Least
  <1>4. m \in 0..n /\ f[m] # g[m]
    BY <1>3 DEF Bad
  <1>5. m # 0
    BY <1>1, <1>4
  <1>6. m - 1 \in 0..n /\ m \in 1..n /\ ~ (m <= m - 1)
    BY <1>4, <1>5
  <1>7. f[m - 1] = g[m - 1]
    BY <1>3, <1>6 DEF Bad
  <1> QED BY <1>1, <1>4, <1>5, <1>6, <1>7

\* It exists, for every number of records.
LEMMA RefoldExists ==
  ASSUME NEW d, NEW log, NEW n \in Nat
  PROVE  \E f : Refold(d, log, n, f)
  <1> DEFINE Bad == {m \in Nat : ~ \E f : Refold(d, log, m, f)}
  <1> SUFFICES ASSUME n \in Bad
               PROVE  FALSE
    OBVIOUS
  <1>1. PICK m \in Bad : \A k \in Bad : m <= k
    BY Least
  <1>2. m # 0
    <2> DEFINE f == [i \in 0..0 |-> d]
    <2>1. f = [i \in 0..0 |-> IF i = 0 THEN d ELSE Advance(f[i - 1], log[i])]
      OBVIOUS
    <2> HIDE DEF f
    <2>2. Refold(d, log, 0, f)
      BY <2>1 DEF Refold
    <2> QED BY <1>1, <2>2
  <1>3. m - 1 \in Nat /\ m - 1 \notin Bad
    BY <1>1, <1>2
  <1>4. PICK g : Refold(d, log, m - 1, g)
    BY <1>3
  <1> DEFINE f == [i \in 0..m |-> IF i = 0 THEN d ELSE Advance(g[i - 1], log[i])]
  <1>5. \A i \in 0..(m - 1) : f[i] = g[i]
    <2>1. \A i \in 0..(m - 1) : g[i] = IF i = 0 THEN d ELSE Advance(g[i - 1], log[i])
      BY <1>4 DEF Refold
    <2>2. \A i \in 0..(m - 1) : i \in 0..m
      BY <1>1
    <2> QED BY <2>1, <2>2
  <1>6. \A i \in 0..m : i # 0 => i - 1 \in 0..(m - 1)
    BY <1>1
  <1>7. f = [i \in 0..m |-> IF i = 0 THEN d ELSE Advance(f[i - 1], log[i])]
    <2>1. \A i \in 0..m : (IF i = 0 THEN d ELSE Advance(g[i - 1], log[i]))
                            = IF i = 0 THEN d ELSE Advance(f[i - 1], log[i])
      BY <1>5, <1>6
    <2> QED BY <2>1
  <1> HIDE DEF f
  <1>8. Refold(d, log, m, f)
    BY <1>7 DEF Refold
  <1> QED BY <1>1, <1>8

\* rebuild_ctx_from_journal is the last of them.
LEMMA RebuildUnfolds ==
  ASSUME NEW d, NEW log, Len(log) \in Nat
  PROVE  \E f : Refold(d, log, Len(log), f) /\ rebuild_ctx_from_journal(d, log) = f[Len(log)]
  <1> DEFINE n == Len(log)
             f == CHOOSE f : Refold(d, log, n, f)
  <1>1. Refold(d, log, n, f)
    <2> HIDE DEF n
    <2> QED BY RefoldExists DEF n
  <1>2. rebuild_ctx_from_journal(d, log) = f[n]
    BY DEF rebuild_ctx_from_journal, Refold, Advance
  <1> QED BY <1>1, <1>2

\* Nothing is written: nothing changes.
LEMMA RebuildStart == ASSUME NEW d PROVE rebuild_ctx_from_journal(d, <<>>) = d
  <1>1. PICK f : Refold(d, <<>>, 0, f) /\ rebuild_ctx_from_journal(d, <<>>) = f[0]
    BY RebuildUnfolds
  <1> QED BY <1>1 DEF Refold

\* One more record is one more step of the rebuild.
LEMMA RebuildAppend ==
  ASSUME NEW d, NEW log, IsLog(log), NEW r
  PROVE  rebuild_ctx_from_journal(d, Append(log, r))
           = Advance(rebuild_ctx_from_journal(d, log), r)
  <1> DEFINE n == Len(log)
             more == Append(log, r)
  <1>1. /\ n \in Nat /\ Len(more) = n + 1 /\ more[n + 1] = r
        /\ \A i \in 1..n : more[i] = log[i]
    BY DEF IsLog
  <1>2. PICK f : Refold(d, log, n, f) /\ rebuild_ctx_from_journal(d, log) = f[n]
    BY <1>1, RebuildUnfolds
  <1> HIDE DEF n, more
  <1>3. PICK g : Refold(d, more, n + 1, g) /\ rebuild_ctx_from_journal(d, more) = g[n + 1]
    <2>1. Len(more) \in Nat
      BY <1>1
    <2>2. \E g : Refold(d, more, Len(more), g) /\ rebuild_ctx_from_journal(d, more) = g[Len(more)]
      BY <2>1, RebuildUnfolds
    <2> QED BY <1>1, <2>2
  <1> DEFINE h == [i \in 0..n |-> g[i]]
  <1>4. \A i \in 0..(n + 1) : g[i] = IF i = 0 THEN d ELSE Advance(g[i - 1], more[i])
    BY <1>3 DEF Refold
  <1>5. h = [i \in 0..n |-> IF i = 0 THEN d ELSE Advance(h[i - 1], more[i])]
    <2>1. \A i \in 0..n : i \in 0..(n + 1) /\ (i # 0 => i - 1 \in 0..n)
      BY <1>1
    <2>2. \A i \in 0..n : g[i] = IF i = 0 THEN d ELSE Advance(h[i - 1], more[i])
      BY <1>4, <2>1
    <2> QED BY <2>2
  <1> HIDE DEF h
  <1>6. Refold(d, more, n, h)
    BY <1>5 DEF Refold
  <1>7. f[n] = h[n]
    <2>1. \A i \in 0..n : f[i] = h[i]
      <3>1. n \in Nat /\ Refold(d, log, n, f)
        BY <1>1, <1>2
      <3>2. \A i \in 1..n : more[i] = log[i]
        BY <1>1
      <3> QED BY <3>1, <3>2, <1>6, RefoldUnique
    <2> QED BY <1>1, <2>1
  <1>8. h[n] = g[n]
    BY <1>1 DEF h
  <1>9. g[n + 1] = Advance(g[n], r)
    BY <1>1, <1>4
  <1> QED BY <1>2, <1>3, <1>7, <1>8, <1>9 DEF more

\* A rebuild that has stopped stays where it is.
LEMMA RebuildFailed ==
  ASSUME NEW d, ~ d.ok, NEW log, IsLog(log)
  PROVE  rebuild_ctx_from_journal(d, log) = d
  <1> DEFINE n == Len(log)
             g == [i \in 0..n |-> d]
  <1>1. n \in Nat
    BY DEF IsLog
  <1>2. PICK f : Refold(d, log, n, f) /\ rebuild_ctx_from_journal(d, log) = f[n]
    BY <1>1, RebuildUnfolds
  <1> HIDE DEF n
  <1>3. Refold(d, log, n, g)
    <2>1. \A i \in 0..n : i # 0 => i - 1 \in 0..n
      BY <1>1
    <2>2. \A i \in 0..n : d = IF i = 0 THEN d ELSE Advance(g[i - 1], log[i])
      BY <2>1 DEF Advance
    <2>3. g = [i \in 0..n |-> IF i = 0 THEN d ELSE Advance(g[i - 1], log[i])]
      BY <2>2
    <2> QED BY <2>3 DEF Refold
  <1>4. n \in 0..n /\ g[n] = d
    BY <1>1
  <1> HIDE DEF g
  <1> QED BY <1>1, <1>2, <1>3, <1>4, RefoldUnique

-----------------------------------------------------------------------------
(* What each record makes of a rebuilt context                             *)

\* The fields a rebuild restores.
SameRebuilt(e, c) ==
    /\ e.applied_fills = c.applied_fills
    /\ e.attributed_fill_qty = c.attributed_fill_qty
    /\ e.fill_obligation = c.fill_obligation
    /\ e.venue_order_id = c.venue_order_id
    /\ e.authority_epoch = c.authority_epoch
    /\ e.response = c.response
    /\ e.attributed_notional = c.attributed_notional
    /\ e.attributed_fee = c.attributed_fee
    /\ e.domain = c.domain

Shaped(e) ==
    e \in [applied_fills : {e.applied_fills}, attributed_fill_qty : {e.attributed_fill_qty},
           fill_obligation : {e.fill_obligation}, venue_order_id : {e.venue_order_id},
           authority_complete : BOOLEAN, authority_epoch : {e.authority_epoch},
           authority_latched_epoch : {e.authority_latched_epoch},
           last_venue_remaining_qty : {e.last_venue_remaining_qty},
           response : {e.response}, attributed_notional : {e.attributed_notional},
           attributed_fee : {e.attributed_fee}, domain : {e.domain}]

\* Authority the rebuild believes in is fresh, in memory too; the venue's remaining
\* is only known of a bound order.
Modest(e, c) ==
    /\ e.authority_complete => authority_is_fresh(e) /\ authority_is_fresh(c)
    /\ e.last_venue_remaining_qty # None => e.venue_order_id # None

\* The rebuilt context e agrees with the context c in memory.
Agrees(e, c) == Shaped(e) /\ SameRebuilt(e, c) /\ Modest(e, c)

\* Which operation folds which record.
LEMMA FoldDispatch ==
  ASSUME NEW e
  PROVE  /\ \A f : FoldRecord(e, FillRecordCid(f)) = FoldFill(e, f)
         /\ \A f : FoldRecord(e, FeeCorrectionRecord(f)) = FoldFeeCorrection(e, FeeCorrectionRecord(f))
         /\ FoldRecord(e, CancelRecord)
              = Ok(IF e.authority_complete THEN invalidate_authority(e) ELSE e)
         /\ \A v : FoldRecord(e, VenueBoundRecord(v)) = AfterBind(e, v, Ok(Bind(e, v)))
         /\ \A c : FoldRecord(e, ObligationRaisedRecord(c))
                     = FoldObligationRaised(e, ObligationRaisedRecord(c))
         /\ \A c : FoldRecord(e, AuthorityLatchedRecord(c))
                     = Ok([EpochAtLeast(e, c.authority_epoch) EXCEPT
                             !.authority_complete = TRUE,
                             !.authority_latched_epoch = c.authority_epoch])
         /\ \A c : FoldRecord(e, AuthorityInvalidatedRecord(c))
                     = Ok([EpochAtLeast(e, c.authority_epoch) EXCEPT !.authority_complete = FALSE])
         /\ \A c : FoldRecord(e, OrderTerminalRecord(c)) = FoldOrderTerminal(e, OrderTerminalRecord(c))
  BY DEF FoldRecord, FillRecordCid, FeeCorrectionRecord, CancelRecord, VenueBoundRecord,
         ObligationRaisedRecord, AuthorityLatchedRecord, AuthorityInvalidatedRecord,
         OrderTerminalRecord

\* Which operation folds a response, in both records that carry one.
LEMMA ResponseDispatch ==
  ASSUME NEW e, NEW v, NEW p
  PROVE  /\ FoldRecord(e, SubmitResponseRecord(v, p))
              = FoldSubmitResponse(e, SubmitResponseRecord(v, p))
         /\ FoldRecord(e, UnattributedRecord(v, p))
              = FoldUnattributed(e, UnattributedRecord(v, p))
  BY DEF FoldRecord, SubmitResponseRecord, UnattributedRecord

\* Which operation folds the snapshot of a report.
LEMMA ReportDispatch ==
  ASSUME NEW e, NEW c, NEW v, NEW filled, NEW remaining, NEW others, NEW complete
  PROVE  FoldRecord(e, ReconcileObservedRecord(c, v, filled, remaining, others, complete))
           = FoldReconcileObserved(e, ReconcileObservedRecord(c, v, filled, remaining, others,
                                                              complete))
  BY DEF FoldRecord, ReconcileObservedRecord

\* A binding fails in the rebuild when it fails in memory.
LEMMA SameErrors ==
  ASSUME NEW e, NEW c, SameRebuilt(e, c)
  PROVE  /\ \A v : BindError(e, v) = BindError(c, v)
         /\ \A f : FillError(e, f) = FillError(c, f)
         /\ AppliedIds(e) = AppliedIds(c)
  BY DEF SameRebuilt, BindError, FillError, FirstSightError, RedeliveryError, AppliedIds

\* The operations of the fold on the fields they touch.
LEMMA FoldOperations ==
  ASSUME NEW e, Shaped(e)
  PROVE  /\ \A n : Shaped(EpochAtLeast(e, n))
                   /\ EpochAtLeast(e, n) = [e EXCEPT !.authority_epoch = MaxOf(n, e.authority_epoch)]
         /\ \A n : Shaped([e EXCEPT !.authority_epoch = n])
         /\ \A n : Shaped([e EXCEPT !.fill_obligation = n])
         /\ \A n : Shaped([e EXCEPT !.last_venue_remaining_qty = n])
         /\ \A n : Shaped([e EXCEPT !.venue_order_id = n])
         /\ \A n : Shaped([e EXCEPT !.response = n])
         /\ \A n : Shaped([e EXCEPT !.domain = n])
         /\ \A b \in BOOLEAN : Shaped([e EXCEPT !.authority_complete = b])
         /\ \A n : Shaped([e EXCEPT !.authority_latched_epoch = n])
  BY DEF Shaped, EpochAtLeast

\* A record that binds the order.
LEMMA FoldBinds ==
  ASSUME NEW e, NEW c, CtxTyped(c), Agrees(e, c), NEW v \in Venues, BindError(c, v) = None
  PROVE  /\ FoldRecord(e, VenueBoundRecord(v)) = Ok(Bind(e, v))
         /\ Agrees(Bind(e, v), Bind(c, v))
  <1>1. BindError(e, v) = None
    BY SameErrors DEF Agrees
  <1>2. FoldRecord(e, VenueBoundRecord(v)) = Ok(Bind(e, v))
    BY <1>1, FoldDispatch DEF AfterBind
  <1>3. Agrees(Bind(e, v), Bind(c, v))
    BY FoldOperations, NoneAssumption
       DEF Agrees, Shaped, SameRebuilt, Modest, Bind, authority_is_fresh, CtxTyped
  <1> QED BY <1>2, <1>3

\* A record that withdraws the authority.
SameButEpoch(e, d) ==
    /\ e.applied_fills = d.applied_fills
    /\ e.attributed_fill_qty = d.attributed_fill_qty
    /\ e.fill_obligation = d.fill_obligation
    /\ e.venue_order_id = d.venue_order_id
    /\ e.response = d.response
    /\ e.attributed_notional = d.attributed_notional
    /\ e.attributed_fee = d.attributed_fee
    /\ e.domain = d.domain

\* The record of an invalidation catches the rebuild up with the generation and
\* takes its authority away.
LEMMA FoldInvalidates ==
  ASSUME NEW e, NEW d, CtxTyped(d), Shaped(e), SameButEpoch(e, d),
         e.last_venue_remaining_qty # None => e.venue_order_id # None,
         e.authority_epoch \in Nat, d.authority_epoch >= e.authority_epoch
  PROVE  \E x : /\ FoldRecord(e, AuthorityInvalidatedRecord(d)) = Ok(x)
                /\ Agrees(x, d) /\ ~ x.authority_complete
  <1> DEFINE y == EpochAtLeast(e, d.authority_epoch)
             x == [y EXCEPT !.authority_complete = FALSE]
  <1>1. FoldRecord(e, AuthorityInvalidatedRecord(d)) = Ok(x)
    BY FoldDispatch
  <1>2. y = [e EXCEPT !.authority_epoch = d.authority_epoch]
    BY FoldOperations DEF MaxOf, CtxTyped
  <1>3. Agrees(x, d) /\ ~ x.authority_complete
    <2>1. x = [e EXCEPT !.authority_epoch = d.authority_epoch, !.authority_complete = FALSE]
      BY <1>2
    <2>2. Shaped(x) /\ ~ x.authority_complete
      BY <2>1 DEF Shaped
    <2>3. SameRebuilt(x, d) /\ Modest(x, d)
      BY <2>1 DEF Shaped, SameRebuilt, SameButEpoch, Modest
    <2> QED BY <2>2, <2>3 DEF Agrees
  <1> QED BY <1>1, <1>3

\* A record that grants it.
LEMMA FoldLatches ==
  ASSUME NEW e, NEW c, CtxTyped(c), Agrees(e, c)
  PROVE  LET d == latch_authority_complete(c)
         IN \E x : FoldRecord(e, AuthorityLatchedRecord(d)) = Ok(x) /\ Agrees(x, d)
  <1> DEFINE d == latch_authority_complete(c)
             y == EpochAtLeast(e, d.authority_epoch)
             x == [y EXCEPT !.authority_complete = TRUE,
                            !.authority_latched_epoch = d.authority_epoch]
  <1>1. FoldRecord(e, AuthorityLatchedRecord(d)) = Ok(x)
    BY FoldDispatch
  <1>2. d.authority_epoch = c.authority_epoch /\ d.authority_epoch = e.authority_epoch
    BY DEF Agrees, SameRebuilt, latch_authority_complete, CtxTyped
  <1>3. y = e
    BY <1>2, FoldOperations DEF MaxOf, CtxTyped, Agrees, Shaped
  <1>4. Agrees(x, d)
    BY <1>2, <1>3 DEF Agrees, Shaped, SameRebuilt, Modest, latch_authority_complete,
                      authority_is_fresh, CtxTyped
  <1> QED BY <1>1, <1>4

\* The record of a raised obligation, also when a report has told the rebuild of it.
LEMMA FoldRaises ==
  ASSUME NEW e, NEW c, CtxInv(c), NEW n \in Nat, n > c.fill_obligation, n <= Qty,
         Agrees(e, c) \/ Agrees(e, restore_fill_obligation(c, n))
  PROVE  LET d == raise_fill_obligation(c, n)
         IN /\ \E x : /\ FoldRecord(e, ObligationRaisedRecord(d)) = Ok(x)
                      /\ Agrees(x, d) /\ ~ x.authority_complete
            /\ d.fill_obligation = n
  <1> DEFINE d == raise_fill_obligation(c, n)
             y == EpochAtLeast(restore_fill_obligation(e, n), d.authority_epoch)
             x == [y EXCEPT !.authority_complete = FALSE]
  <1>0. /\ CtxTyped(c) /\ c.attributed_fill_qty \in Nat /\ c.fill_obligation \in Nat
        /\ c.attributed_fill_qty < n /\ c.authority_epoch \in 0..U64Max
    BY DEF CtxInv, CtxBase, CtxTyped
  <1>1. d = [[c EXCEPT !.fill_obligation = n] EXCEPT
               !.authority_epoch = SaturatingAdd(c.authority_epoch, 1), !.authority_complete = FALSE]
    BY <1>0 DEF raise_fill_obligation, invalidate_authority, CtxTyped
  <1>2. /\ d.fill_obligation = n /\ d.authority_epoch >= c.authority_epoch
        /\ d.authority_epoch \in Nat
    BY <1>0, <1>1, SatAdd, QtyAssumption DEF CtxTyped
  <1>3. /\ Shaped(e) /\ e.authority_epoch = c.authority_epoch
        /\ e.fill_obligation \in {c.fill_obligation, n}
        /\ e.attributed_fill_qty = c.attributed_fill_qty
        /\ SameRebuilt(e, [c EXCEPT !.fill_obligation = e.fill_obligation])
        /\ e.last_venue_remaining_qty # None => e.venue_order_id # None
    BY <1>0 DEF Agrees, SameRebuilt, restore_fill_obligation, CtxTyped, Modest
  <1>4. y = [[e EXCEPT !.fill_obligation = n] EXCEPT !.authority_epoch = d.authority_epoch]
    <2> HIDE DEF d
    <2>1. restore_fill_obligation(e, n) = [e EXCEPT !.fill_obligation = n]
      BY <1>0, <1>3 DEF restore_fill_obligation, Shaped
    <2>2. [e EXCEPT !.fill_obligation = n].authority_epoch = c.authority_epoch
      BY <1>3 DEF Shaped
    <2>3. MaxOf(d.authority_epoch, c.authority_epoch) = d.authority_epoch
      BY <1>0, <1>2 DEF MaxOf
    <2> QED BY <2>1, <2>2, <2>3 DEF EpochAtLeast
  <1>5. y.fill_obligation = n /\ y.attributed_fill_qty = c.attributed_fill_qty /\ Shaped(y)
    BY <1>3, <1>4 DEF Shaped
  <1>6. FoldRecord(e, ObligationRaisedRecord(d)) = Ok(x)
    <2>1. FoldRecord(e, ObligationRaisedRecord(d)) = FoldObligationRaised(e, ObligationRaisedRecord(d))
      BY FoldDispatch
    <2>2. /\ ObligationRaisedRecord(d).obligation = n
          /\ ObligationRaisedRecord(d).epoch = d.authority_epoch
      BY <1>2 DEF ObligationRaisedRecord
    <2> HIDE DEF d
    <2>3. ~ (n > Qty) /\ y.attributed_fill_qty < y.fill_obligation
      BY <1>0, <1>5, QtyAssumption
    <2> QED BY <2>1, <2>2, <2>3 DEF FoldObligationRaised, AfterRestore
  <1>7. Agrees(x, d) /\ ~ x.authority_complete
    BY <1>0, <1>1, <1>3, <1>4, <1>5 DEF Agrees, Shaped, SameRebuilt, Modest, CtxTyped
  <1> QED BY <1>2, <1>6, <1>7

\* The record of a cancel follows the one that withdraws the authority.
LEMMA FoldCancels ==
  ASSUME NEW e, ~ e.authority_complete
  PROVE  FoldRecord(e, CancelRecord) = Ok(e)
  BY FoldDispatch

\* What a bound order's rebuild still takes from a record: the venue's remaining.
LEMMA AgreesRebound ==
  ASSUME NEW e, NEW c, CtxTyped(c), Agrees(e, c), NEW v \in Venues, c.venue_order_id = v, NEW n
  PROVE  /\ Agrees(note_venue_remaining(Bind(e, v), n), c)
         /\ BindError(e, v) = None
         /\ note_venue_remaining(Bind(e, v), n)
              = [e EXCEPT !.venue_order_id = v, !.last_venue_remaining_qty = n]
  <1> DEFINE x == note_venue_remaining(Bind(e, v), n)
  <1>1. x = [e EXCEPT !.venue_order_id = v, !.last_venue_remaining_qty = n]
    BY DEF note_venue_remaining, Bind
  <1>2. e.venue_order_id = v /\ v # None
    BY NoneAssumption DEF Agrees, SameRebuilt
  <1>3. Shaped(x)
    BY <1>1 DEF Agrees, Shaped
  <1>4. SameRebuilt(x, c) /\ Modest(x, c)
    BY <1>1, <1>2 DEF Agrees, Shaped, SameRebuilt, Modest, authority_is_fresh
  <1>5. BindError(e, v) = None
    BY <1>2 DEF BindError
  <1> QED BY <1>1, <1>3, <1>4, <1>5 DEF Agrees

\* The record of an immediate fill repeats the response.
LEMMA FoldUnattributes ==
  ASSUME NEW e, NEW c, CtxInv(c), Agrees(e, c), NEW v \in Venues, c.venue_order_id = v,
         NEW p \in ResponseSnapshot, c.response = p,
         p.fill_count \in Nat, p.fill_count <= c.fill_obligation
  PROVE  \E x : FoldRecord(e, UnattributedRecord(v, p)) = Ok(x) /\ Agrees(x, c)
  <1> DEFINE q == [p EXCEPT !.boundary = e.response.boundary]
             x == [Bind(e, v) EXCEPT !.response = q, !.last_venue_remaining_qty = p.remaining_count]
  <1>0. CtxTyped(c) /\ c.fill_obligation \in Nat /\ c.fill_obligation <= Qty
    BY DEF CtxInv, CtxBase, CtxTyped
  <1>1. q = p
    <2>1. e.response.boundary = p.boundary
      BY DEF Agrees, SameRebuilt
    <2> QED BY <2>1 DEF ResponseSnapshot
  <1> HIDE DEF q
  <1>2. x = [note_venue_remaining(Bind(e, v), p.remaining_count) EXCEPT !.response = p]
    BY <1>1 DEF note_venue_remaining, Bind
  <1>3. Agrees(note_venue_remaining(Bind(e, v), p.remaining_count), c) /\ BindError(e, v) = None
    BY <1>0, AgreesRebound
  <1> HIDE DEF x
  <1>4. x = note_venue_remaining(Bind(e, v), p.remaining_count)
    <2> DEFINE y == note_venue_remaining(Bind(e, v), p.remaining_count)
    <2>1. Shaped(y) /\ y.response = p
      BY <1>3 DEF Agrees, SameRebuilt
    <2> HIDE DEF y
    <2>2. [y EXCEPT !.response = p] = y
      BY <2>1 DEF Shaped
    <2> QED BY <1>2, <2>2 DEF y
  <1>5. Agrees(x, c)
    BY <1>3, <1>4
  <1>6. restore_fill_obligation(x, p.fill_count) = x
    BY <1>0, <1>5 DEF restore_fill_obligation, Agrees, SameRebuilt
  <1>7. FoldRecord(e, UnattributedRecord(v, p)) = FoldUnattributed(e, UnattributedRecord(v, p))
    BY ResponseDispatch
  <1>8. UnattributedRecord(v, p).venue = v /\ UnattributedRecord(v, p).response = p
    BY DEF UnattributedRecord
  <1>9. ~ (p.fill_count > Qty)
    BY <1>0, QtyAssumption
  <1>10. FoldUnattributed(e, UnattributedRecord(v, p)) = Ok(x)
    BY <1>3, <1>6, <1>8, <1>9 DEF FoldUnattributed, AfterBind, AfterRestore, q, x
  <1> QED BY <1>5, <1>7, <1>10

\* The record of a report, before its evidence is noted.
LEMMA FoldObserves ==
  ASSUME NEW e, NEW c, CtxInv(c), Agrees(e, c), NEW v \in Venues, c.venue_order_id = v,
         NEW rep \in Report, ~ MemberError(rep)
  PROVE  LET r == ReconcileObservedRecord(c, v, rep.filled, rep.remaining, rep.others, FALSE)
             n == rep.filled - rep.others
         IN \E x : /\ FoldRecord(e, r) = Ok(x)
                   /\ IF n > Qty THEN Agrees(x, c) ELSE Agrees(x, restore_fill_obligation(c, n))
  <1> DEFINE r == ReconcileObservedRecord(c, v, rep.filled, rep.remaining, rep.others, FALSE)
             n == rep.filled - rep.others
             y == note_venue_remaining(Bind(e, v), rep.remaining)
             z == restore_fill_obligation(y, n)
             x == IF n > Qty THEN y
                  ELSE IF z.attributed_fill_qty < z.fill_obligation
                  THEN [z EXCEPT !.authority_complete = FALSE] ELSE z
  <1>0. /\ CtxTyped(c) /\ c.fill_obligation \in Nat /\ c.attributed_fill_qty \in Nat
        /\ c.authority_epoch \in Nat /\ c.fill_obligation <= Qty
        /\ c.attributed_fill_qty <= c.fill_obligation
    BY DEF CtxInv, CtxBase, CtxTyped
  <1>1. Agrees(y, c) /\ BindError(e, v) = None
    BY <1>0, AgreesRebound
  <1>2. n \in Nat /\ ~ (rep.others > rep.filled) /\ ~ (rep.others > Qty)
    <2>1. rep.filled \in Nat /\ rep.others \in Nat
      BY DEF Report
    <2> QED BY <2>1 DEF MemberError
  <1>3. FoldRecord(e, r) = FoldReconcileObserved(e, r)
    BY ReportDispatch
  <1>4. /\ r.venue = v /\ r.filled = rep.filled /\ r.remaining = rep.remaining
        /\ r.others = rep.others /\ ~ r.complete /\ r.epoch = c.authority_epoch
    BY DEF ReconcileObservedRecord
  <1>5. EpochAtLeast(y, c.authority_epoch) = y
    BY <1>0, <1>1 DEF EpochAtLeast, MaxOf, Agrees, SameRebuilt, Shaped
  <1> HIDE DEF r, n, y
  <1>6. FoldReconcileObserved(e, r) = Ok(x)
    BY <1>1, <1>2, <1>4, <1>5 DEF FoldReconcileObserved, AfterBind, n, y
  <1>7. ASSUME ~ (n > Qty)
        PROVE  Agrees(x, restore_fill_obligation(c, n))
    <2>1. CASE n <= c.fill_obligation
      <3>1. z = y /\ restore_fill_obligation(c, n) = c
        BY <1>0, <1>1, <1>2, <2>1 DEF restore_fill_obligation, Agrees, SameRebuilt
      <3>2. Agrees([y EXCEPT !.authority_complete = FALSE], c)
        BY <1>1 DEF Agrees, Shaped, SameRebuilt, Modest
      <3> HIDE DEF z
      <3> QED BY <1>1, <1>7, <3>1, <3>2
    <2>2. CASE n > c.fill_obligation
      <3>1. /\ z = [y EXCEPT !.fill_obligation = n]
            /\ restore_fill_obligation(c, n) = [c EXCEPT !.fill_obligation = n]
        BY <1>0, <1>1, <2>2 DEF restore_fill_obligation, Agrees, SameRebuilt
      <3>2. z.attributed_fill_qty < z.fill_obligation
        BY <1>0, <1>1, <1>2, <2>2, <3>1 DEF Agrees, Shaped, SameRebuilt
      <3>3. x = [y EXCEPT !.fill_obligation = n, !.authority_complete = FALSE]
        BY <1>7, <3>1, <3>2
      <3> HIDE DEF x, z
      <3>4. Agrees(x, [c EXCEPT !.fill_obligation = n])
        BY <1>0, <1>1, <3>3 DEF Agrees, Shaped, SameRebuilt, Modest, CtxTyped
      <3> QED BY <3>1, <3>4
    <2> QED BY <1>0, <1>2, <2>1, <2>2
  <1>8. n > Qty => Agrees(x, c)
    BY <1>1
  <1> HIDE DEF x
  <1> QED BY <1>3, <1>6, <1>7, <1>8 DEF r, n

\* The record of a complete report, once its fills are accounted.
LEMMA FoldCompletes ==
  ASSUME NEW e, NEW c, CtxInv(c), Agrees(e, c), NEW v \in Venues, c.venue_order_id = v,
         NEW rep \in Report, ~ MemberError(rep), rep.filled - rep.others <= c.fill_obligation,
         authority_is_fresh(c)
  PROVE  \E x : /\ FoldRecord(e, ReconcileObservedRecord(c, v, rep.filled, rep.remaining,
                                                         rep.others, TRUE)) = Ok(x)
                /\ Agrees(x, c)
  <1> DEFINE r == ReconcileObservedRecord(c, v, rep.filled, rep.remaining, rep.others, TRUE)
             n == rep.filled - rep.others
             y == note_venue_remaining(Bind(e, v), rep.remaining)
             x == latch_authority_complete(y)
  <1>0. /\ CtxTyped(c) /\ c.fill_obligation \in Nat /\ c.authority_epoch \in Nat
        /\ c.fill_obligation <= Qty
    BY DEF CtxInv, CtxBase, CtxTyped
  <1>1. Agrees(y, c) /\ BindError(e, v) = None
    BY <1>0, AgreesRebound
  <1>2. n \in Nat /\ ~ (rep.others > rep.filled) /\ ~ (rep.others > Qty) /\ ~ (n > Qty)
    <2>1. rep.filled \in Nat /\ rep.others \in Nat
      BY DEF Report
    <2> QED BY <1>0, <2>1, QtyAssumption DEF MemberError
  <1>3. FoldRecord(e, r) = FoldReconcileObserved(e, r)
    BY ReportDispatch
  <1>4. /\ r.venue = v /\ r.filled = rep.filled /\ r.remaining = rep.remaining
        /\ r.others = rep.others /\ r.complete /\ r.epoch = c.authority_epoch
    BY DEF ReconcileObservedRecord
  <1>5. EpochAtLeast(y, c.authority_epoch) = y
    BY <1>0, <1>1 DEF EpochAtLeast, MaxOf, Agrees, SameRebuilt, Shaped
  <1> HIDE DEF r, y
  <1>6. restore_fill_obligation(y, n) = y
    BY <1>0, <1>1, <1>2 DEF restore_fill_obligation, Agrees, SameRebuilt
  <1> HIDE DEF n
  <1>7. FoldReconcileObserved(e, r) = Ok(x)
    BY <1>1, <1>2, <1>4, <1>5, <1>6 DEF FoldReconcileObserved, AfterBind, n, y
  <1>8. Agrees(x, c)
    BY <1>1 DEF Agrees, Shaped, SameRebuilt, Modest, latch_authority_complete, authority_is_fresh
  <1> HIDE DEF x
  <1> QED BY <1>3, <1>7, <1>8 DEF r

\* The record of a terminal repeats what is known.
LEMMA FoldTerminates ==
  ASSUME NEW e, NEW c, CtxInv(c), Agrees(e, c)
  PROVE  \E x : FoldRecord(e, OrderTerminalRecord(c)) = Ok(x) /\ Agrees(x, c)
  <1> DEFINE r == OrderTerminalRecord(c)
             bound == IF r.venue = None THEN e ELSE Bind(e, r.venue)
             latched == IF r.complete
                        THEN [e EXCEPT !.authority_complete = TRUE,
                                       !.authority_latched_epoch = r.epoch]
                        ELSE e
             x == [latched EXCEPT !.attributed_fill_qty = MaxOf(r.qty, latched.attributed_fill_qty),
                                  !.attributed_fee = MaxOf(r.fee, latched.attributed_fee)]
  <1>0. /\ CtxTyped(c) /\ c.fill_obligation \in Nat /\ c.authority_epoch \in Nat
        /\ c.fill_obligation <= Qty /\ c.attributed_fill_qty \in Nat /\ c.attributed_fee \in Nat
        /\ Shaped(e) /\ SameRebuilt(e, c)
    BY QtyAssumption DEF CtxInv, CtxBase, CtxTyped, Agrees
  <1>1. /\ r.venue = c.venue_order_id /\ r.obligation = c.fill_obligation
        /\ r.complete = authority_is_fresh(c) /\ r.epoch = c.authority_epoch
        /\ r.qty = c.attributed_fill_qty /\ r.fee = c.attributed_fee
    BY DEF OrderTerminalRecord
  <1>2. FoldRecord(e, r) = FoldOrderTerminal(e, r)
    BY FoldDispatch
  <1> HIDE DEF r
  <1>3. bound = e /\ ~ (r.venue # None /\ BindError(e, r.venue) # None)
    BY <1>0, <1>1 DEF Bind, Shaped, SameRebuilt, BindError
  <1>4. restore_fill_obligation(e, r.obligation) = e /\ EpochAtLeast(e, r.epoch) = e
    BY <1>0, <1>1 DEF restore_fill_obligation, EpochAtLeast, MaxOf, Shaped, SameRebuilt
  <1>5. ~ (r.obligation > Qty)
    BY <1>0, <1>1, QtyAssumption
  <1> HIDE DEF bound
  <1>6. FoldOrderTerminal(e, r) = Ok(x)
    BY <1>3, <1>4, <1>5 DEF FoldOrderTerminal, AfterRestore, bound
  <1>7. Agrees(latched, c)
    <2>1. CASE r.complete
      <3>1. authority_is_fresh(c)
        BY <1>1, <2>1
      <3>2. latched = [e EXCEPT !.authority_complete = TRUE,
                                !.authority_latched_epoch = c.authority_epoch]
        BY <1>1, <2>1
      <3> HIDE DEF latched
      <3> QED BY <3>1, <3>2 DEF Agrees, Shaped, SameRebuilt, Modest, authority_is_fresh
    <2>2. CASE ~ r.complete
      BY <2>2
    <2> QED BY <2>1, <2>2
  <1>8. x = latched
    <2>1. Shaped(latched) /\ latched.attributed_fill_qty = r.qty /\ latched.attributed_fee = r.fee
      BY <1>1, <1>7 DEF Agrees, SameRebuilt
    <2>2. MaxOf(r.qty, r.qty) = r.qty /\ MaxOf(r.fee, r.fee) = r.fee
      BY DEF MaxOf
    <2> HIDE DEF latched
    <2> QED BY <2>1, <2>2 DEF Shaped
  <1> HIDE DEF x
  <1> QED BY <1>2, <1>6, <1>7, <1>8 DEF r

\* The sums over the response domain depend on the fills and the response alone.
LEMMA DomainSame ==
  ASSUME NEW c, NEW d, d.applied_fills = c.applied_fills, d.response = c.response
  PROVE  DomainOf(d) = DomainOf(c)
  <1>1. InDomainIds(d) = InDomainIds(c)
    BY DEF InDomainIds, AppliedIds, fill_in_response_domain, has_reliable_boundary
  <1>2. TotalsOver(d, InDomainIds(c)) = TotalsOver(c, InDomainIds(c))
    BY TotalsElsewhere
  <1> QED BY <1>1, <1>2 DEF DomainOf

\* A bound and noted context is restored as such, also before memory notes more.
LEMMA AgreesNoted ==
  ASSUME NEW e, NEW c, CtxTyped(c), Agrees(e, c), NEW v \in Venues, NEW n, NEW m
  PROVE  /\ Agrees(note_venue_remaining(Bind(e, v), n), note_venue_remaining(Bind(c, v), m))
         /\ Agrees(e, note_venue_remaining(c, m))
         /\ c.venue_order_id = v => Bind(c, v) = c
  <1> DEFINE x == note_venue_remaining(Bind(e, v), n)
             y == note_venue_remaining(Bind(c, v), m)
  <1>1. /\ x = [e EXCEPT !.venue_order_id = v, !.last_venue_remaining_qty = n]
        /\ y = [c EXCEPT !.venue_order_id = v, !.last_venue_remaining_qty = m]
    BY DEF note_venue_remaining, Bind
  <1> HIDE DEF x, y
  <1>2. Agrees(x, y)
    BY <1>1, NoneAssumption
       DEF Agrees, Shaped, SameRebuilt, Modest, authority_is_fresh, CtxTyped
  <1>3. Agrees(e, note_venue_remaining(c, m))
    BY DEF Agrees, SameRebuilt, Modest, authority_is_fresh, CtxTyped, note_venue_remaining
  <1>4. c.venue_order_id = v => Bind(c, v) = c
    BY DEF Bind, CtxTyped
  <1> QED BY <1>2, <1>3, <1>4 DEF x, y

\* Operations of the fold that keep agreement.
LEMMA ShapedContext ==
  ASSUME NEW c, CtxTyped(c)
  PROVE  Shaped(c)
  BY DEF CtxTyped, Shaped

\* Agreement is kept by every operation that the fold and the handlers share.
LEMMA AgreesOperations ==
  ASSUME NEW e, NEW c, Shaped(c), Agrees(e, c)
  PROVE  /\ \A p : Agrees([e EXCEPT !.response = p], [c EXCEPT !.response = p])
         /\ \A n : Agrees(restore_fill_obligation(e, n), restore_fill_obligation(c, n))
         /\ Agrees(recompute_response_domain(e), recompute_response_domain(c))
         /\ \A p : Agrees(accumulate_response_domain(e, p), accumulate_response_domain(c, p))
  <1>1. ASSUME NEW p
        PROVE  Agrees([e EXCEPT !.response = p], [c EXCEPT !.response = p])
    BY DEF Agrees, Shaped, SameRebuilt, Modest, authority_is_fresh
  <1>2. ASSUME NEW n
        PROVE  Agrees(restore_fill_obligation(e, n), restore_fill_obligation(c, n))
    <2>1. Agrees([e EXCEPT !.fill_obligation = n], [c EXCEPT !.fill_obligation = n])
      BY DEF Agrees, Shaped, SameRebuilt, Modest, authority_is_fresh
    <2>2. e.fill_obligation = c.fill_obligation
      BY DEF Agrees, SameRebuilt
    <2> QED BY <2>1, <2>2 DEF restore_fill_obligation
  <1>3. ASSUME NEW m
        PROVE  Agrees([e EXCEPT !.domain = m], [c EXCEPT !.domain = m])
    BY DEF Agrees, Shaped, SameRebuilt, Modest, authority_is_fresh
  <1>4. Agrees(recompute_response_domain(e), recompute_response_domain(c))
    <2>1. DomainOf(e) = DomainOf(c)
      BY DomainSame DEF Agrees, SameRebuilt
    <2> QED BY <1>3, <2>1 DEF recompute_response_domain
  <1>5. ASSUME NEW p
        PROVE  Agrees(accumulate_response_domain(e, p), accumulate_response_domain(c, p))
    <2>1. e.domain = c.domain /\ e.response = c.response
      BY DEF Agrees, SameRebuilt
    <2> DEFINE m == [qty |-> c.domain.qty + p.qty,
                     notional |-> c.domain.notional + p.qty * p.price,
                     fee |-> SaturatingAdd(c.domain.fee, OrZero(p.fee))]
    <2>2. Agrees([e EXCEPT !.domain = m], [c EXCEPT !.domain = m])
      BY <1>3
    <2> QED BY <2>1, <2>2 DEF accumulate_response_domain, fill_in_response_domain,
                               has_reliable_boundary
  <1> QED BY <1>1, <1>2, <1>4, <1>5

\* The sums over the domain do not depend on the obligation or the authority.
LEMMA RecomputeCommutes ==
  ASSUME NEW c, Shaped(c), NEW n
  PROVE  /\ recompute_response_domain(restore_fill_obligation(c, n))
              = restore_fill_obligation(recompute_response_domain(c), n)
         /\ recompute_response_domain(raise_fill_obligation(c, n))
              = raise_fill_obligation(recompute_response_domain(c), n)
  <1> DEFINE m == DomainOf(c)
             q == SaturatingAdd(c.authority_epoch, 1)
             raised == [c EXCEPT !.fill_obligation = n]
             stale == invalidate_authority(raised)
  <1>1. /\ raised.applied_fills = c.applied_fills /\ raised.response = c.response
        /\ stale.applied_fills = c.applied_fills /\ stale.response = c.response
        /\ stale = [c EXCEPT !.fill_obligation = n, !.authority_epoch = q,
                             !.authority_complete = FALSE]
    BY DEF Shaped, invalidate_authority
  <1>2. DomainOf(raised) = m /\ DomainOf(stale) = m
    BY <1>1, DomainSame
  <1>3. /\ [raised EXCEPT !.domain = m] = [[c EXCEPT !.domain = m] EXCEPT !.fill_obligation = n]
        /\ [stale EXCEPT !.domain = m]
             = invalidate_authority([[c EXCEPT !.domain = m] EXCEPT !.fill_obligation = n])
    <2> HIDE DEF m
    <2>1. [stale EXCEPT !.domain = m]
            = [c EXCEPT !.fill_obligation = n, !.authority_epoch = q,
                        !.authority_complete = FALSE, !.domain = m]
      BY <1>1
    <2>2. [[c EXCEPT !.domain = m] EXCEPT !.fill_obligation = n].authority_epoch
            = c.authority_epoch
      BY DEF Shaped
    <2>3. invalidate_authority([[c EXCEPT !.domain = m] EXCEPT !.fill_obligation = n])
            = [c EXCEPT !.domain = m, !.fill_obligation = n, !.authority_epoch = q,
                        !.authority_complete = FALSE]
      BY <2>2 DEF invalidate_authority
    <2> QED BY <2>1, <2>3 DEF Shaped
  <1>4. /\ [c EXCEPT !.domain = m].fill_obligation = c.fill_obligation
        /\ [c EXCEPT !.domain = m].attributed_fill_qty = c.attributed_fill_qty
    BY DEF Shaped
  <1> HIDE DEF stale, m
  <1>5. restore_fill_obligation(recompute_response_domain(c), n)
          = IF n > c.fill_obligation
            THEN [[c EXCEPT !.domain = m] EXCEPT !.fill_obligation = n] ELSE [c EXCEPT !.domain = m]
    BY <1>4 DEF restore_fill_obligation, recompute_response_domain, m
  <1>6. recompute_response_domain(restore_fill_obligation(c, n))
          = IF n > c.fill_obligation THEN [raised EXCEPT !.domain = m] ELSE [c EXCEPT !.domain = m]
    BY <1>2 DEF restore_fill_obligation, recompute_response_domain, m
  <1>7. raise_fill_obligation(recompute_response_domain(c), n)
          = IF n <= c.fill_obligation THEN [c EXCEPT !.domain = m]
            ELSE IF c.attributed_fill_qty < n
            THEN invalidate_authority([[c EXCEPT !.domain = m] EXCEPT !.fill_obligation = n])
            ELSE [[c EXCEPT !.domain = m] EXCEPT !.fill_obligation = n]
    BY <1>4 DEF raise_fill_obligation, recompute_response_domain, m
  <1>8. recompute_response_domain(raise_fill_obligation(c, n))
          = IF n <= c.fill_obligation THEN [c EXCEPT !.domain = m]
            ELSE IF c.attributed_fill_qty < n THEN [stale EXCEPT !.domain = m]
            ELSE [raised EXCEPT !.domain = m]
    BY <1>2 DEF raise_fill_obligation, recompute_response_domain, m, stale
  <1> QED BY <1>3, <1>5, <1>6, <1>7, <1>8

\* The record of a create response.
LEMMA FoldSubmits ==
  ASSUME NEW e, NEW c, CtxInv(c), Agrees(e, c), NEW v \in Venues, BindError(c, v) = None,
         NEW p, p.fill_count \in Nat
  PROVE  LET bound == note_venue_remaining(Bind(c, v), p.remaining_count)
             snapped == [bound EXCEPT !.response = p]
             settled == recompute_response_domain(snapped)
         IN /\ p.fill_count = 0
                 => \E x : /\ FoldRecord(e, SubmitResponseRecord(v, p)) = Ok(x)
                           /\ Agrees(x, bound) /\ x.venue_order_id = v
            /\ p.fill_count # 0 /\ p.fill_count <= Qty
                 => \E x : /\ FoldRecord(e, SubmitResponseRecord(v, p)) = Ok(x)
                           /\ Agrees(x, restore_fill_obligation(settled, p.fill_count))
                           /\ x.venue_order_id = v
            /\ p.fill_count > Qty => ~ FoldRecord(e, SubmitResponseRecord(v, p)).ok
  <1> DEFINE bound == note_venue_remaining(Bind(c, v), p.remaining_count)
             snapped == [bound EXCEPT !.response = p]
             settled == recompute_response_domain(snapped)
             n == p.fill_count
             b == note_venue_remaining(Bind(e, v), p.remaining_count)
             s == [b EXCEPT !.response = p]
             t == restore_fill_obligation(s, n)
             x == recompute_response_domain(t)
             r == SubmitResponseRecord(v, p)
  <1>0. CtxTyped(c) /\ c.fill_obligation \in Nat
    BY DEF CtxInv, CtxBase, CtxTyped
  <1>1. Agrees(b, bound) /\ b.venue_order_id = v
    <2>1. Agrees(b, bound)
      BY <1>0, AgreesNoted
    <2>2. bound.venue_order_id = v
      BY <1>0 DEF note_venue_remaining, Bind, CtxTyped
    <2> HIDE DEF b, bound
    <2> QED BY <2>1, <2>2 DEF Agrees, SameRebuilt
  <1>2. BindError(e, v) = None
    BY SameErrors DEF Agrees
  <1>3. FoldRecord(e, r) = FoldSubmitResponse(e, r) /\ r.venue = v /\ r.response = p
    BY ResponseDispatch DEF SubmitResponseRecord
  <1> HIDE DEF r
  <1>4. FoldSubmitResponse(e, r) = IF n = 0 THEN Ok(b) ELSE AfterRestore(s, n, Ok(x))
    BY <1>2, <1>3 DEF FoldSubmitResponse, AfterBind
  <1>5. Shaped(bound) /\ Shaped(snapped)
    BY <1>0, ShapedContext, FoldOperations DEF note_venue_remaining, Bind
  <1> HIDE DEF b, bound
  <1>6. Agrees(s, snapped)
    BY <1>1, <1>5, AgreesOperations
  <1>7. s.venue_order_id = v /\ Shaped(s)
    BY <1>1, FoldOperations DEF Agrees, Shaped
  <1> HIDE DEF s, snapped
  <1>8. Agrees(t, restore_fill_obligation(snapped, n)) /\ t.venue_order_id = v
        /\ Shaped(restore_fill_obligation(snapped, n)) /\ Shaped(t)
    BY <1>5, <1>6, <1>7, AgreesOperations, FoldOperations DEF restore_fill_obligation, Shaped
  <1> HIDE DEF t
  <1>9. Agrees(x, restore_fill_obligation(settled, n)) /\ x.venue_order_id = v
    <2>1. Agrees(x, recompute_response_domain(restore_fill_obligation(snapped, n)))
      BY <1>8, AgreesOperations
    <2>2. x.venue_order_id = v
      BY <1>8 DEF recompute_response_domain, Shaped
    <2> QED BY <1>5, <2>1, <2>2, RecomputeCommutes
  <1> HIDE DEF x
  <1>10. n = 0 => FoldRecord(e, r) = Ok(b)
    BY <1>3, <1>4
  <1>11. n # 0 /\ n <= Qty => FoldRecord(e, r) = Ok(x)
    <2>1. n <= Qty => ~ (n > Qty)
      BY QtyAssumption
    <2> QED BY <1>3, <1>4, <2>1 DEF AfterRestore
  <1>12. n > Qty => ~ FoldRecord(e, r).ok
    <2>1. n > Qty => n # 0
      BY QtyAssumption
    <2> QED BY <1>3, <1>4, <2>1 DEF AfterRestore, Err
  <1> QED BY <1>1, <1>9, <1>10, <1>11, <1>12 DEF r, snapped, bound

\* Booking a fill keeps agreement, and does not look at the authority.
LEMMA BookAgrees ==
  ASSUME NEW e, NEW c, Shaped(c), Agrees(e, c), NEW f
  PROVE  /\ Agrees(BookFill(e, f), BookFill(c, f))
         /\ BookFill(e, f).authority_complete = e.authority_complete
  BY DEF Agrees, Shaped, SameRebuilt, Modest, authority_is_fresh, BookFill

\* Booking a fill touches neither the authority nor the obligation, so it may come
\* before or after what changes them.
LEMMA BookCommutes ==
  ASSUME NEW c, Shaped(c), NEW f, NEW n
  PROVE  /\ BookFill(invalidate_authority(c), f) = invalidate_authority(BookFill(c, f))
         /\ BookFill([c EXCEPT !.fill_obligation = n], f)
              = [BookFill(c, f) EXCEPT !.fill_obligation = n]
  <1>1. /\ BookFill(c, f).authority_epoch = c.authority_epoch
        /\ invalidate_authority(c).applied_fills = c.applied_fills
        /\ invalidate_authority(c).attributed_fill_qty = c.attributed_fill_qty
        /\ invalidate_authority(c).attributed_notional = c.attributed_notional
        /\ invalidate_authority(c).attributed_fee = c.attributed_fee
    BY DEF Shaped, BookFill, invalidate_authority
  <1>2. BookFill(invalidate_authority(c), f) = invalidate_authority(BookFill(c, f))
    BY <1>1 DEF Shaped, BookFill, invalidate_authority
  <1>3. BookFill([c EXCEPT !.fill_obligation = n], f)
              = [BookFill(c, f) EXCEPT !.fill_obligation = n]
    BY DEF Shaped, BookFill
  <1> QED BY <1>2, <1>3

\* What a new fill makes of the context, up to the response domain.
Booked(c, f) == invalidate_authority(BookFill(c, f))
Covered(c, f) == raise_fill_obligation(Booked(c, f), Booked(c, f).attributed_fill_qty)

\* What a fill of first sight adds to the totals.
LEMMA BookedNumbers ==
  ASSUME NEW c, CtxInv(c), NEW f \in FillRecord, FirstSightError(c, f) = None,
         c.applied_fills[f.id] = None
  PROVE  LET b == Booked(c, f)
             q == b.attributed_fill_qty
         IN /\ q = c.attributed_fill_qty + f.qty /\ q \in Nat /\ q <= Qty
            /\ b.fill_obligation = c.fill_obligation /\ c.fill_obligation \in Nat
            /\ c.attributed_fill_qty \in Nat /\ f.qty \in Nat
            /\ b.authority_epoch = invalidate_authority(c).authority_epoch
            /\ b.authority_epoch \in Nat /\ b.authority_epoch >= c.authority_epoch
            /\ c.authority_epoch \in Nat
            /\ Shaped(b) /\ CtxBase(b) /\ CtxBase(c) /\ Shaped(c)
  <1> DEFINE k == BookFill(c, f)
  <1>1. /\ CtxBase(k) /\ k.attributed_fill_qty <= Qty
        /\ k.attributed_fill_qty = c.attributed_fill_qty + f.qty
    BY BookBase
  <1>2. CtxBase(c) /\ Shaped(c)
    BY ShapedContext DEF CtxInv, CtxBase
  <1>3. k.fill_obligation = c.fill_obligation /\ k.authority_epoch = c.authority_epoch
    BY <1>2 DEF BookFill, Shaped
  <1>4. /\ CtxBase(Booked(c, f)) /\ Booked(c, f).fill_obligation = k.fill_obligation
        /\ Booked(c, f).attributed_fill_qty = k.attributed_fill_qty
    BY <1>1, InvalidateBase DEF Booked
  <1>5. /\ Shaped(k) /\ Booked(c, f).authority_epoch = SaturatingAdd(k.authority_epoch, 1)
        /\ invalidate_authority(c).authority_epoch = SaturatingAdd(c.authority_epoch, 1)
    <2>1. Shaped(k)
      BY <1>1, ShapedContext DEF CtxBase
    <2> HIDE DEF k
    <2> QED BY <1>2, <2>1 DEF Booked, invalidate_authority, Shaped, k
  <1>6. f.qty \in Nat /\ c.fill_obligation \in Nat /\ c.attributed_fill_qty \in Nat
        /\ c.authority_epoch \in 0..U64Max
    BY DEF FillRecord, CtxInv, CtxBase, CtxTyped
  <1>7. /\ SaturatingAdd(c.authority_epoch, 1) \in Nat
        /\ SaturatingAdd(c.authority_epoch, 1) >= c.authority_epoch /\ c.authority_epoch \in Nat
    <2>1. 1 \in Nat
      OBVIOUS
    <2>2. /\ SaturatingAdd(c.authority_epoch, 1) \in 0..U64Max
          /\ SaturatingAdd(c.authority_epoch, 1) >= c.authority_epoch
      BY <1>6, <2>1, SatAdd
    <2> QED BY <1>6, <2>2, QtyAssumption
  <1>8. Shaped(Booked(c, f))
    BY <1>4, ShapedContext DEF CtxBase
  <1> HIDE DEF k
  <1> QED BY <1>1, <1>2, <1>3, <1>4, <1>5, <1>6, <1>7, <1>8

\* The three records of a new fill: authority is withdrawn,
LEMMA NewFillStale ==
  ASSUME NEW e, NEW c, CtxInv(c), Agrees(e, c), NEW f \in FillRecord,
         FirstSightError(c, f) = None, c.applied_fills[f.id] = None
  PROVE  \E x : /\ FoldRecord(e, AuthorityInvalidatedRecord(Booked(c, f))) = Ok(x)
                /\ Agrees(x, invalidate_authority(c)) /\ ~ x.authority_complete
  <1> DEFINE d == invalidate_authority(c)
             b == Booked(c, f)
  <1>1. b.authority_epoch = d.authority_epoch /\ d.authority_epoch \in Nat
        /\ d.authority_epoch >= c.authority_epoch /\ c.authority_epoch \in Nat /\ CtxBase(c)
    BY BookedNumbers
  <1>2. AuthorityInvalidatedRecord(b) = AuthorityInvalidatedRecord(d)
    BY <1>1 DEF AuthorityInvalidatedRecord
  <1>3. CtxTyped(d)
    BY <1>1, InvalidateBase DEF CtxBase
  <1>4. /\ Shaped(e) /\ SameRebuilt(e, c)
        /\ e.last_venue_remaining_qty # None => e.venue_order_id # None
    BY DEF Agrees, Modest
  <1>5. SameButEpoch(e, d) /\ e.authority_epoch = c.authority_epoch
    BY <1>1, <1>4 DEF SameButEpoch, SameRebuilt, invalidate_authority, CtxBase, CtxTyped
  <1> HIDE DEF d, b
  <1>6. \E x : /\ FoldRecord(e, AuthorityInvalidatedRecord(d)) = Ok(x)
               /\ Agrees(x, d) /\ ~ x.authority_complete
    BY <1>1, <1>3, <1>4, <1>5, FoldInvalidates
  <1> QED BY <1>2, <1>6 DEF b, d

\* the obligation covers it, when it has to grow,
LEMMA NewFillRaised ==
  ASSUME NEW x, NEW c, CtxInv(c), NEW f \in FillRecord,
         FirstSightError(c, f) = None, c.applied_fills[f.id] = None,
         Agrees(x, invalidate_authority(c)), ~ x.authority_complete
  PROVE  LET m == restore_fill_obligation(invalidate_authority(c),
                                          Booked(c, f).attributed_fill_qty)
         IN /\ Covered(c, f).fill_obligation > Booked(c, f).fill_obligation
                 => \E y : /\ FoldRecord(x, ObligationRaisedRecord(Covered(c, f))) = Ok(y)
                           /\ Agrees(y, m) /\ ~ y.authority_complete
            /\ ~ (Covered(c, f).fill_obligation > Booked(c, f).fill_obligation)
                 => Agrees(x, m)
            /\ Shaped(m) /\ m.fill_obligation >= Booked(c, f).attributed_fill_qty
            /\ Covered(c, f) = BookFill(m, f)
            /\ m.applied_fills = c.applied_fills /\ m.venue_order_id = c.venue_order_id
            /\ m.attributed_fill_qty = c.attributed_fill_qty
            /\ m.attributed_fee = c.attributed_fee
  <1> DEFINE d == invalidate_authority(c)
             b == Booked(c, f)
             q == b.attributed_fill_qty
             m == restore_fill_obligation(d, q)
             k == Covered(c, f)
             r == ObligationRaisedRecord(k)
             y == [x EXCEPT !.fill_obligation = q, !.authority_complete = FALSE]
  <1>0. /\ q = c.attributed_fill_qty + f.qty /\ q \in Nat /\ q <= Qty
        /\ b.fill_obligation = c.fill_obligation /\ c.fill_obligation \in Nat
        /\ c.attributed_fill_qty \in Nat /\ f.qty \in Nat
        /\ b.authority_epoch = d.authority_epoch /\ b.authority_epoch \in Nat
        /\ Shaped(b) /\ Shaped(c) /\ CtxBase(c)
    BY BookedNumbers
  <1>1. /\ Shaped(d) /\ d.fill_obligation = c.fill_obligation
        /\ d.attributed_fill_qty = c.attributed_fill_qty
        /\ d.applied_fills = c.applied_fills /\ d.venue_order_id = c.venue_order_id
        /\ d.attributed_fee = c.attributed_fee
    BY <1>0 DEF invalidate_authority, Shaped
  <1>2. BookFill(d, f) = b
    BY <1>0, BookCommutes DEF Booked
  <1>3. c.attributed_fill_qty <= c.fill_obligation
    BY DEF CtxInv
  <1>4. k = IF q <= c.fill_obligation THEN b ELSE [b EXCEPT !.fill_obligation = q]
    <2>1. ~ (b.attributed_fill_qty < q)
      BY <1>0
    <2> HIDE DEF b
    <2> QED BY <1>0, <2>1 DEF Covered, raise_fill_obligation, b
  <1>5. m = IF q > c.fill_obligation THEN [d EXCEPT !.fill_obligation = q] ELSE d
    BY <1>1 DEF restore_fill_obligation
  <1> HIDE DEF d, b, m, k
  <1>6. k.fill_obligation > b.fill_obligation <=> q > c.fill_obligation
    BY <1>0, <1>4 DEF Shaped
  <1>7. Shaped(m) /\ m.fill_obligation >= q /\ m.applied_fills = d.applied_fills
        /\ m.venue_order_id = d.venue_order_id
        /\ m.attributed_fill_qty = d.attributed_fill_qty /\ m.attributed_fee = d.attributed_fee
    BY <1>0, <1>1, <1>5 DEF Shaped
  <1>8. k = BookFill(m, f)
    <2>1. BookFill([d EXCEPT !.fill_obligation = q], f) = [BookFill(d, f) EXCEPT !.fill_obligation = q]
      BY <1>1, BookCommutes
    <2> QED BY <1>0, <1>2, <1>4, <1>5, <2>1
  <1>9. ASSUME q > c.fill_obligation
        PROVE  FoldRecord(x, r) = Ok(y) /\ Agrees(y, m) /\ ~ y.authority_complete
    <2>1. k.fill_obligation = q /\ k.authority_epoch = b.authority_epoch
      BY <1>0, <1>4, <1>9 DEF Shaped
    <2>2. r.obligation = q /\ r.epoch = d.authority_epoch
      BY <1>0, <2>1 DEF ObligationRaisedRecord
    <2>3. FoldRecord(x, r) = FoldObligationRaised(x, r)
      BY FoldDispatch
    <2> HIDE DEF r
    <2>4. /\ Shaped(x) /\ x.fill_obligation = c.fill_obligation
          /\ x.attributed_fill_qty = c.attributed_fill_qty
          /\ x.authority_epoch = d.authority_epoch
      BY <1>1 DEF Agrees, SameRebuilt, d
    <2> HIDE DEF q
    <2>5. restore_fill_obligation(x, q) = [x EXCEPT !.fill_obligation = q]
      BY <1>9, <2>4 DEF restore_fill_obligation
    <2>6. EpochAtLeast([x EXCEPT !.fill_obligation = q], d.authority_epoch)
            = [x EXCEPT !.fill_obligation = q]
      BY <2>4 DEF EpochAtLeast, MaxOf, Shaped
    <2>7. ~ (q > Qty) /\ c.attributed_fill_qty < q
      BY <1>0, <1>3, <1>9, QtyAssumption
    <2>8. FoldObligationRaised(x, r) = Ok(y)
      BY <2>2, <2>4, <2>5, <2>6, <2>7 DEF FoldObligationRaised, AfterRestore, Shaped
    <2>9. Agrees(y, m)
      BY <1>1, <1>5, <1>9, <2>4 DEF Agrees, Shaped, SameRebuilt, Modest, d
    <2>10. ~ y.authority_complete
      BY <2>4 DEF Shaped
    <2> QED BY <2>3, <2>8, <2>9, <2>10
  <1>10. ~ (q > c.fill_obligation) => Agrees(x, m)
    BY <1>5 DEF d
  <1> HIDE DEF y, q, r
  <1> QED BY <1>1, <1>6, <1>7, <1>8, <1>9, <1>10 DEF r, d, m, k, b, q

\* and it is booked, and counted into the response domain.
LEMMA NewFillBooked ==
  ASSUME NEW y, NEW c, CtxInv(c), NEW f \in FillRecord,
         FirstSightError(c, f) = None, c.applied_fills[f.id] = None,
         NEW m, Agrees(y, m), Shaped(m), Covered(c, f) = BookFill(m, f),
         m.fill_obligation >= Booked(c, f).attributed_fill_qty,
         m.applied_fills = c.applied_fills, m.venue_order_id = c.venue_order_id,
         m.attributed_fill_qty = c.attributed_fill_qty, m.attributed_fee = c.attributed_fee,
         m.fill_obligation \in Nat
  PROVE  \E x : /\ FoldRecord(y, FillRecordCid(f)) = Ok(x)
                /\ Agrees(x, accumulate_response_domain(Covered(c, f), PayloadOf(f)))
  <1> DEFINE k == Covered(c, f)
             z == BookFill(y, f)
             x == accumulate_response_domain(z, PayloadOf(f))
             q == Booked(c, f).attributed_fill_qty
  <1>1. Agrees(z, k) /\ Shaped(k)
    <2>1. Shaped(BookFill(m, f))
      BY DEF Shaped, BookFill
    <2> QED BY <2>1, BookAgrees
  <1>2. FillError(y, f) = None
    <2>1. FillError(y, f) = FillError(m, f)
      BY SameErrors DEF Agrees
    <2>2. FirstSightError(m, f) = FirstSightError(c, f)
      BY DEF FirstSightError
    <2> QED BY <2>1, <2>2 DEF FillError
  <1>3. y.applied_fills[f.id] = None
    BY DEF Agrees, SameRebuilt
  <1>4. q = c.attributed_fill_qty + f.qty /\ q \in Nat
    BY BookedNumbers
  <1>5. z.attributed_fill_qty = q /\ z.fill_obligation = m.fill_obligation
    BY <1>4 DEF Agrees, SameRebuilt, Shaped, BookFill
  <1> HIDE DEF q
  <1>6. restore_fill_obligation(z, z.attributed_fill_qty) = z
    <2> HIDE DEF z
    <2>1. ~ (q > m.fill_obligation)
      BY <1>4 DEF q
    <2> QED BY <1>5, <2>1 DEF restore_fill_obligation
  <1>7. FoldFill(y, f) = Ok(x)
    BY <1>2, <1>3, <1>6 DEF FoldFill
  <1> HIDE DEF z, k
  <1>8. Agrees(x, accumulate_response_domain(k, PayloadOf(f)))
    BY <1>1, AgreesOperations
  <1>9. FoldRecord(y, FillRecordCid(f)) = FoldFill(y, f)
    BY FoldDispatch
  <1> HIDE DEF x
  <1> QED BY <1>7, <1>8, <1>9 DEF k

\* A known fill after its late venue and fee.
Known(c, f) ==
    [c.applied_fills[f.id] EXCEPT !.venue = IF VenueArrives(c, f) THEN f.venue ELSE @,
                                  !.fee = IF FeeArrives(c, f) THEN f.fee ELSE @]
LateFee(c, f) == IF FeeArrives(c, f) THEN f.fee ELSE 0
DomainFee(c, f) ==
    IF /\ FeeArrives(c, f) /\ c.response.fill_count # None
       /\ fill_in_response_domain(c, c.applied_fills[f.id].ts)
    THEN SaturatingAdd(c.domain.fee, LateFee(c, f)) ELSE c.domain.fee
Upgraded(c, id, known, late, fee) ==
    [c EXCEPT !.applied_fills[id] = known, !.attributed_fee = @ + late, !.domain.fee = fee]
\* The record of an upgrade restates what is known.
Restated(c, f) ==
    LET known == EnrichFill(c, f).applied_fills[f.id]
    IN [f EXCEPT !.ts = known.ts, !.fee = known.fee, !.venue = known.venue]

\* A repeated fill upgrades what is known of it, by the fee that came late.
LEMMA EnrichForm ==
  ASSUME NEW c, NEW f
  PROVE  EnrichFill(c, f)
           = Upgraded(c, f.id, Known(c, f), LateFee(c, f), DomainFee(c, f))
  BY DEF EnrichFill, Upgraded, Known, LateFee, DomainFee

\* An upgrade keeps agreement.
LEMMA UpgradeAgrees ==
  ASSUME NEW e, NEW c, Shaped(c), Agrees(e, c), NEW id, NEW known, NEW late, NEW fee
  PROVE  Agrees(Upgraded(e, id, known, late, fee), Upgraded(c, id, known, late, fee))
  BY DEF Agrees, Shaped, SameRebuilt, Modest, authority_is_fresh, Upgraded

\* So does a repeated fill.
LEMMA EnrichAgrees ==
  ASSUME NEW e, NEW c, Shaped(c), Agrees(e, c), NEW f
  PROVE  Agrees(EnrichFill(e, f), EnrichFill(c, f))
  <1>1. e.applied_fills = c.applied_fills /\ e.response = c.response /\ e.domain = c.domain
    BY DEF Agrees, SameRebuilt
  <1>2. VenueArrives(e, f) = VenueArrives(c, f) /\ FeeArrives(e, f) = FeeArrives(c, f)
    BY <1>1 DEF VenueArrives, FeeArrives
  <1>3. Known(e, f) = Known(c, f) /\ LateFee(e, f) = LateFee(c, f)
    BY <1>1, <1>2 DEF Known, LateFee
  <1>4. DomainFee(e, f) = DomainFee(c, f)
    BY <1>1, <1>2, <1>3 DEF DomainFee, fill_in_response_domain, has_reliable_boundary
  <1> QED BY <1>3, <1>4, EnrichForm, UpgradeAgrees

\* The restated fill upgrades as the fill itself does.
LEMMA RestatedUpgrade ==
  ASSUME NEW c, CtxInv(c), NEW f \in FillRecord, c.applied_fills[f.id] # None,
         RedeliveryError(c, f) = None, VenueArrives(c, f) \/ FeeArrives(c, f)
  PROVE  /\ RedeliveryError(c, Restated(c, f)) = None
         /\ EnrichFill(c, Restated(c, f)) = EnrichFill(c, f)
         /\ Restated(c, f).id = f.id
         /\ FeeArrives(c, f) => EnrichFill(c, f).applied_fills[f.id].fee # None
  <1> DEFINE prev == c.applied_fills[f.id]
             known == Known(c, f)
             g == Restated(c, f)
  <1>0. /\ c.applied_fills \in [FillIds -> Opt(Payload)] /\ f.id \in FillIds
        /\ prev \in Payload /\ Shaped(c)
    BY ShapedContext DEF CtxInv, CtxBase, CtxTyped, FillRecord, Opt
  <1>1. EnrichFill(c, f).applied_fills[f.id] = known
    <2> HIDE DEF known
    <2>1. EnrichFill(c, f).applied_fills = [c.applied_fills EXCEPT ![f.id] = known]
      BY <1>0, EnrichForm DEF Upgraded, Shaped, known
    <2> QED BY <1>0, <2>1
  <1>2. /\ known.ts = prev.ts /\ known.qty = prev.qty /\ known.price = prev.price
        /\ known.venue = (IF VenueArrives(c, f) THEN f.venue ELSE prev.venue)
        /\ known.fee = IF FeeArrives(c, f) THEN f.fee ELSE prev.fee
    BY <1>0 DEF Known, Payload
  <1>3. /\ g.id = f.id /\ g.qty = f.qty /\ g.price = f.price /\ g.ts = prev.ts
        /\ g.venue = known.venue /\ g.fee = known.fee
    BY <1>1, <1>2 DEF Restated, FillRecord
  <1> HIDE DEF known, g
  <1>4. /\ VenueArrives(c, g) <=> VenueArrives(c, f)
        /\ FeeArrives(c, g) <=> FeeArrives(c, f)
    BY <1>2, <1>3 DEF VenueArrives, FeeArrives
  <1>5. /\ prev.qty = f.qty /\ prev.price = f.price
        /\ VenueArrives(c, f) => c.venue_order_id \in {None, f.venue}
        /\ prev.venue # None => f.venue = prev.venue
        /\ FeeArrives(c, f) => ~ (c.attributed_fee + f.fee > U64Max)
        /\ prev.fee # None => f.fee = prev.fee
    <2>1. prev # PayloadOf(f)
      BY DEF VenueArrives, FeeArrives, PayloadOf
    <2>2. "FillOwnershipMismatch" # None /\ "ConflictingFillPayload" # None
          /\ "FeeOverflow" # None
      BY NoneAssumption DEF HaltReason
    <2> HIDE DEF prev
    <2> QED BY <2>1, <2>2 DEF RedeliveryError, VenueArrives, FeeArrives, prev
  <1>6. RedeliveryError(c, g) = None
    <2>1. prev.venue = None /\ g.venue # None => c.venue_order_id \in {None, g.venue}
      BY <1>2, <1>3, <1>5
    <2>2. prev.venue # None => g.venue = prev.venue
      BY <1>2, <1>3, <1>5 DEF VenueArrives
    <2>3. prev.fee = None /\ g.fee # None => ~ (c.attributed_fee + g.fee > U64Max)
      BY <1>2, <1>3, <1>5
    <2>4. prev.fee # None => g.fee = prev.fee
      BY <1>2, <1>3, <1>5 DEF FeeArrives
    <2> QED BY <1>3, <1>5, <2>1, <2>2, <2>3, <2>4 DEF RedeliveryError
  <1>7. Known(c, g) = Known(c, f) /\ LateFee(c, g) = LateFee(c, f)
    BY <1>2, <1>3, <1>4 DEF Known, LateFee
  <1>8. DomainFee(c, g) = DomainFee(c, f)
    BY <1>3, <1>4, <1>7 DEF DomainFee
  <1>9. EnrichFill(c, g) = EnrichFill(c, f)
    BY <1>3, <1>7, <1>8, EnrichForm
  <1>10. FeeArrives(c, f) => known.fee # None
    BY <1>2 DEF FeeArrives
  <1> QED BY <1>1, <1>3, <1>6, <1>9, <1>10 DEF g

\* The records of a late venue or fee.
LEMMA FoldUpgrades ==
  ASSUME NEW e, NEW c, CtxInv(c), Agrees(e, c), NEW f \in FillRecord,
         c.applied_fills[f.id] # None, RedeliveryError(c, f) = None,
         VenueArrives(c, f) \/ FeeArrives(c, f)
  PROVE  LET x == EnrichFill(e, Restated(c, f))
         IN /\ FoldRecord(e, FillRecordCid(Restated(c, f))) = Ok(x)
            /\ Agrees(x, EnrichFill(c, f))
            /\ FeeArrives(c, f) => FoldRecord(x, FeeCorrectionRecord(f)) = Ok(x)
  <1> DEFINE g == Restated(c, f)
             x == EnrichFill(e, g)
  <1>1. /\ RedeliveryError(c, g) = None /\ EnrichFill(c, g) = EnrichFill(c, f)
        /\ g.id = f.id
        /\ FeeArrives(c, f) => EnrichFill(c, f).applied_fills[f.id].fee # None
    BY RestatedUpgrade
  <1>2. Shaped(c) /\ Shaped(e)
    BY ShapedContext DEF CtxInv, CtxBase, Agrees
  <1>3. e.applied_fills = c.applied_fills /\ FillError(e, g) = FillError(c, g)
    BY SameErrors DEF Agrees, SameRebuilt
  <1> HIDE DEF g
  <1>4. FillError(e, g) = None
    BY <1>1, <1>3 DEF FillError
  <1>5. FoldRecord(e, FillRecordCid(g)) = Ok(EnrichFill(e, g))
    <2>1. FoldRecord(e, FillRecordCid(g)) = FoldFill(e, g)
      BY FoldDispatch
    <2>2. FoldFill(e, g) = Ok(EnrichFill(e, g))
      BY <1>1, <1>3, <1>4 DEF FoldFill
    <2> QED BY <2>1, <2>2
  <1>6. Agrees(x, EnrichFill(c, f))
    BY <1>1, <1>2, EnrichAgrees
  <1>7. x.applied_fills = EnrichFill(c, f).applied_fills
    BY <1>6 DEF Agrees, SameRebuilt
  <1> HIDE DEF x
  <1>8. FeeArrives(c, f) => FoldRecord(x, FeeCorrectionRecord(f)) = Ok(x)
    <2>1. FeeCorrectionRecord(f).id = f.id
      BY DEF FeeCorrectionRecord
    <2>2. FoldRecord(x, FeeCorrectionRecord(f)) = FoldFeeCorrection(x, FeeCorrectionRecord(f))
      BY FoldDispatch
    <2> HIDE DEF FeeCorrectionRecord
    <2> QED BY <1>1, <1>7, <2>1, <2>2 DEF FoldFeeCorrection
  <1> QED BY <1>5, <1>6, <1>8 DEF x, g

-----------------------------------------------------------------------------
(* What the work of a handler leaves in the journal                        *)

\* The records log, after those that d is the rebuild of, are rebuilt into e.
At(d, log, e) == IsLog(log) /\ rebuild_ctx_from_journal(d, log) = Ok(e)

\* The journal of the work is rebuilt into what the work has in memory.
Refolds(d, w) == \E e : At(d, w.log, e) /\ Agrees(e, w.ctx)

\* As before, or the rebuild has been told of evidence that memory notes next.
Sees(d, w, n) ==
    \E e : /\ At(d, w.log, e)
           /\ Agrees(e, w.ctx) \/ Agrees(e, restore_fill_obligation(w.ctx, n))

\* The work y is the work w with the record r and the context c.
Wrote(w, r, y, c) == y.log = Append(w.log, r) /\ y.ctx = c

\* A record that folds takes the rebuild one step on.
LEMMA AtNext ==
  ASSUME NEW d, NEW log, NEW e, At(d, log, e), NEW r, NEW x, FoldRecord(e, r) = Ok(x)
  PROVE  At(d, Append(log, r), x)
  <1>1. IsLog(Append(log, r))
    BY LogGrows DEF At
  <1>2. rebuild_ctx_from_journal(d, Append(log, r)) = Advance(Ok(e), r)
    BY RebuildAppend DEF At
  <1>3. Advance(Ok(e), r) = FoldRecord(e, r)
    BY DEF Advance, Ok
  <1> QED BY <1>1, <1>2, <1>3 DEF At

\* One more record.
LEMMA RefoldsNext ==
  ASSUME NEW d, NEW log, NEW e, At(d, log, e), NEW r, NEW x, FoldRecord(e, r) = Ok(x),
         NEW w, w.log = log, NEW y, NEW c, Wrote(w, r, y, c), Agrees(x, c)
  PROVE  Refolds(d, y)
  BY AtNext DEF Refolds, Wrote

\* None, and a context that the rebuild cannot tell from the one before.
LEMMA RefoldsSame ==
  ASSUME NEW d, NEW w, Refolds(d, w), NEW y, y.log = w.log, y.ctx = w.ctx
  PROVE  Refolds(d, y)
  BY DEF Refolds

\* A record written without a change of the context.
LEMMA AppendForm ==
  ASSUME NEW w, WorkTyped(w), NEW r, NEW y, y = AppendFsync(w, r)
  PROVE  Wrote(w, r, y, w.ctx)
  BY DEF WorkTyped, AppendFsync, Wrote

\* A record written with a change of the context.
LEMMA WriteForm ==
  ASSUME NEW w, WorkTyped(w), NEW c, NEW r, NEW y, y = AppendFsync([w EXCEPT !.ctx = c], r)
  PROVE  Wrote(w, r, y, c)
  BY DEF WorkTyped, AppendFsync, Wrote

\* Asking the shell journals nothing.
LEMMA RefoldsAsk ==
  ASSUME NEW d, NEW w, WorkTyped(w), Refolds(d, w), NEW S
  PROVE  Refolds(d, Ask(w, S))
  <1>1. Ask(w, S).log = w.log /\ Ask(w, S).ctx = w.ctx
    BY DEF Ask, WorkTyped
  <1> QED BY <1>1, RefoldsSame

\* Binding the venue id is journaled once, when it is new.
LEMMA RefoldsBind ==
  ASSUME NEW d, NEW w, WorkTyped(w), CtxInv(w.ctx), Refolds(d, w), NEW v \in Venues,
         BindError(w.ctx, v) = None
  PROVE  Refolds(d, bind_venue_id(w, v))
  <1>1. PICK e : At(d, w.log, e) /\ Agrees(e, w.ctx)
    BY DEF Refolds
  <1>2. CtxTyped(w.ctx)
    BY DEF CtxInv, CtxBase
  <1>3. CASE w.ctx.venue_order_id = None
    <2> DEFINE k == Bind(w.ctx, v)
               r == VenueBoundRecord(v)
               y == AppendFsync([w EXCEPT !.ctx = k], r)
    <2>1. bind_venue_id(w, v) = y
      BY <1>3 DEF bind_venue_id
    <2>3. FoldRecord(e, r) = Ok(Bind(e, v)) /\ Agrees(Bind(e, v), k)
      BY <1>1, <1>2, FoldBinds
    <2> HIDE DEF k, r
    <2>2. Wrote(w, r, y, k)
      BY WriteForm
    <2> HIDE DEF y
    <2>4. Refolds(d, y)
      BY <1>1, <2>2, <2>3, RefoldsNext
    <2> QED BY <2>1, <2>4
  <1>4. CASE w.ctx.venue_order_id # None
    BY <1>4 DEF bind_venue_id
  <1> QED BY <1>3, <1>4

\* Latching authority is journaled with the context it leaves.
LEMMA RefoldsLatch ==
  ASSUME NEW d, NEW w, WorkTyped(w), CtxInv(w.ctx), Refolds(d, w), NEW complete
  PROVE  Refolds(d, note_authority_complete(w, complete))
  <1> DEFINE k == latch_authority_complete(w.ctx)
             y == AppendFsync([w EXCEPT !.ctx = k], AuthorityLatchedRecord(k))
  <1>1. PICK e : At(d, w.log, e) /\ Agrees(e, w.ctx)
    BY DEF Refolds
  <1>2. \E x : FoldRecord(e, AuthorityLatchedRecord(k)) = Ok(x) /\ Agrees(x, k)
    BY <1>1, FoldLatches DEF CtxInv, CtxBase
  <1>3. note_authority_complete(w, complete) = IF complete THEN y ELSE w
    BY DEF note_authority_complete, WorkTyped
  <1> HIDE DEF k
  <1>4. Wrote(w, AuthorityLatchedRecord(k), y, k)
    BY WriteForm
  <1> HIDE DEF y
  <1>5. Refolds(d, y)
    BY <1>1, <1>2, <1>4, RefoldsNext
  <1> QED BY <1>3, <1>5

\* Raising the obligation brings the memory up to what the journal may already say.
LEMMA RefoldsEvidence ==
  ASSUME NEW d, NEW w, WorkTyped(w), CtxInv(w.ctx), NEW n \in Nat, ~ RaiseFails(n),
         Sees(d, w, n)
  PROVE  /\ Refolds(d, note_fill_evidence(w, n))
         /\ note_fill_evidence(w, n).ctx = raise_fill_obligation(w.ctx, n)
  <1> DEFINE k == raise_fill_obligation(w.ctx, n)
             r == ObligationRaisedRecord(k)
             y == AppendFsync([w EXCEPT !.ctx = k], r)
  <1>1. PICK e : /\ At(d, w.log, e)
                 /\ Agrees(e, w.ctx) \/ Agrees(e, restore_fill_obligation(w.ctx, n))
    BY DEF Sees
  <1>2. /\ w.ctx.fill_obligation \in Nat /\ n <= Qty /\ CtxTyped(w.ctx)
    BY QtyAssumption DEF CtxInv, CtxBase, CtxTyped, RaiseFails
  <1>3. note_fill_evidence(w, n)
          = IF k.fill_obligation > w.ctx.fill_obligation THEN y ELSE [w EXCEPT !.ctx = k]
    BY DEF note_fill_evidence, WorkTyped
  <1>4. CASE n > w.ctx.fill_obligation
    <2>1. /\ \E x : FoldRecord(e, r) = Ok(x) /\ Agrees(x, k)
          /\ k.fill_obligation = n
      <3>1. Agrees(e, w.ctx) \/ Agrees(e, restore_fill_obligation(w.ctx, n))
        BY <1>1
      <3>2. /\ \E x : FoldRecord(e, r) = Ok(x) /\ Agrees(x, k) /\ ~ x.authority_complete
            /\ k.fill_obligation = n
        BY ONLY <1>2, <1>4, <3>1, FoldRaises, CtxInv(w.ctx), n \in Nat
      <3> QED BY <3>2
    <2> HIDE DEF k, r
    <2>0. y = AppendFsync([w EXCEPT !.ctx = k], r)
      OBVIOUS
    <2> HIDE DEF y
    <2>2. Wrote(w, r, y, k)
      BY <2>0, WriteForm
    <2>3. Refolds(d, y)
      BY <1>1, <2>1, <2>2, RefoldsNext
    <2> QED BY <1>3, <1>4, <2>1, <2>2, <2>3 DEF Wrote, k
  <1>5. CASE ~ (n > w.ctx.fill_obligation)
    <2>1. k = w.ctx /\ restore_fill_obligation(w.ctx, n) = w.ctx
      BY <1>2, <1>5 DEF raise_fill_obligation, restore_fill_obligation
    <2> HIDE DEF k
    <2>2. note_fill_evidence(w, n) = [w EXCEPT !.ctx = k]
      BY <1>2, <1>3, <2>1
    <2>3. [w EXCEPT !.ctx = k].log = w.log /\ [w EXCEPT !.ctx = k].ctx = w.ctx
      BY <2>1 DEF WorkTyped
    <2>4. Refolds(d, note_fill_evidence(w, n))
      BY <1>1, <2>1, <2>2, <2>3 DEF Refolds
    <2> QED BY <2>1, <2>2, <2>3, <2>4 DEF k
  <1> QED BY <1>4, <1>5

\* A journal that agrees now has nothing to be caught up with.
LEMMA RefoldsSees ==
  ASSUME NEW d, NEW w, Refolds(d, w), NEW n
  PROVE  Sees(d, w, n)
  BY DEF Refolds, Sees

\* Authority withdrawn by a record of its own.
LEMMA RefoldsInvalidated ==
  ASSUME NEW d, NEW w, WorkTyped(w), CtxTyped(w.ctx), Refolds(d, w)
  PROVE  /\ Refolds(d, AppendFsync(w, AuthorityInvalidatedRecord(w.ctx)))
         /\ \A c : CtxTyped(c) /\ c = invalidate_authority(w.ctx)
              => \E e : /\ At(d, Append(w.log, AuthorityInvalidatedRecord(c)), e)
                        /\ Agrees(e, c) /\ ~ e.authority_complete
  <1>1. PICK e : At(d, w.log, e) /\ Agrees(e, w.ctx)
    BY DEF Refolds
  <1>2. w.ctx.authority_epoch \in 0..U64Max
    BY DEF CtxTyped
  <1>3. /\ Shaped(e) /\ SameRebuilt(e, w.ctx) /\ e.authority_epoch = w.ctx.authority_epoch
        /\ e.authority_epoch \in Nat
        /\ e.last_venue_remaining_qty # None => e.venue_order_id # None
    BY <1>1, <1>2 DEF Agrees, Modest, SameRebuilt
  <1>4. ASSUME NEW c, CtxTyped(c), SameButEpoch(w.ctx, c),
               c.authority_epoch >= w.ctx.authority_epoch
        PROVE  \E x : /\ At(d, Append(w.log, AuthorityInvalidatedRecord(c)), x)
                      /\ Agrees(x, c) /\ ~ x.authority_complete
    <2>1. SameButEpoch(e, c) /\ c.authority_epoch >= e.authority_epoch
      BY <1>3, <1>4 DEF SameButEpoch, SameRebuilt
    <2>2. \E x : /\ FoldRecord(e, AuthorityInvalidatedRecord(c)) = Ok(x)
                 /\ Agrees(x, c) /\ ~ x.authority_complete
      BY <1>3, <1>4, <2>1, FoldInvalidates
    <2> QED BY <1>1, <2>2, AtNext
  <1>5. Refolds(d, AppendFsync(w, AuthorityInvalidatedRecord(w.ctx)))
    <2> DEFINE r == AuthorityInvalidatedRecord(w.ctx)
    <2>1. SameButEpoch(w.ctx, w.ctx) /\ w.ctx.authority_epoch >= w.ctx.authority_epoch
      BY <1>2 DEF SameButEpoch
    <2>2. \E x : At(d, Append(w.log, r), x) /\ Agrees(x, w.ctx)
      BY <1>4, <2>1
    <2> HIDE DEF r
    <2>3. Wrote(w, r, AppendFsync(w, r), w.ctx)
      BY AppendForm
    <2> QED BY <2>2, <2>3 DEF Refolds, Wrote, r
  <1>6. ASSUME NEW c, CtxTyped(c), c = invalidate_authority(w.ctx)
        PROVE  \E x : /\ At(d, Append(w.log, AuthorityInvalidatedRecord(c)), x)
                      /\ Agrees(x, c) /\ ~ x.authority_complete
    <2>1. SameButEpoch(w.ctx, c) /\ c.authority_epoch = SaturatingAdd(w.ctx.authority_epoch, 1)
      BY <1>6 DEF SameButEpoch, invalidate_authority, CtxTyped
    <2>2. SaturatingAdd(w.ctx.authority_epoch, 1) >= w.ctx.authority_epoch
      <3>1. 1 \in Nat
        OBVIOUS
      <3> QED BY <1>2, <3>1, SatAdd
    <2> QED BY <1>4, <1>6, <2>1, <2>2
  <1> QED BY <1>5, <1>6

\* The evidence of a response: an invalidation it caused is journaled too.
LEMMA RefoldsResponseEvidence ==
  ASSUME NEW g, NEW d, NEW w, WorkInv(g, w), NEW n \in Nat, ~ RaiseFails(n), Sees(d, w, n)
  PROVE  /\ Refolds(d, NoteResponseEvidence(w, n))
         /\ NoteResponseEvidence(w, n).ctx = raise_fill_obligation(w.ctx, n)
  <1> DEFINE x == note_fill_evidence(w, n)
  <1>1. Refolds(d, x) /\ x.ctx = raise_fill_obligation(w.ctx, n)
    BY RefoldsEvidence DEF WorkInv
  <1>2. WorkTyped(x) /\ CtxTyped(x.ctx)
    BY EvidenceWork DEF Follows, WorkInv, CtxInv, CtxBase
  <1>3. NoteResponseEvidence(w, n)
          = IF x.ctx.authority_epoch # w.ctx.authority_epoch
            THEN AppendFsync(x, AuthorityInvalidatedRecord(x.ctx)) ELSE x
    BY DEF NoteResponseEvidence
  <1> HIDE DEF x
  <1>4. Refolds(d, AppendFsync(x, AuthorityInvalidatedRecord(x.ctx)))
    BY <1>1, <1>2, RefoldsInvalidated
  <1>5. AppendFsync(x, AuthorityInvalidatedRecord(x.ctx)).ctx = x.ctx
    <2> DEFINE r == AuthorityInvalidatedRecord(x.ctx)
    <2> HIDE DEF r
    <2>1. Wrote(x, r, AppendFsync(x, r), x.ctx)
      BY <1>2, AppendForm
    <2> QED BY <2>1 DEF Wrote, r
  <1> QED BY <1>1, <1>3, <1>4, <1>5

\* A cancel is journalled with the authority it withdraws.
LEMMA RefoldsCancel ==
  ASSUME NEW d, NEW w, WorkTyped(w), CtxInv(w.ctx), Refolds(d, w)
  PROVE  Refolds(d, AppendFsync(authority_invalidate_effects(w), CancelRecord))
  <1> DEFINE c == invalidate_authority(w.ctx)
             r == AuthorityInvalidatedRecord(c)
             x == authority_invalidate_effects(w)
             s == CancelRecord
             y == AppendFsync(x, s)
  <1>1. CtxBase(w.ctx) /\ CtxTyped(w.ctx)
    BY DEF CtxInv, CtxBase
  <1>2. WorkTyped(x)
    BY <1>1, InvalidateWork
  <1>3. CtxTyped(c)
    BY <1>1, InvalidateBase DEF CtxBase
  <1>4. x = AppendFsync([w EXCEPT !.ctx = c], r)
    BY DEF authority_invalidate_effects, WorkTyped
  <1>5. \E e : At(d, Append(w.log, r), e) /\ Agrees(e, c) /\ ~ e.authority_complete
    BY <1>1, <1>3, RefoldsInvalidated
  <1>6. PICK e : At(d, Append(w.log, r), e) /\ Agrees(e, c) /\ ~ e.authority_complete
    BY <1>5
  <1>7. FoldRecord(e, s) = Ok(e)
    BY <1>6, FoldCancels
  <1> HIDE DEF c, r, x, s
  <1>8. Wrote(w, r, x, c)
    BY <1>4, WriteForm
  <1>9. Wrote(x, s, y, x.ctx)
    BY <1>2, AppendForm
  <1> HIDE DEF y
  <1>10. At(d, x.log, e) /\ x.ctx = c
    BY <1>6, <1>8 DEF Wrote
  <1>11. Refolds(d, y)
    BY <1>6, <1>7, <1>9, <1>10, RefoldsNext
  <1> QED BY <1>11 DEF y, x, s

\* A report: the rebuild sees its evidence before memory notes it.
LEMMA RefoldsObserved ==
  ASSUME NEW g, NEW d, NEW w, WorkInv(g, w), Refolds(d, w), NEW v, Bound(w, v),
         NEW rep \in Report, ~ MemberError(rep)
  PROVE  LET seen == Observed(w, v, rep, FALSE)
             n == rep.filled - rep.others
         IN IF n > Qty THEN Refolds(d, seen) ELSE Sees(d, seen, n)
  <1> DEFINE n == rep.filled - rep.others
             r == ReconcileObservedRecord(w.ctx, v, rep.filled, rep.remaining, rep.others, FALSE)
             y == Observed(w, v, rep, FALSE)
  <1>1. PICK e : At(d, w.log, e) /\ Agrees(e, w.ctx)
    BY DEF Refolds
  <1>2. WorkTyped(w) /\ CtxInv(w.ctx) /\ v \in Venues /\ w.ctx.venue_order_id = v
    BY DEF WorkInv, Bound
  <1>3. \E x : /\ FoldRecord(e, r) = Ok(x)
               /\ IF n > Qty THEN Agrees(x, w.ctx)
                  ELSE Agrees(x, restore_fill_obligation(w.ctx, n))
    BY <1>1, <1>2, FoldObserves
  <1>4. y = AppendFsync(w, r)
    BY DEF Observed
  <1> HIDE DEF n, r, y
  <1>5. Wrote(w, r, y, w.ctx)
    BY <1>2, <1>4, AppendForm
  <1>6. PICK x : /\ FoldRecord(e, r) = Ok(x)
                 /\ IF n > Qty THEN Agrees(x, w.ctx)
                    ELSE Agrees(x, restore_fill_obligation(w.ctx, n))
    BY <1>3
  <1>7. At(d, y.log, x) /\ y.ctx = w.ctx
    BY <1>1, <1>5, <1>6, AtNext DEF Wrote
  <1> QED BY <1>6, <1>7 DEF Refolds, Sees, n, y

\* A report that is not complete: its snapshot is journaled, then its evidence.
LEMMA RefoldsReported ==
  ASSUME NEW g, NEW d, NEW w, WorkInv(g, w), Refolds(d, w), NEW v, Bound(w, v),
         NEW rep \in Report, ~ MemberError(rep), ~ RaiseFails(rep.filled - rep.others)
  PROVE  LET raised == note_fill_evidence(Observed(w, v, rep, FALSE), rep.filled - rep.others)
         IN Refolds(d, raised) /\ WorkInv(g, raised) /\ Bound(raised, v)
            /\ raised.ctx.fill_obligation >= rep.filled - rep.others
  <1> DEFINE n == rep.filled - rep.others
             y == Observed(w, v, rep, FALSE)
             z == note_fill_evidence(y, n)
  <1>1. WorkInv(g, y) /\ y.ctx = w.ctx
    BY ObservedWork
  <1>2. n \in Nat
    BY DEF Report, MemberError
  <1>3. ~ (n > Qty)
    BY DEF RaiseFails
  <1>4. Sees(d, y, n)
    BY <1>3, RefoldsObserved
  <1>5. Bound(y, v)
    BY <1>1 DEF Bound
  <1> HIDE DEF n, y
  <1>6. Refolds(d, z)
    BY <1>1, <1>2, <1>4, RefoldsEvidence DEF WorkInv, n
  <1>7. Follows(g, y, z) /\ z.ctx.fill_obligation >= n
    BY <1>1, <1>2, EvidenceWork DEF n
  <1>8. Bound(z, v) /\ WorkInv(g, z)
    BY <1>5, <1>7, BoundGrows DEF Follows
  <1> QED BY <1>6, <1>7, <1>8 DEF n, y

\* A complete report latches authority in the rebuild as it did in memory.
LEMMA RefoldsCompleted ==
  ASSUME NEW g, NEW d, NEW w, WorkInv(g, w), Refolds(d, w), NEW v, Bound(w, v),
         NEW rep \in Report, ~ MemberError(rep),
         rep.filled - rep.others <= w.ctx.fill_obligation, authority_is_fresh(w.ctx)
  PROVE  Refolds(d, Observed(w, v, rep, TRUE))
  <1> DEFINE r == ReconcileObservedRecord(w.ctx, v, rep.filled, rep.remaining, rep.others, TRUE)
             y == Observed(w, v, rep, TRUE)
  <1>1. PICK e : At(d, w.log, e) /\ Agrees(e, w.ctx)
    BY DEF Refolds
  <1>2. WorkTyped(w) /\ CtxInv(w.ctx) /\ v \in Venues /\ w.ctx.venue_order_id = v
    BY DEF WorkInv, Bound
  <1>3. \E x : FoldRecord(e, r) = Ok(x) /\ Agrees(x, w.ctx)
    BY <1>1, <1>2, FoldCompletes
  <1>4. y = AppendFsync(w, r)
    BY DEF Observed
  <1> HIDE DEF r, y
  <1>5. Wrote(w, r, y, w.ctx)
    BY <1>2, <1>4, AppendForm
  <1>6. Refolds(d, y)
    BY <1>1, <1>3, <1>5, RefoldsNext
  <1> QED BY <1>6 DEF y

\* The last venue remaining moves in memory without a record.
LEMMA RefoldsNoted ==
  ASSUME NEW d, NEW w, WorkTyped(w), CtxInv(w.ctx), Refolds(d, w), NEW n
  PROVE  Refolds(d, [w EXCEPT !.ctx = note_venue_remaining(w.ctx, n)])
  <1>1. CtxTyped(w.ctx)
    BY DEF CtxInv, CtxBase
  <1>2. \A e : Agrees(e, w.ctx) => Agrees(e, note_venue_remaining(w.ctx, n))
    BY <1>1 DEF Agrees, SameRebuilt, Modest, authority_is_fresh, CtxTyped, note_venue_remaining
  <1> DEFINE k == note_venue_remaining(w.ctx, n)
  <1> HIDE DEF k
  <1>3. [w EXCEPT !.ctx = k].log = w.log /\ [w EXCEPT !.ctx = k].ctx = k
    BY ContextWork
  <1> QED BY <1>2, <1>3 DEF Refolds, k

\* Raised evidence is journaled if it is new.
LEMMA EvidenceForm ==
  ASSUME NEW w, WorkTyped(w), NEW n
  PROVE  LET k == raise_fill_obligation(w.ctx, n)
         IN /\ k.fill_obligation > w.ctx.fill_obligation
                 => Wrote(w, ObligationRaisedRecord(k), note_fill_evidence(w, n), k)
            /\ ~ (k.fill_obligation > w.ctx.fill_obligation)
                 => note_fill_evidence(w, n) = [w EXCEPT !.ctx = k]
            /\ WorkTyped(note_fill_evidence(w, n))
  <1> DEFINE k == raise_fill_obligation(w.ctx, n)
             r == ObligationRaisedRecord(k)
             x == [w EXCEPT !.ctx = k]
             y == AppendFsync(x, r)
  <1>1. note_fill_evidence(w, n)
          = IF k.fill_obligation > w.ctx.fill_obligation THEN y ELSE [w EXCEPT !.ctx = k]
    BY DEF note_fill_evidence, WorkTyped
  <1> HIDE DEF k, r
  <1>2. WorkTyped(x)
    BY ContextWork
  <1>3. WorkTyped(y)
    BY <1>2, AppendWork
  <1>4. Wrote(w, r, y, k)
    BY WriteForm
  <1> HIDE DEF y
  <1> QED BY <1>1, <1>2, <1>3, <1>4 DEF k, r

\* A new fill: authority withdrawn,
LEMMA RefoldsBooked ==
  ASSUME NEW g, NEW d, NEW w, WorkInv(g, w), Refolds(d, w), NEW f \in FillRecord,
         FirstSightError(w.ctx, f) = None, w.ctx.applied_fills[f.id] = None
  PROVE  LET y == authority_invalidate_effects([w EXCEPT !.ctx = BookFill(w.ctx, f)])
         IN /\ WorkTyped(y) /\ y.ctx = Booked(w.ctx, f)
            /\ \E e : /\ At(d, y.log, e) /\ Agrees(e, invalidate_authority(w.ctx))
                      /\ ~ e.authority_complete
  <1> DEFINE c == w.ctx
             x == [w EXCEPT !.ctx = BookFill(c, f)]
             b == Booked(c, f)
             r == AuthorityInvalidatedRecord(b)
             y == authority_invalidate_effects(x)
  <1>0. WorkTyped(w) /\ CtxInv(c)
    BY DEF WorkInv
  <1>1. PICK e : At(d, w.log, e) /\ Agrees(e, c)
    BY DEF Refolds
  <1>2. \E z : FoldRecord(e, r) = Ok(z) /\ Agrees(z, invalidate_authority(c))
               /\ ~ z.authority_complete
    BY <1>0, <1>1, NewFillStale
  <1>3. WorkTyped(x) /\ x.ctx = BookFill(c, f)
    BY <1>0, ContextWork
  <1>4. WorkTyped(y)
    <2>1. CtxBase(BookFill(c, f))
      BY <1>0, BookBase
    <2> HIDE DEF x
    <2> QED BY <1>3, <2>1, InvalidateWork
  <1>5. y = AppendFsync([w EXCEPT !.ctx = b], r)
    BY <1>0 DEF authority_invalidate_effects, Booked, WorkTyped
  <1> HIDE DEF b, r, y
  <1>6. Wrote(w, r, y, b)
    BY <1>0, <1>5, WriteForm
  <1>7. \E z : At(d, y.log, z) /\ Agrees(z, invalidate_authority(c)) /\ ~ z.authority_complete
    BY <1>1, <1>2, <1>6, AtNext DEF Wrote
  <1> QED BY <1>4, <1>6, <1>7 DEF Wrote, y, b

\* the obligation raised over it,
LEMMA RefoldsCovered ==
  ASSUME NEW d, NEW c, CtxInv(c), NEW f \in FillRecord, FirstSightError(c, f) = None,
         c.applied_fills[f.id] = None,
         NEW w, WorkTyped(w), w.ctx = Booked(c, f),
         NEW e, At(d, w.log, e), Agrees(e, invalidate_authority(c)), ~ e.authority_complete
  PROVE  LET y == note_fill_evidence(w, w.ctx.attributed_fill_qty)
         IN /\ WorkTyped(y) /\ y.ctx = Covered(c, f)
            /\ \E z : At(d, y.log, z)
                      /\ Agrees(z, restore_fill_obligation(invalidate_authority(c),
                                                           Booked(c, f).attributed_fill_qty))
  <1> DEFINE k == Covered(c, f)
             q == w.ctx.attributed_fill_qty
             m == restore_fill_obligation(invalidate_authority(c), q)
             r == ObligationRaisedRecord(k)
             y == note_fill_evidence(w, q)
             grows == k.fill_obligation > w.ctx.fill_obligation
  <1>1. /\ grows
             => \E z : FoldRecord(e, r) = Ok(z) /\ Agrees(z, m) /\ ~ z.authority_complete
        /\ ~ grows => Agrees(e, m)
    BY NewFillRaised
  <1>2. k = raise_fill_obligation(w.ctx, q)
    BY DEF Covered
  <1>3. /\ grows => Wrote(w, r, y, k)
        /\ ~ grows => y = [w EXCEPT !.ctx = k]
        /\ WorkTyped(y)
    BY <1>2, EvidenceForm
  <1> HIDE DEF k, r, m, y, grows
  <1>4. CASE grows
    <2>1. PICK z : FoldRecord(e, r) = Ok(z) /\ Agrees(z, m)
      BY <1>1, <1>4
    <2>2. At(d, Append(w.log, r), z)
      BY <2>1, AtNext
    <2>3. y.log = Append(w.log, r) /\ y.ctx = k
      BY <1>3, <1>4 DEF Wrote
    <2> QED BY <1>3, <2>1, <2>2, <2>3 DEF k, m, y
  <1>5. CASE ~ grows
    <2>0. y = [w EXCEPT !.ctx = k]
      BY <1>3, <1>5
    <2>1. y.log = w.log /\ y.ctx = k
      BY ONLY <2>0, ContextWork, WorkTyped(w)
    <2> QED BY <1>1, <1>3, <1>5, <2>1 DEF k, m, y
  <1> QED BY <1>4, <1>5

\* and written and booked.
LEMMA RefoldsApply ==
  ASSUME NEW g, NEW d, NEW w, WorkInv(g, w), Refolds(d, w), NEW f \in FillRecord,
         FirstSightError(w.ctx, f) = None, w.ctx.applied_fills[f.id] = None
  PROVE  Refolds(d, ApplyFill(w, f).work)
  <1> DEFINE c == w.ctx
             booked == authority_invalidate_effects([w EXCEPT !.ctx = BookFill(c, f)])
             raised == note_fill_evidence(booked, booked.ctx.attributed_fill_qty)
             r == FillRecordCid(f)
             written == AppendFsync(raised, r)
             emitted == AccountFill(written, f)
             done == [emitted EXCEPT !.ctx = accumulate_response_domain(emitted.ctx, PayloadOf(f))]
             q == Booked(c, f).attributed_fill_qty
             m == restore_fill_obligation(invalidate_authority(c), q)
             k == Covered(c, f)
  <1>0. WorkTyped(w) /\ CtxInv(c)
    BY DEF WorkInv
  <1>1. ApplyFill(w, f).work = done
    <2>1. [w EXCEPT !.ctx = BookFill(@, f)] = [w EXCEPT !.ctx = BookFill(c, f)]
      OBVIOUS
    <2> QED BY <2>1 DEF ApplyFill, Attempt
  <1>2. /\ WorkTyped(booked) /\ booked.ctx = Booked(c, f)
        /\ \E e : /\ At(d, booked.log, e) /\ Agrees(e, invalidate_authority(c))
                  /\ ~ e.authority_complete
    BY RefoldsBooked
  <1> HIDE DEF booked
  <1>3. PICK e : /\ At(d, booked.log, e) /\ Agrees(e, invalidate_authority(c))
                 /\ ~ e.authority_complete
    BY <1>2
  <1>4. /\ WorkTyped(raised) /\ raised.ctx = k
        /\ \E z : At(d, raised.log, z) /\ Agrees(z, m)
    BY <1>0, <1>2, <1>3, RefoldsCovered
  <1>5. PICK z : At(d, raised.log, z) /\ Agrees(z, m)
    BY <1>4
  <1>6. /\ Shaped(m) /\ m.fill_obligation >= q /\ k = BookFill(m, f)
        /\ m.applied_fills = c.applied_fills /\ m.venue_order_id = c.venue_order_id
        /\ m.attributed_fill_qty = c.attributed_fill_qty /\ m.attributed_fee = c.attributed_fee
    BY <1>0, <1>3, NewFillRaised
  <1>7. m.fill_obligation \in Nat
    <2>1. /\ q \in Nat /\ c.fill_obligation \in Nat /\ Shaped(c)
      BY <1>0, BookedNumbers
    <2>2. invalidate_authority(c).fill_obligation = c.fill_obligation
      BY <1>0, InvalidateBase DEF CtxInv
    <2>3. Shaped(invalidate_authority(c))
      BY <2>1 DEF invalidate_authority, Shaped
    <2> HIDE DEF q
    <2> QED BY <2>1, <2>2, <2>3 DEF restore_fill_obligation, Shaped
  <1>8. \E x : /\ FoldRecord(z, r) = Ok(x)
               /\ Agrees(x, accumulate_response_domain(k, PayloadOf(f)))
    <2> HIDE DEF m
    <2> QED BY <1>0, <1>5, <1>6, <1>7, NewFillBooked
  <1> HIDE DEF raised, r, m, k
  <1>9. WorkTyped(written) /\ Wrote(raised, r, written, raised.ctx)
    BY <1>4, AppendWork, AppendForm
  <1>10. \E x : At(d, written.log, x) /\ Agrees(x, accumulate_response_domain(k, PayloadOf(f)))
    BY <1>5, <1>8, <1>9, AtNext DEF Wrote
  <1> HIDE DEF written
  <1>11. WorkTyped(emitted) /\ emitted.log = written.log /\ emitted.ctx = written.ctx
    BY <1>9, AccountWork
  <1>12. emitted.ctx = k
    BY <1>4, <1>9, <1>11 DEF Wrote
  <1> HIDE DEF emitted
  <1>13. done.log = written.log /\ done.ctx = accumulate_response_domain(k, PayloadOf(f))
    <2> DEFINE a == accumulate_response_domain(emitted.ctx, PayloadOf(f))
    <2> HIDE DEF a
    <2>1. [emitted EXCEPT !.ctx = a].log = emitted.log /\ [emitted EXCEPT !.ctx = a].ctx = a
      BY <1>11, ContextWork
    <2> QED BY <1>11, <1>12, <2>1 DEF a
  <1> HIDE DEF done
  <1>14. Refolds(d, done)
    BY <1>10, <1>13 DEF Refolds
  <1> QED BY <1>1, <1>14

\* A known fill: late metadata, or nothing.
LEMMA RefoldsUpgrade ==
  ASSUME NEW g, NEW d, NEW w, WorkInv(g, w), Refolds(d, w), NEW f \in FillRecord,
         w.ctx.applied_fills[f.id] # None, RedeliveryError(w.ctx, f) = None
  PROVE  Refolds(d, UpgradeFill(w, f).work)
  <1> DEFINE c == w.ctx
             k == EnrichFill(c, f)
             r == FillRecordCid(Restated(c, f))
             s == FeeCorrectionRecord(f)
             y == AppendFsync([w EXCEPT !.ctx = k], r)
             z == AppendFsync(y, s)
             corrected == AccountFeeCorrection(z, f.fee)
  <1>0. WorkTyped(w) /\ CtxInv(c)
    BY DEF WorkInv
  <1>1. CASE ~ (VenueArrives(c, f) \/ FeeArrives(c, f))
    <2>1. UpgradeFill(w, f).work = w
      BY <1>1 DEF UpgradeFill, Attempt
    <2> QED BY <2>1
  <1>2. CASE VenueArrives(c, f) \/ FeeArrives(c, f)
    <2>1. UpgradeFill(w, f).work = IF FeeArrives(c, f) THEN corrected ELSE y
      BY <1>2 DEF UpgradeFill, Attempt, Restated
    <2>2. PICK e : At(d, w.log, e) /\ Agrees(e, c)
      BY DEF Refolds
    <2> DEFINE x == EnrichFill(e, Restated(c, f))
    <2>3. /\ FoldRecord(e, r) = Ok(x) /\ Agrees(x, k)
          /\ FeeArrives(c, f) => FoldRecord(x, s) = Ok(x)
      BY <1>0, <1>2, <2>2, FoldUpgrades
    <2> HIDE DEF k, r, s, x
    <2>4. Wrote(w, r, y, k)
      BY <1>0, WriteForm
    <2>5. WorkTyped(y)
      BY <1>0, ContextWork, AppendWork
    <2> HIDE DEF y
    <2>6. Wrote(y, s, z, y.ctx) /\ WorkTyped(z)
      BY <2>5, AppendForm, AppendWork
    <2> HIDE DEF z
    <2>7. At(d, y.log, x) /\ y.ctx = k
      BY <2>2, <2>3, <2>4, AtNext DEF Wrote
    <2>8. Refolds(d, y)
      BY <2>3, <2>7 DEF Refolds
    <2>9. ASSUME FeeArrives(c, f)
          PROVE  Refolds(d, corrected)
      <3>1. FoldRecord(x, s) = Ok(x)
        BY <2>3, <2>9
      <3>2. At(d, z.log, x) /\ z.ctx = k
        BY <2>6, <2>7, <3>1, AtNext DEF Wrote
      <3>3. f.fee # None
        BY <2>9 DEF FeeArrives
      <3>4. corrected.log = z.log /\ corrected.ctx = z.ctx
        BY <2>6, <3>3, AccountWork
      <3> QED BY <2>3, <3>2, <3>4 DEF Refolds
    <2> HIDE DEF corrected
    <2> QED BY <2>1, <2>8, <2>9
  <1> QED BY <1>1, <1>2

\* Accounting a fill, new or repeated, journals what it books.
LEMMA RefoldsAccount ==
  ASSUME NEW g, NEW d, NEW w, WorkInv(g, w), Refolds(d, w), NEW f \in g.fills
  PROVE  Refolds(d, account_fill_core(w, f).work) /\ WorkInv(g, account_fill_core(w, f).work)
  <1>1. f \in FillRecord
    BY DEF WorkInv, Since, Origin
  <1>2. WorkInv(g, account_fill_core(w, f).work)
    BY AccountFillInv DEF AttemptInv, Follows
  <1>3. CASE FillError(w.ctx, f) # None
    BY <1>2, <1>3 DEF account_fill_core, Attempt
  <1>4. CASE FillError(w.ctx, f) = None /\ w.ctx.applied_fills[f.id] = None
    <2>1. FirstSightError(w.ctx, f) = None
      BY <1>4 DEF FillError
    <2>2. Refolds(d, ApplyFill(w, f).work)
      BY <1>1, <1>4, <2>1, RefoldsApply
    <2> QED BY <1>2, <1>4, <2>2 DEF account_fill_core
  <1>5. CASE FillError(w.ctx, f) = None /\ w.ctx.applied_fills[f.id] # None
    <2>1. RedeliveryError(w.ctx, f) = None
      BY <1>5 DEF FillError
    <2>2. Refolds(d, UpgradeFill(w, f).work)
      BY <1>1, <1>5, <2>1, RefoldsUpgrade
    <2> QED BY <1>2, <1>5, <2>2 DEF account_fill_core
  <1> QED BY <1>3, <1>4, <1>5

\* A page of fills is accounted fill by fill, as far as it goes.
LEMMA RefoldsPages ==
  ASSUME NEW g, NEW d, NEW w, WorkInv(g, w), Refolds(d, w), NEW page \in Seq(g.fills)
  PROVE  Refolds(d, AccountPage(w, page).work) /\ Refolds(d, AccountOwnedPage(w, page).work)
  <1> DEFINE Good(a) == WorkInv(g, a.work) /\ Refolds(d, a.work)
             start == Attempt("NoOp", None, w)
             one == IF Len(page) >= 1 THEN AccountNext(start, page[1]) ELSE start
             owned == IF Len(page) >= 1 THEN AccountOwned(start, page[1]) ELSE start
  <1>1. ASSUME NEW a, Good(a), NEW f \in g.fills
        PROVE  Good(AccountNext(a, f)) /\ Good(AccountOwned(a, f))
    <2>1. Good(account_fill_core(a.work, f))
      BY <1>1, RefoldsAccount
    <2>2. Attempt("Halt", "FillOwnershipMismatch", a.work).work = a.work
      BY DEF Attempt
    <2> HIDE DEF Good
    <2>3. Good(Attempt("Halt", "FillOwnershipMismatch", a.work))
      BY <1>1, <2>2 DEF Good
    <2> QED BY <1>1, <2>1, <2>3 DEF AccountNext, AccountOwned
  <1>2. Good(start)
    BY DEF Attempt
  <1>3. /\ Len(page) >= 1 => page[1] \in g.fills
        /\ Len(page) >= 2 => page[2] \in g.fills
    OBVIOUS
  <1> HIDE DEF Good
  <1>4. Good(one) /\ Good(owned)
    BY <1>1, <1>2, <1>3
  <1> HIDE DEF one, owned
  <1>5. /\ Good(IF Len(page) >= 2 THEN AccountNext(one, page[2]) ELSE one)
        /\ Good(IF Len(page) >= 2 THEN AccountOwned(owned, page[2]) ELSE owned)
    BY <1>1, <1>3, <1>4
  <1> QED BY <1>5 DEF Good, AccountPage, AccountOwnedPage, one, owned

-----------------------------------------------------------------------------
(* Every handler leaves a journal that is rebuilt into what it has in      *)
(* memory, or halts an order whose journal is not rebuilt at all           *)

\* Sound work whose journal is rebuilt into its context.
Sound(g, d, w) == WorkInv(g, w) /\ Refolds(d, w)

Fails(d, log) == IsLog(log) /\ ~ rebuild_ctx_from_journal(d, log).ok

Rebuilds(d, o) ==
    \/ Refolds(d, o.work)
    \/ o.state.kind = "Halted" /\ Fails(d, o.work.log)

\* Ending a handler, with or without a halt, journals nothing.
LEMMA SoundEnds ==
  ASSUME NEW g, NEW d, NEW w, Sound(g, d, w)
  PROVE  /\ \A s : Rebuilds(d, accept(s, w))
         /\ \A s : Rebuilds(d, halt_with_reason_state(s, w))
         /\ \A reason : Rebuilds(d, halt_with_reason(reason, w))
  <1>1. ASSUME NEW s PROVE Rebuilds(d, accept(s, w))
    BY DEF accept, Rebuilds, Sound
  <1>2. ASSUME NEW s PROVE Rebuilds(d, halt_with_reason_state(s, w))
    <2>1. Refolds(d, Ask(w, {"HaltNewExposure"}))
      BY RefoldsAsk DEF Sound, WorkInv
    <2> QED BY <2>1 DEF halt_with_reason_state, Rebuilds
  <1> QED BY <1>1, <1>2 DEF halt_with_reason

\* Requests and the latch.
LEMMA SoundAsk ==
  ASSUME NEW g, NEW d, NEW w, Sound(g, d, w), NEW S \in SUBSET Requests
  PROVE  Sound(g, d, Ask(w, S)) /\ Ask(w, S).ctx = w.ctx
  BY AskWork, RefoldsAsk DEF Sound, WorkInv

\* Latching authority leaves the binding alone.
LEMMA SoundLatch ==
  ASSUME NEW g, NEW d, NEW w, Sound(g, d, w), NEW complete
  PROVE  /\ Sound(g, d, note_authority_complete(w, complete))
         /\ \A v : Bound(w, v) => Bound(note_authority_complete(w, complete), v)
  <1>1. Refolds(d, note_authority_complete(w, complete))
    BY RefoldsLatch DEF Sound, WorkInv
  <1>2. Follows(g, w, note_authority_complete(w, complete))
    BY AuthorityWork DEF Sound
  <1> QED BY <1>1, <1>2, BoundGrows DEF Sound, Follows

\* The terminal record restates what is in memory.
LEMMA SoundFinalize ==
  ASSUME NEW g, NEW d, NEW w, Sound(g, d, w), NEW k
  PROVE  Rebuilds(d, Finalize(w, k))
  <1> DEFINE r == OrderTerminalRecord(w.ctx)
             y == AppendFsync(w, r)
             z == [y EXCEPT !.hold = "ReleaseReservation"]
  <1>1. PICK e : At(d, w.log, e) /\ Agrees(e, w.ctx)
    BY DEF Sound, Refolds
  <1>2. PICK x : FoldRecord(e, r) = Ok(x) /\ Agrees(x, w.ctx)
    BY <1>1, FoldTerminates DEF Sound, WorkInv
  <1>3. WorkTyped(w)
    BY DEF Sound, WorkInv
  <1> HIDE DEF r
  <1>4. Wrote(w, r, y, w.ctx)
    BY <1>3, AppendForm
  <1>5. z.log = y.log /\ z.ctx = y.ctx
    BY <1>3 DEF AppendFsync, WorkTyped
  <1> HIDE DEF y
  <1>6. Refolds(d, y)
    BY <1>1, <1>2, <1>4, RefoldsNext
  <1> HIDE DEF z
  <1>7. Refolds(d, z)
    BY <1>5, <1>6, RefoldsSame
  <1>8. Finalize(w, k).work = z
    BY DEF Finalize, accept, z, y, r
  <1> QED BY <1>7, <1>8 DEF Rebuilds

\* An order that may not end yet asks for what is missing.
LEMMA SoundNotReady ==
  ASSUME NEW g, NEW d, NEW w, Sound(g, d, w), NEW v, NEW fallback, NEW request, NEW remaining
  PROVE  Rebuilds(d, not_ready_for_terminal(w, v, fallback, request, remaining))
  <1>1. \A S : Refolds(d, Ask(w, S))
    BY RefoldsAsk DEF Sound, WorkInv
  <1>2. \E s, S : not_ready_for_terminal(w, v, fallback, request, remaining) = accept(s, Ask(w, S))
    BY DEF not_ready_for_terminal
  <1>3. \A s, S : Rebuilds(d, accept(s, Ask(w, S)))
    BY <1>1 DEF accept, Rebuilds
  <1> QED BY <1>2, <1>3

\* Ending an order journals the quantities and the authority it ends with.
LEMMA SoundTry ==
  ASSUME NEW g, NEW d, NEW w, Sound(g, d, w), NEW p, NEW v, NEW fallback
  PROVE  Rebuilds(d, try_finalize_terminal(w, p, v, fallback))
  <1> DEFINE fetching == Ask(w, {"BackfillFills"})
             o == try_finalize_terminal(w, p, v, fallback)
  <1>1. Sound(g, d, fetching)
    BY SoundAsk DEF Requests
  <1> HIDE DEF fetching
  <1>2. \/ \E reason : o = halt_with_reason(reason, w)
        \/ \E t, request, r : o = not_ready_for_terminal(w, v, t, request, r)
        \/ \E t, request, r : o = not_ready_for_terminal(fetching, v, t, request, r)
        \/ \E k : o = Finalize(w, k)
    BY DEF try_finalize_terminal, fetching
  <1>3. /\ \A reason : Rebuilds(d, halt_with_reason(reason, w))
        /\ \A t, request, r : Rebuilds(d, not_ready_for_terminal(w, v, t, request, r))
        /\ \A t, request, r : Rebuilds(d, not_ready_for_terminal(fetching, v, t, request, r))
        /\ \A k : Rebuilds(d, Finalize(w, k))
    BY <1>1, SoundEnds, SoundNotReady, SoundFinalize
  <1> HIDE DEF o
  <1> QED BY <1>2, <1>3 DEF o

\* Live, partial or filled.
LEMMA SoundRoute ==
  ASSUME NEW g, NEW d, NEW w, Sound(g, d, w), NEW v
  PROVE  Rebuilds(d, route_live_or_filled(w, v))
  <1> DEFINE x == note_authority_complete(w, TRUE)
             o == route_live_or_filled(w, v)
  <1>1. Sound(g, d, x)
    BY SoundLatch
  <1> HIDE DEF x
  <1>2. \/ \E reason : o = halt_with_reason(reason, w)
        \/ \E p : o = try_finalize_terminal(x, p, v, "Filled")
        \/ \E s : o = accept(s, w)
    BY DEF route_live_or_filled, x
  <1> HIDE DEF o
  <1> QED BY <1>1, <1>2, SoundEnds, SoundTry DEF o

\* Filling in what the response already says changes nothing.
LEMMA SoundKept ==
  ASSUME NEW g, NEW d, NEW w, Sound(g, d, w), NEW a, NEW b,
         a = w.ctx.response.avg, b = w.ctx.response.fee
  PROVE  Sound(g, d, Carried(w, a, b)) /\ Carried(w, a, b).ctx = w.ctx
  <1> DEFINE p == w.ctx.response
             r == [p EXCEPT !.avg = a, !.fee = b]
             c == [w.ctx EXCEPT !.response = r]
             x == Carried(w, a, b)
  <1>1. WorkTyped(w) /\ CtxTyped(w.ctx) /\ WorkInv(g, w)
    BY DEF Sound, WorkInv, CtxInv, CtxBase
  <1>2. r = p
    BY <1>1 DEF CtxTyped, ResponseSnapshot
  <1>3. x = [w EXCEPT !.ctx = c]
    BY DEF Carried
  <1> HIDE DEF r
  <1>4. c = w.ctx
    BY <1>1, <1>2 DEF CtxTyped
  <1> HIDE DEF c, x
  <1>5. x = w
    BY <1>1, <1>3, <1>4 DEF WorkTyped
  <1> QED BY <1>5 DEF x, Sound

\* An unattributed immediate fill, resolved or not.
LEMMA SoundResolve ==
  ASSUME NEW g, NEW d, NEW w, Sound(g, d, w), NEW s, StateInv(s, w.ctx),
         s.kind = "ImmediateFillUnattributed"
  PROVE  Rebuilds(d, resolve_unattributed(w, s))
  <1> DEFINE avg == OrElse(w.ctx.response.avg, s.resp.avg)
             fee == OrElse(w.ctx.response.fee, s.resp.fee)
             kept == Carried(w, avg, fee)
             o == resolve_unattributed(w, s)
  <1>1. [s.resp EXCEPT !.remaining_count = None] = RespOf(w.ctx) /\ s.resp \in Resp
    BY DEF StateInv, Mirrors, OrderState
  <1>2. s.resp.avg = w.ctx.response.avg /\ s.resp.fee = w.ctx.response.fee
    <2> DEFINE q == [s.resp EXCEPT !.remaining_count = None]
    <2>1. q.avg = s.resp.avg /\ q.fee = s.resp.fee
      BY <1>1 DEF Resp
    <2>2. q.avg = w.ctx.response.avg /\ q.fee = w.ctx.response.fee
      BY <1>1 DEF RespOf
    <2> QED BY <2>1, <2>2
  <1>3. avg = w.ctx.response.avg /\ fee = w.ctx.response.fee
    BY <1>2 DEF OrElse
  <1>4. o \in {accept(s, w), halt_with_reason("ImmediateFillCrossCheckMismatch", w),
               halt_with_reason("CrossCheckMismatch", w), route_live_or_filled(kept, s.venue)}
    BY DEF resolve_unattributed, Carried
  <1> HIDE DEF avg, fee
  <1>5. Sound(g, d, kept)
    BY <1>3, SoundKept
  <1> HIDE DEF kept, o
  <1>6. Rebuilds(d, route_live_or_filled(kept, s.venue))
    BY <1>5, SoundRoute
  <1> QED BY <1>4, <1>6, SoundEnds DEF o

\* A create response without fills.
LEMMA SoundZero ==
  ASSUME NEW g, NEW d, NEW w, Sound(g, d, w), NEW r
  PROVE  Rebuilds(d, ZeroFillResponse(w, r))
  <1> DEFINE x == note_authority_complete(w, TRUE)
             o == ZeroFillResponse(w, r)
  <1>1. Sound(g, d, x)
    BY SoundLatch
  <1> HIDE DEF x
  <1>2. \/ \E reason : o = halt_with_reason(reason, w)
        \/ o = try_finalize_terminal(x, ProposedCanceled, r.venue, "Canceled")
        \/ \E s : o = accept(s, w)
        \/ o = route_live_or_filled(w, r.venue)
    BY DEF ZeroFillResponse, x
  <1> HIDE DEF o
  <1> QED BY <1>1, <1>2, SoundEnds, SoundTry, SoundRoute DEF o

\* A page of immediate fills.
LEMMA SoundPage ==
  ASSUME NEW g, NEW d, NEW w, Sound(g, d, w), NEW page \in Seq(g.fills)
  PROVE  /\ Sound(g, d, AccountPage(w, page).work)
         /\ Sound(g, d, AccountOwnedPage(w, page).work)
         /\ PageInv(g, w, AccountPage(w, page))
         /\ PageInv(g, w, AccountOwnedPage(w, page))
  <1>1. PageInv(g, w, AccountPage(w, page)) /\ PageInv(g, w, AccountOwnedPage(w, page))
    BY PagesInv DEF Sound
  <1>2. Refolds(d, AccountPage(w, page).work) /\ Refolds(d, AccountOwnedPage(w, page).work)
    BY RefoldsPages DEF Sound
  <1> QED BY <1>1, <1>2 DEF Sound, PageInv, Follows

\* Binding the venue.
LEMMA SoundBind ==
  ASSUME NEW g, NEW d, NEW w, Sound(g, d, w), NEW v \in Venues, BindError(w.ctx, v) = None
  PROVE  /\ Sound(g, d, bind_venue_id(w, v)) /\ Bound(bind_venue_id(w, v), v)
         /\ Follows(g, w, bind_venue_id(w, v))
         /\ bind_venue_id(w, v).ctx.response = w.ctx.response
  <1>1. Refolds(d, bind_venue_id(w, v))
    BY RefoldsBind DEF Sound, WorkInv
  <1>2. Follows(g, w, bind_venue_id(w, v)) /\ bind_venue_id(w, v).ctx.venue_order_id = v
    BY BindWork DEF Sound
  <1>3. SameReply(w.ctx, bind_venue_id(w, v).ctx)
    BY OperationsReply DEF Sound, WorkInv, CtxInv, CtxBase
  <1> QED BY <1>1, <1>2, <1>3 DEF Sound, Follows, Bound, SameReply

\* The backfill of an immediate fill.
LEMMA SoundImmediate ==
  ASSUME NEW g, NEW d, NEW w, Sound(g, d, w), NEW s, StateInv(s, w.ctx),
         s.kind = "ImmediateFillUnattributed", NEW page \in Seq(g.fills)
  PROVE  Rebuilds(d, apply_immediate_fill_backfill(s, w, page))
  <1> DEFINE x == bind_venue_id(w, s.venue)
             a == AccountPage(x, page)
             o == apply_immediate_fill_backfill(s, w, page)
  <1>1. Bound(w, s.venue) /\ WorkInv(g, w)
    BY StateBound DEF Sound
  <1>2. CASE BindError(w.ctx, s.venue) # None
    BY <1>2, SoundEnds DEF apply_immediate_fill_backfill
  <1>3. CASE BindError(w.ctx, s.venue) = None
    <2>1. o = IF a.tag = "Halt" THEN halt_with_reason(a.reason, a.work)
              ELSE resolve_unattributed(a.work, s)
      BY <1>3 DEF apply_immediate_fill_backfill, ResolveAccounted
    <2>2. Sound(g, d, x) /\ Follows(g, w, x) /\ x.ctx.response = w.ctx.response
      BY <1>1, <1>3, SoundBind DEF Bound
    <2> HIDE DEF x
    <2>3. Sound(g, d, a.work) /\ PageInv(g, x, a)
      BY <2>2, SoundPage
    <2> HIDE DEF a
    <2>4. Follows(g, w, a.work)
      BY <1>1, <2>2, <2>3, FollowsTransitive DEF PageInv
    <2>5. StateInv(s, a.work.ctx)
      <3>1. Mirrors(s, w.ctx) /\ a.work.ctx.response = w.ctx.response
        BY <2>2, <2>3 DEF PageInv, StateInv
      <3>2. Mirrors(s, a.work.ctx)
        BY <3>1, MirrorsStay
      <3> QED BY <1>1, <2>4, <3>2, StateGrows DEF Follows, WorkInv, CtxInv
    <2>6. Rebuilds(d, resolve_unattributed(a.work, s))
      BY <2>3, <2>5, SoundResolve
    <2>7. Rebuilds(d, halt_with_reason(a.reason, a.work))
      BY <2>3, SoundEnds
    <2> HIDE DEF o
    <2> QED BY <2>1, <2>6, <2>7 DEF o
  <1> QED BY <1>2, <1>3

\* A record that the rebuild stops at, and the records after it.
LEMMA FailsNext ==
  ASSUME NEW d, NEW log, NEW e, At(d, log, e), NEW r, ~ FoldRecord(e, r).ok
  PROVE  Fails(d, Append(log, r))
  <1>1. IsLog(Append(log, r))
    BY LogGrows DEF At
  <1>2. rebuild_ctx_from_journal(d, Append(log, r)) = Advance(Ok(e), r)
    BY RebuildAppend DEF At
  <1>3. Advance(Ok(e), r) = FoldRecord(e, r)
    BY DEF Advance, Ok
  <1> QED BY <1>1, <1>2, <1>3 DEF Fails

\* No record mends a rebuild that has stopped.
LEMMA FailsMore ==
  ASSUME NEW d, NEW log, Fails(d, log), NEW r
  PROVE  Fails(d, Append(log, r))
  <1>1. IsLog(Append(log, r))
    BY LogGrows DEF Fails
  <1>2. rebuild_ctx_from_journal(d, Append(log, r))
          = Advance(rebuild_ctx_from_journal(d, log), r)
    BY RebuildAppend DEF Fails
  <1>3. ~ Advance(rebuild_ctx_from_journal(d, log), r).ok
    BY DEF Advance, Fails
  <1> QED BY <1>1, <1>2, <1>3 DEF Fails

\* The evidence of a response, journalled before the domain is recomputed, is
\* journalled as after it.
LEMMA EvidenceAside ==
  ASSUME NEW w, WorkTyped(w), Shaped(w.ctx), NEW m, NEW c, c = [w.ctx EXCEPT !.domain = m],
         NEW z, z = [w EXCEPT !.ctx = c], NEW n
  PROVE  /\ NoteResponseEvidence(z, n).log = NoteResponseEvidence(w, n).log
         /\ NoteResponseEvidence(w, n).ctx = raise_fill_obligation(w.ctx, n)
  <1> DEFINE k == raise_fill_obligation(w.ctx, n)
             l == raise_fill_obligation(c, n)
             x == note_fill_evidence(w, n)
             y == note_fill_evidence(z, n)
  <1>1. WorkTyped(z) /\ z.ctx = c /\ z.log = w.log
    BY ContextWork
  <1>2. /\ c.fill_obligation = w.ctx.fill_obligation
        /\ c.authority_epoch = w.ctx.authority_epoch
    BY DEF Shaped
  <1>3. l.fill_obligation = k.fill_obligation /\ l.authority_epoch = k.authority_epoch
    BY DEF Shaped, raise_fill_obligation, invalidate_authority
  <1>4. ObligationRaisedRecord(k) = ObligationRaisedRecord(l)
        /\ AuthorityInvalidatedRecord(k) = AuthorityInvalidatedRecord(l)
    BY <1>3 DEF ObligationRaisedRecord, AuthorityInvalidatedRecord
  <1> HIDE DEF k, l
  <1>5. x.ctx = k /\ y.ctx = l /\ x.log = y.log /\ WorkTyped(x) /\ WorkTyped(y)
    <2>1. /\ k.fill_obligation > w.ctx.fill_obligation
                 => Wrote(w, ObligationRaisedRecord(k), x, k)
          /\ ~ (k.fill_obligation > w.ctx.fill_obligation) => x = [w EXCEPT !.ctx = k]
          /\ WorkTyped(x)
      BY EvidenceForm DEF k
    <2>2. /\ l.fill_obligation > z.ctx.fill_obligation
                 => Wrote(z, ObligationRaisedRecord(l), y, l)
          /\ ~ (l.fill_obligation > z.ctx.fill_obligation) => y = [z EXCEPT !.ctx = l]
          /\ WorkTyped(y)
      <3> DEFINE j == raise_fill_obligation(z.ctx, n)
      <3>1. /\ j.fill_obligation > z.ctx.fill_obligation
                 => Wrote(z, ObligationRaisedRecord(j), y, j)
            /\ ~ (j.fill_obligation > z.ctx.fill_obligation) => y = [z EXCEPT !.ctx = j]
            /\ WorkTyped(y)
        BY <1>1, EvidenceForm
      <3>2. j = l
        BY <1>1 DEF l
      <3> HIDE DEF j, y
      <3> QED BY <3>1, <3>2
    <2> HIDE DEF x, y
    <2>3. CASE k.fill_obligation > w.ctx.fill_obligation
      BY <1>1, <1>2, <1>3, <1>4, <2>1, <2>2, <2>3 DEF Wrote
    <2>4. CASE ~ (k.fill_obligation > w.ctx.fill_obligation)
      <3>1. x = [w EXCEPT !.ctx = k] /\ y = [z EXCEPT !.ctx = l]
        BY <1>1, <1>2, <1>3, <2>1, <2>2, <2>4
      <3>2. x.ctx = k /\ x.log = w.log /\ y.ctx = l /\ y.log = z.log
        BY <1>1, <3>1, ContextWork
      <3> QED BY <1>1, <2>1, <2>2, <3>2
    <2> QED BY <2>3, <2>4
  <1>6. NoteResponseEvidence(w, n)
          = IF x.ctx.authority_epoch # w.ctx.authority_epoch
            THEN AppendFsync(x, AuthorityInvalidatedRecord(x.ctx)) ELSE x
    BY DEF NoteResponseEvidence
  <1>7. NoteResponseEvidence(z, n)
          = IF y.ctx.authority_epoch # z.ctx.authority_epoch
            THEN AppendFsync(y, AuthorityInvalidatedRecord(y.ctx)) ELSE y
    BY DEF NoteResponseEvidence
  <1> HIDE DEF x, y
  <1> DEFINE r == AuthorityInvalidatedRecord(k)
  <1> HIDE DEF r
  <1>8. Wrote(x, r, AppendFsync(x, r), x.ctx) /\ Wrote(y, r, AppendFsync(y, r), y.ctx)
    BY <1>5, AppendForm
  <1>9. /\ NoteResponseEvidence(w, n)
             = IF k.authority_epoch # w.ctx.authority_epoch THEN AppendFsync(x, r) ELSE x
        /\ NoteResponseEvidence(z, n)
             = IF k.authority_epoch # w.ctx.authority_epoch THEN AppendFsync(y, r) ELSE y
    BY <1>1, <1>2, <1>3, <1>4, <1>5, <1>6, <1>7 DEF r
  <1> QED BY <1>5, <1>8, <1>9 DEF Wrote, k

\* A rebuild that is bound already takes the bind record as it is.
LEMMA NamedSame ==
  ASSUME NEW d, NEW w, WorkTyped(w), CtxTyped(w.ctx), NEW v \in Venues,
         BindError(w.ctx, v) = None
  PROVE  /\ bind_venue_id(w, v).ctx = Bind(w.ctx, v)
         /\ \A x : At(d, w.log, x) /\ Shaped(x) /\ x.venue_order_id = v
               => At(d, bind_venue_id(w, v).log, x)
         /\ Fails(d, w.log) => Fails(d, bind_venue_id(w, v).log)
  <1> DEFINE k == Bind(w.ctx, v)
             r == VenueBoundRecord(v)
             y == AppendFsync([w EXCEPT !.ctx = k], r)
  <1>1. CASE w.ctx.venue_order_id = None
    <2>1. bind_venue_id(w, v) = y
      BY <1>1 DEF bind_venue_id
    <2>2. ASSUME NEW x, Shaped(x), x.venue_order_id = v
          PROVE  FoldRecord(x, r) = Ok(x)
      <3>1. FoldRecord(x, r) = AfterBind(x, v, Ok(Bind(x, v)))
        BY FoldDispatch
      <3>2. BindError(x, v) = None /\ Bind(x, v) = x
        BY <2>2, NoneAssumption DEF BindError, Bind, Shaped
      <3> QED BY <3>1, <3>2 DEF AfterBind
    <2> HIDE DEF k, r
    <2>3. Wrote(w, r, y, k)
      BY WriteForm
    <2> HIDE DEF y
    <2>4. y.log = Append(w.log, r) /\ y.ctx = k
      BY <2>3 DEF Wrote
    <2>5. ASSUME NEW x, At(d, w.log, x), Shaped(x), x.venue_order_id = v
          PROVE  At(d, y.log, x)
      BY <2>2, <2>4, <2>5, AtNext
    <2>6. Fails(d, w.log) => Fails(d, y.log)
      BY <2>4, FailsMore
    <2> QED BY <2>1, <2>4, <2>5, <2>6 DEF k
  <1>2. CASE w.ctx.venue_order_id # None
    <2>1. w.ctx.venue_order_id = v
      BY <1>2, NoneAssumption DEF BindError, HaltReason
    <2>2. Bind(w.ctx, v) = w.ctx
      BY <2>1 DEF Bind, CtxTyped
    <2>3. bind_venue_id(w, v) = w
      BY <1>2 DEF bind_venue_id
    <2> QED BY <2>2, <2>3
  <1> QED BY <1>1, <1>2

\* The work w with the context c.
WithContext(w, c) == [w EXCEPT !.ctx = c]

\* The response of a bound order, once its evidence is noted and its domain known.
LEMMA SoundReady ==
  ASSUME NEW g, NEW d, NEW w, WorkTyped(w), CtxTyped(w.ctx),
         NEW c, c = recompute_response_domain(w.ctx),
         NEW z, z = WithContext(w, c),
         WorkInv(g, z), NEW n \in Nat, ~ RaiseFails(n),
         NEW x, At(d, w.log, x), Agrees(x, restore_fill_obligation(c, n)),
         NEW raised, raised = NoteResponseEvidence(w, n),
         NEW y, y = WithContext(raised, recompute_response_domain(raised.ctx))
  PROVE  /\ Refolds(d, y)
         /\ raised.ctx = raise_fill_obligation(w.ctx, n)
         /\ recompute_response_domain(raised.ctx) = raise_fill_obligation(c, n)
  <1> DEFINE settled == recompute_response_domain(raised.ctx)
  <1>1. Shaped(w.ctx)
    BY ShapedContext
  <1>2. z.ctx = c /\ z.log = w.log /\ WorkInv(g, z)
    BY ContextWork DEF WithContext
  <1>3. c = [w.ctx EXCEPT !.domain = DomainOf(w.ctx)]
    BY DEF recompute_response_domain
  <1>4. NoteResponseEvidence(z, n).log = raised.log
        /\ raised.ctx = raise_fill_obligation(w.ctx, n)
    BY <1>1, <1>3, EvidenceAside DEF WithContext
  <1>5. Sees(d, z, n)
    BY <1>2 DEF Sees
  <1>6. Refolds(d, NoteResponseEvidence(z, n))
        /\ NoteResponseEvidence(z, n).ctx = raise_fill_obligation(c, n)
    BY ONLY <1>2, <1>5, n \in Nat, ~ RaiseFails(n), RefoldsResponseEvidence
  <1>7. settled = raise_fill_obligation(c, n)
    BY <1>1, <1>4, RecomputeCommutes
  <1> HIDE DEF settled
  <1>8. WorkTyped(raised)
    <2>1. WorkTyped(note_fill_evidence(w, n))
      BY EvidenceForm
    <2>2. \A u, r : WorkTyped(u) => WorkTyped(AppendFsync(u, r))
      BY AppendWork
    <2> QED BY <2>1, <2>2 DEF NoteResponseEvidence
  <1>9. y.log = raised.log /\ y.ctx = settled
    <2>1. \A c1 : /\ [raised EXCEPT !.ctx = c1].ctx = c1
                  /\ [raised EXCEPT !.ctx = c1].log = raised.log
      BY ONLY <1>8, ContextWork
    <2> QED BY <2>1 DEF settled, WithContext
  <1>10. Refolds(d, y)
    BY <1>4, <1>6, <1>7, <1>9, RefoldsSame
  <1> QED BY <1>4, <1>7, <1>10 DEF settled

\* The record of the unattributed fill.
LEMMA RefoldsUnattributed ==
  ASSUME NEW d, NEW w, WorkTyped(w), CtxInv(w.ctx), Refolds(d, w), NEW v \in Venues,
         w.ctx.venue_order_id = v, NEW p \in ResponseSnapshot, w.ctx.response = p,
         p.fill_count \in Nat, p.fill_count <= w.ctx.fill_obligation
  PROVE  Refolds(d, AppendFsync(w, UnattributedRecord(v, p)))
  <1> DEFINE r == UnattributedRecord(v, p)
             y == AppendFsync(w, r)
  <1>1. PICK e : At(d, w.log, e) /\ Agrees(e, w.ctx)
    BY DEF Refolds
  <1>2. PICK x : FoldRecord(e, r) = Ok(x) /\ Agrees(x, w.ctx)
    BY <1>1, FoldUnattributes
  <1> HIDE DEF r
  <1>3. Wrote(w, r, y, w.ctx)
    BY AppendForm
  <1> HIDE DEF y
  <1>4. Refolds(d, y)
    BY <1>1, <1>2, <1>3, RefoldsNext
  <1> QED BY <1>4 DEF y, r

\* A handler that halts may leave a journal that does not rebuild.
LEMMA HaltFails ==
  ASSUME NEW d, NEW w, WorkTyped(w), Fails(d, w.log), NEW reason
  PROVE  Rebuilds(d, halt_with_reason(reason, w))
  <1>1. Ask(w, {"HaltNewExposure"}).log = w.log
    BY DEF Ask, WorkTyped
  <1>2. Halted(reason).kind = "Halted"
    BY DEF Halted, Plain
  <1> QED BY <1>1, <1>2 DEF halt_with_reason, halt_with_reason_state, Rebuilds

\* Relaxed work stays sound: a rebuild does not depend on the claim of Exact.
LEMMA RelaxedSound ==
  ASSUME NEW g, NEW d, NEW w, Sound(g, d, w)
  PROVE  Sound(Relaxed(g), d, w) /\ \A c : Claimed(Relaxed(g), c)
  BY RelaxWork DEF Sound, Claimed, Relaxed

\* A response whose bind fails stops the rebuild too.
LEMMA SubmitConflict ==
  ASSUME NEW g, NEW d, NEW w, Sound(g, d, w), NEW v, NEW p, BindError(w.ctx, v) # None,
         NEW reason
  PROVE  Rebuilds(d, halt_with_reason(reason, AppendFsync(w, SubmitResponseRecord(v, p))))
  <1> DEFINE r == SubmitResponseRecord(v, p)
             y == AppendFsync(w, r)
  <1>1. PICK e : At(d, w.log, e) /\ Agrees(e, w.ctx)
    BY DEF Sound, Refolds
  <1>2. BindError(e, v) # None
    BY <1>1, SameErrors DEF Agrees
  <1>3. FoldRecord(e, r) = FoldSubmitResponse(e, r) /\ r.venue = v
    BY ResponseDispatch DEF SubmitResponseRecord
  <1> HIDE DEF r
  <1>4. ~ FoldRecord(e, r).ok
    BY <1>2, <1>3 DEF FoldSubmitResponse, AfterBind, Err
  <1>5. WorkTyped(w)
    BY DEF Sound, WorkInv
  <1>6. Wrote(w, r, y, w.ctx) /\ WorkTyped(y)
    BY <1>5, AppendForm, AppendWork
  <1> HIDE DEF y
  <1>7. Fails(d, y.log)
    BY <1>1, <1>4, <1>6, FailsNext DEF Wrote
  <1>8. Rebuilds(d, halt_with_reason(reason, y))
    BY <1>6, <1>7, HaltFails
  <1> QED BY <1>8 DEF y, r

\* The record of the response and the binding that follows it.
LEMMA SubmitBound ==
  ASSUME NEW g, NEW d, NEW w, Sound(g, d, w), NEW v \in Venues, NEW p \in ResponseSnapshot,
         BindError(w.ctx, v) = None, p.fill_count \in Nat,
         NEW named, named = bind_venue_id(AppendFsync(w, SubmitResponseRecord(v, p)), v)
  PROVE  LET bound == note_venue_remaining(Bind(w.ctx, v), p.remaining_count)
             settled == recompute_response_domain([bound EXCEPT !.response = p])
         IN /\ WorkInv(g, named) /\ named.ctx = Bind(w.ctx, v)
            /\ p.fill_count = 0 => \E x : At(d, named.log, x) /\ Agrees(x, bound)
            /\ p.fill_count # 0 /\ p.fill_count <= Qty
                 => \E x : /\ At(d, named.log, x)
                           /\ Agrees(x, restore_fill_obligation(settled, p.fill_count))
            /\ p.fill_count > Qty => Fails(d, named.log)
  <1> DEFINE bound == note_venue_remaining(Bind(w.ctx, v), p.remaining_count)
             settled == recompute_response_domain([bound EXCEPT !.response = p])
             full == restore_fill_obligation(settled, p.fill_count)
             r == SubmitResponseRecord(v, p)
             logged == AppendFsync(w, r)
             c == w.ctx
  <1>1. PICK e : At(d, w.log, e) /\ Agrees(e, c)
    BY DEF Sound, Refolds
  <1>2. CtxInv(c) /\ CtxTyped(c) /\ WorkInv(g, w) /\ WorkTyped(w)
    BY DEF Sound, WorkInv, CtxInv, CtxBase
  <1>3. /\ p.fill_count = 0
                 => \E x : /\ FoldRecord(e, r) = Ok(x)
                           /\ Agrees(x, bound) /\ x.venue_order_id = v
        /\ p.fill_count # 0 /\ p.fill_count <= Qty
                 => \E x : /\ FoldRecord(e, r) = Ok(x)
                           /\ Agrees(x, full)
                           /\ x.venue_order_id = v
        /\ p.fill_count > Qty => ~ FoldRecord(e, r).ok
    BY <1>1, <1>2, FoldSubmits
  <1>4. WorkInv(g, logged) /\ logged.ctx = c
    <2>1. r.rec \notin Reserved
      BY Unreserved
    <2> HIDE DEF r
    <2> QED BY <1>2, <2>1, LogWork
  <1> HIDE DEF bound, full, r
  <1>5. logged.log = Append(w.log, r)
    BY <1>2, AppendForm DEF Wrote
  <1>6. named = bind_venue_id(logged, v)
    BY DEF r
  <1> HIDE DEF logged
  <1>7. WorkInv(g, named)
    BY <1>4, <1>6, BindWork DEF Follows
  <1>8. /\ named.ctx = Bind(c, v)
        /\ \A x : At(d, logged.log, x) /\ Shaped(x) /\ x.venue_order_id = v
               => At(d, named.log, x)
        /\ Fails(d, logged.log) => Fails(d, named.log)
    BY <1>2, <1>4, <1>6, NamedSame DEF WorkInv
  <1>9. ASSUME NEW x, FoldRecord(e, r) = Ok(x), x.venue_order_id = v, NEW m, Agrees(x, m)
        PROVE  At(d, named.log, x)
    <2>1. At(d, logged.log, x)
      BY <1>1, <1>5, <1>9, AtNext
    <2> QED BY <1>8, <1>9, <2>1 DEF Agrees
  <1>10. p.fill_count = 0 => \E x : At(d, named.log, x) /\ Agrees(x, bound)
    BY <1>3, <1>9
  <1>11. p.fill_count # 0 /\ p.fill_count <= Qty => \E x : At(d, named.log, x) /\ Agrees(x, full)
    BY <1>3, <1>9
  <1>12. p.fill_count > Qty => Fails(d, named.log)
    BY <1>1, <1>3, <1>5, <1>8, FailsNext
  <1> QED BY <1>7, <1>8, <1>10, <1>11, <1>12 DEF bound, full

\* What is left of a response once its snapshot is taken: the evidence, the
\* domain, and the record of the unattributed fill.
LEMMA SubmitReady ==
  ASSUME NEW g, NEW d, NEW snapped, WorkInv(g, snapped), \A c : Claimed(g, c),
         NEW r \in Response, Bound(snapped, r.venue), snapped.ctx.response = SnapshotOf(r),
         ~ RaiseFails(r.fill_count),
         NEW x, At(d, snapped.log, x),
         Agrees(x, restore_fill_obligation(recompute_response_domain(snapped.ctx), r.fill_count)),
         NEW raised, raised = NoteResponseEvidence(snapped, r.fill_count),
         NEW ready, ready = [raised EXCEPT !.ctx = recompute_response_domain(raised.ctx)],
         NEW entered, entered = Ask(AppendFsync(ready, UnattributedRecord(r.venue, SnapshotOf(r))),
                                    {"BackfillFills"})
  PROVE  /\ Sound(g, d, ready) /\ Sound(g, d, entered)
         /\ StateInv(Unattributed(r), entered.ctx)
         /\ Unattributed(r).kind = "ImmediateFillUnattributed"
  <1> DEFINE n == r.fill_count
             v == r.venue
             p == SnapshotOf(r)
             c == recompute_response_domain(snapped.ctx)
             k == recompute_response_domain(raised.ctx)
             filed == AppendFsync(ready, UnattributedRecord(v, p))
  <1>0. n \in Nat /\ p \in ResponseSnapshot /\ p.fill_count = n /\ v \in Venues
    BY DEF Response, Opt, SnapshotOf, ResponseSnapshot
  <1>1. WorkTyped(snapped) /\ CtxInv(snapped.ctx) /\ CtxTyped(snapped.ctx)
    BY DEF WorkInv, CtxInv, CtxBase
  <1> HIDE DEF p
  <1>2. WorkInv(g, [snapped EXCEPT !.ctx = c]) /\ CtxInv(c)
    <2>1. /\ CtxInv(c) /\ Grows(snapped.ctx, c) /\ SameBooks(snapped.ctx, c)
          /\ c.venue_order_id = snapped.ctx.venue_order_id /\ Claimed(g, c)
      BY <1>1, RecomputeInv
    <2> HIDE DEF c
    <2> QED BY <2>1, FrameContext
  <1>3. /\ Refolds(d, ready)
        /\ raised.ctx = raise_fill_obligation(snapped.ctx, n)
        /\ k = raise_fill_obligation(c, n)
    <2> HIDE DEF k
    <2> DEFINE z == WithContext(snapped, c)
    <2>1. WorkInv(g, z)
      BY <1>2 DEF WithContext
    <2>2. ready = WithContext(raised, recompute_response_domain(raised.ctx))
      BY DEF WithContext
    <2>3. c = recompute_response_domain(snapped.ctx) /\ z = WithContext(snapped, c)
      OBVIOUS
    <2>4. k = recompute_response_domain(raised.ctx)
      BY DEF k
    <2> HIDE DEF n, c, z, k
    <2>5. ~ RaiseFails(n) /\ Agrees(x, restore_fill_obligation(c, n))
          /\ raised = NoteResponseEvidence(snapped, n)
      BY <2>3 DEF n
    <2>6. /\ Refolds(d, ready)
          /\ raised.ctx = raise_fill_obligation(snapped.ctx, n)
          /\ recompute_response_domain(raised.ctx) = raise_fill_obligation(c, n)
      BY ONLY <1>0, <1>1, <2>1, <2>2, <2>3, <2>5, At(d, snapped.log, x), SoundReady
    <2> QED BY <2>4, <2>6
  <1>4. WorkInv(g, raised) /\ raised.ctx.response = p /\ raised.ctx.venue_order_id = v
    <2>1. Follows(g, snapped, raised)
      BY <1>0, ResponseEvidenceWork
    <2>2. SameReply(snapped.ctx, raised.ctx)
      BY <1>1, OperationsReply
    <2>3. Bound(raised, v)
      BY <2>1, BoundGrows
    <2> QED BY <2>1, <2>2, <2>3 DEF Follows, SameReply, Bound, p
  <1>5. /\ CtxInv(k) /\ Grows(raised.ctx, k) /\ SameBooks(raised.ctx, k)
        /\ k.venue_order_id = v /\ k.response = p
    BY <1>4, RecomputeInv DEF WorkInv, recompute_response_domain, CtxInv, CtxBase, CtxTyped
  <1>6. k.fill_obligation \in Nat /\ n <= k.fill_obligation
    <2>1. /\ c.attributed_fill_qty <= c.fill_obligation /\ CtxBase(c)
      BY <1>2 DEF CtxInv
    <2> HIDE DEF c
    <2>2. raise_fill_obligation(c, n).fill_obligation >= n
      BY <1>0, <2>1, RaiseInv
    <2>3. k.fill_obligation \in Nat
      BY <1>5, Numbers DEF CtxInv
    <2> QED BY <1>0, <1>3, <2>2, <2>3
  <1>7. WorkInv(g, ready) /\ ready.ctx = k
    <2> HIDE DEF k
    <2>1. ready = [raised EXCEPT !.ctx = k]
      BY DEF k
    <2>2. Claimed(g, k) /\ k.venue_order_id = raised.ctx.venue_order_id
      BY <1>4, <1>5
    <2> QED BY ONLY <1>4, <1>5, <2>1, <2>2, FrameContext
  <1> HIDE DEF k
  <1>8. Sound(g, d, filed) /\ filed.ctx = k
    <2>1. UnattributedRecord(v, p).rec \notin Reserved
      BY Unreserved
    <2>2. WorkInv(g, filed) /\ filed.ctx = ready.ctx
      <3>1. ASSUME NEW q, q.rec \notin Reserved
            PROVE  WorkInv(g, AppendFsync(ready, q)) /\ AppendFsync(ready, q).ctx = ready.ctx
        BY ONLY <1>7, <3>1, LogWork
      <3> QED BY <2>1, <3>1
    <2>3. Refolds(d, filed)
      BY <1>0, <1>3, <1>5, <1>6, <1>7, RefoldsUnattributed DEF WorkInv
    <2> QED BY <1>7, <2>2, <2>3 DEF Sound
  <1>9. entered = Ask(filed, {"BackfillFills"})
    BY DEF p
  <1> HIDE DEF filed
  <1>10. Sound(g, d, entered) /\ entered.ctx = k
    BY <1>8, <1>9, SoundAsk DEF Requests
  <1>11. StateInv(Unattributed(r), k) /\ Unattributed(r).kind = "ImmediateFillUnattributed"
    BY <1>5, UnattributedState DEF p
  <1> QED BY <1>3, <1>7, <1>10, <1>11 DEF Sound

\* A create response, in the order of the code.
LEMMA SoundSubmit ==
  ASSUME NEW g, NEW d, NEW w, Sound(g, d, w), NEW r \in Response
  PROVE  Rebuilds(d, apply_submit_response(w, r))
  <1> DEFINE v == r.venue
             p == SnapshotOf(r)
             n == r.fill_count
             logged == AppendFsync(w, SubmitResponseRecord(v, p))
             named == bind_venue_id(logged, v)
             c == note_venue_remaining(named.ctx, r.remaining_count)
             bound == [named EXCEPT !.ctx = c]
             snapped == [bound EXCEPT !.ctx.response = p]
             raised == NoteResponseEvidence(snapped, n)
             ready == [raised EXCEPT !.ctx = recompute_response_domain(raised.ctx)]
             entered == Ask(AppendFsync(ready, UnattributedRecord(v, p)), {"BackfillFills"})
             o == apply_submit_response(w, r)
             h == Relaxed(g)
  <1>0. /\ v \in Venues /\ n \in Nat /\ r.remaining_count \in Opt(Nat)
        /\ p \in ResponseSnapshot /\ p.fill_count = n /\ p.remaining_count = r.remaining_count
    BY DEF Response, Opt, SnapshotOf, ResponseSnapshot
  <1>1. o = IF BindError(w.ctx, v) # None
            THEN halt_with_reason(BindError(w.ctx, v), logged)
            ELSE IF n = 0 THEN ZeroFillResponse(bound, r)
            ELSE IF RaiseFails(n)
            THEN halt_with_reason("ObligationExceedsOrderQty", snapped)
            ELSE IF response_domain_overfill(ready.ctx)
            THEN halt_with_reason("CrossCheckMismatch", ready)
            ELSE IF ready.ctx.attributed_fill_qty > 0
            THEN resolve_unattributed(entered, Unattributed(r))
            ELSE accept(Unattributed(r), entered)
    BY DEF apply_submit_response
  <1> HIDE DEF o
  <1>2. CASE BindError(w.ctx, v) # None
    <2>1. \A reason : Rebuilds(d, halt_with_reason(reason, logged))
      BY <1>2, SubmitConflict
    <2> QED BY <1>1, <1>2, <2>1 DEF o
  <1>3. CASE BindError(w.ctx, v) = None
    <2>1. Sound(h, d, w) /\ \A u : Claimed(h, u)
      BY RelaxedSound
    <2> HIDE DEF h
    <2> DEFINE full == restore_fill_obligation(recompute_response_domain([c EXCEPT !.response = p]), n)
    <2>2. /\ WorkInv(h, named) /\ named.ctx = Bind(w.ctx, v)
          /\ n = 0 => \E x : At(d, named.log, x) /\ Agrees(x, c)
          /\ n # 0 /\ n <= Qty => \E x : At(d, named.log, x) /\ Agrees(x, full)
          /\ n > Qty => Fails(d, named.log)
      <3> DEFINE b == note_venue_remaining(Bind(w.ctx, v), p.remaining_count)
                 settled == recompute_response_domain([b EXCEPT !.response = p])
      <3>1. /\ WorkInv(h, named) /\ named.ctx = Bind(w.ctx, v)
            /\ p.fill_count = 0 => \E x : At(d, named.log, x) /\ Agrees(x, b)
            /\ p.fill_count # 0 /\ p.fill_count <= Qty
                 => \E x : /\ At(d, named.log, x)
                           /\ Agrees(x, restore_fill_obligation(settled, p.fill_count))
            /\ p.fill_count > Qty => Fails(d, named.log)
        <4> HIDE DEF p
        <4> QED BY <1>0, <1>3, <2>1, SubmitBound
      <3>2. b = c
        BY <1>0, <3>1
      <3> HIDE DEF p, named, b, c
      <3> QED BY <1>0, <3>1, <3>2
    <2> HIDE DEF p, named, full
    <2>3. /\ WorkInv(h, bound) /\ bound.ctx = c /\ bound.log = named.log /\ Bound(bound, v)
          /\ CtxTyped(c) /\ CtxInv(c)
      <3>1. CtxInv(c) /\ Quiet(named.ctx, c) /\ c.venue_order_id = named.ctx.venue_order_id
        BY <1>0, <2>2, NoteRemainingInv DEF WorkInv
      <3>2. named.ctx.venue_order_id = v
        <4>1. CtxTyped(w.ctx)
          BY DEF Sound, WorkInv, CtxInv, CtxBase
        <4> QED BY <2>2, <4>1 DEF Bind, CtxTyped
      <3>3. bound.log = named.log
        BY <2>2, ContextWork DEF WorkInv
      <3> HIDE DEF c
      <3>4. WorkInv(h, bound) /\ bound.ctx = c
        BY <2>2, <3>1, QuietContext
      <3> QED BY <1>0, <3>1, <3>2, <3>3, <3>4 DEF Bound, CtxInv, CtxBase
    <2>4. CASE n = 0
      <3>1. Sound(h, d, bound)
        BY <2>2, <2>3, <2>4 DEF Sound, Refolds
      <3>2. Rebuilds(d, ZeroFillResponse(bound, r))
        BY <3>1, SoundZero
      <3> QED BY <1>1, <1>3, <2>4, <3>2 DEF o
    <2> HIDE DEF bound
    <2> DEFINE s == [c EXCEPT !.response = p]
    <2>5. /\ WorkInv(h, snapped) /\ snapped.ctx = s /\ snapped.log = named.log
          /\ Bound(snapped, v) /\ s.response = p
      <3>1. snapped = [bound EXCEPT !.ctx = s]
        BY <2>3 DEF WorkInv, WorkTyped
      <3>2. /\ CtxInv(s) /\ Grows(c, s) /\ SameBooks(c, s)
            /\ s.venue_order_id = c.venue_order_id
        BY <1>0, <2>3, ResponseInv
      <3>3. s.response = p
        BY <2>3 DEF CtxTyped
      <3> HIDE DEF snapped, s, c
      <3>4. WorkInv(h, snapped) /\ snapped.ctx = s
        BY <2>1, <2>3, <3>1, <3>2, FrameContext
      <3>5. snapped.log = bound.log
        BY <2>3, <3>1, ContextWork DEF WorkInv
      <3> QED BY <2>3, <3>2, <3>3, <3>4, <3>5 DEF Bound
    <2>6. CASE n # 0 /\ RaiseFails(n)
      <3>1. n > Qty
        BY <2>6 DEF RaiseFails
      <3>2. Fails(d, snapped.log) /\ WorkTyped(snapped)
        BY <2>2, <2>5, <3>1 DEF WorkInv
      <3> HIDE DEF snapped
      <3>3. Rebuilds(d, halt_with_reason("ObligationExceedsOrderQty", snapped))
        BY <3>2, HaltFails
      <3> QED BY <1>1, <1>3, <2>6, <3>3 DEF o, snapped
    <2>7. CASE n # 0 /\ ~ RaiseFails(n)
      <3>1. n <= Qty
        BY <1>0, <2>7, QtyAssumption DEF RaiseFails
      <3>2. PICK x : At(d, named.log, x) /\ Agrees(x, full)
        BY <2>2, <2>7, <3>1
      <3>3. full = restore_fill_obligation(recompute_response_domain(s), n)
        BY DEF full
      <3> HIDE DEF s, snapped, c
      <3>4. /\ Sound(h, d, ready) /\ Sound(h, d, entered)
            /\ StateInv(Unattributed(r), entered.ctx)
            /\ Unattributed(r).kind = "ImmediateFillUnattributed"
        <4>1. /\ At(d, snapped.log, x) /\ ~ RaiseFails(r.fill_count)
              /\ Agrees(x, restore_fill_obligation(recompute_response_domain(snapped.ctx),
                                                   r.fill_count))
              /\ Bound(snapped, r.venue) /\ snapped.ctx.response = SnapshotOf(r)
          BY <2>5, <2>7, <3>2, <3>3 DEF p
        <4>2. /\ raised = NoteResponseEvidence(snapped, r.fill_count)
              /\ entered = Ask(AppendFsync(ready, UnattributedRecord(r.venue, SnapshotOf(r))),
                               {"BackfillFills"})
          BY DEF p
        <4>3. ready = [raised EXCEPT !.ctx = recompute_response_domain(raised.ctx)]
          OBVIOUS
        <4> HIDE DEF entered, ready, raised
        <4> QED BY <2>1, <2>5, <4>1, <4>2, <4>3, SubmitReady
      <3> HIDE DEF entered, ready
      <3>5. /\ Rebuilds(d, halt_with_reason("CrossCheckMismatch", ready))
            /\ Rebuilds(d, resolve_unattributed(entered, Unattributed(r)))
            /\ Rebuilds(d, accept(Unattributed(r), entered))
        BY <3>4, SoundEnds, SoundResolve
      <3>6. o \in {halt_with_reason("CrossCheckMismatch", ready),
                   resolve_unattributed(entered, Unattributed(r)),
                   accept(Unattributed(r), entered)}
        BY <1>1, <1>3, <2>7 DEF o, entered, ready, snapped, c, p, named, bound
      <3> QED BY <3>5, <3>6 DEF o
    <2> QED BY <2>4, <2>6, <2>7
  <1> QED BY <1>2, <1>3

\* A raise of the obligation.
LEMMA SoundEvidence ==
  ASSUME NEW g, NEW d, NEW w, Sound(g, d, w), NEW n \in Nat, ~ RaiseFails(n)
  PROVE  /\ Sound(g, d, note_fill_evidence(w, n))
         /\ Follows(g, w, note_fill_evidence(w, n))
         /\ note_fill_evidence(w, n).ctx.fill_obligation >= n
  <1>1. Sees(d, w, n)
    BY RefoldsSees DEF Sound
  <1>2. Refolds(d, note_fill_evidence(w, n))
    BY <1>1, RefoldsEvidence DEF Sound, WorkInv
  <1>3. /\ Follows(g, w, note_fill_evidence(w, n))
        /\ note_fill_evidence(w, n).ctx.fill_obligation >= n
    BY EvidenceWork DEF Sound
  <1> QED BY <1>2, <1>3 DEF Sound, Follows

\* A pending cancel or reconcile after a fill.
LEMMA SoundAfterFill ==
  ASSUME NEW g, NEW d, NEW w, Sound(g, d, w), NEW v, NEW target \in Opt(Target), NEW enriched
  PROVE  Rebuilds(d, after_fill_cancel_or_reconcile(w, v, target, enriched))
  <1> DEFINE x == note_authority_complete(w, TRUE)
             raised == note_fill_evidence(w, target.filled)
             complete == raised.ctx.attributed_fill_qty = Qty
             covered == note_authority_complete(raised, complete)
             o == after_fill_cancel_or_reconcile(w, v, target, enriched)
  <1>1. CASE target = None
    <2>1. Sound(g, d, x)
      BY SoundLatch
    <2> HIDE DEF x
    <2>2. \/ \E reason : o = halt_with_reason(reason, w)
          \/ \E p : o = try_finalize_terminal(x, p, v, "Filled")
          \/ \E s : o = accept(s, w)
      BY <1>1 DEF after_fill_cancel_or_reconcile, x
    <2> HIDE DEF o
    <2> QED BY <2>1, <2>2, SoundEnds, SoundTry DEF o
  <1>2. CASE target # None
    <2>1. target.filled \in Nat
      BY <1>2 DEF Opt, Target
    <2>2. CASE RaiseFails(target.filled)
      <3>1. \E reason : o = halt_with_reason(reason, w)
        BY <1>2, <2>2 DEF after_fill_cancel_or_reconcile
      <3> HIDE DEF o
      <3> QED BY <3>1, SoundEnds DEF o
    <2>3. CASE ~ RaiseFails(target.filled)
      <3>1. Sound(g, d, raised)
        BY <2>1, <2>3, SoundEvidence
      <3>2. \/ \E reason : o = halt_with_reason(reason, w)
            \/ o = not_ready_for_terminal(raised, v, target.terminal, TRUE, target.remaining)
            \/ o = finalize_reconcile_target(covered, target, v)
            \/ \E s : o = accept(s, raised)
        BY <1>2, <2>3 DEF after_fill_cancel_or_reconcile
      <3> HIDE DEF raised, complete
      <3>3. Sound(g, d, covered)
        BY <3>1, SoundLatch
      <3> HIDE DEF covered
      <3>4. Rebuilds(d, finalize_reconcile_target(covered, target, v))
        BY <3>3, SoundTry DEF finalize_reconcile_target
      <3>5. Rebuilds(d, not_ready_for_terminal(raised, v, target.terminal, TRUE,
                                               target.remaining))
        BY <3>1, SoundNotReady
      <3> HIDE DEF o
      <3> QED BY <3>1, <3>2, <3>4, <3>5, SoundEnds DEF o
    <2> QED BY <2>2, <2>3
  <1> QED BY <1>1, <1>2

\* One fill accounted.
LEMMA SoundAccount ==
  ASSUME NEW g, NEW d, NEW w, Sound(g, d, w), NEW f \in g.fills
  PROVE  Sound(g, d, account_fill_core(w, f).work)
  BY RefoldsAccount DEF Sound

\* The dispatch of a fill on the state.
LEMMA SoundFill ==
  ASSUME NEW g, NEW d, NEW w, Sound(g, d, w), NEW s, StateInv(s, w.ctx), NEW f \in g.fills
  PROVE  Rebuilds(d, on_fill(s, w, f))
  <1> DEFINE a == account_fill_core(w, f)
  <1>1. Sound(g, d, a.work)
    BY SoundAccount
  <1>2. s.target \in Opt(Target)
    BY DEF StateInv, OrderState
  <1>3. Rebuilds(d, AfterFrozenFill(s, a))
    <2> HIDE DEF a
    <2> DEFINE y == [a.work EXCEPT !.hold = "ReserveFull"]
    <2>1. y.log = a.work.log /\ y.ctx = a.work.ctx
      BY <1>1 DEF Sound, WorkInv, WorkTyped
    <2>2. Ask(y, {"HaltNewExposure"}).log = a.work.log
          /\ Ask(y, {"HaltNewExposure"}).ctx = a.work.ctx
      BY <1>1 DEF Sound, WorkInv, WorkTyped, Ask
    <2>3. Refolds(d, Ask(y, {"HaltNewExposure"}))
      BY ONLY <1>1, <2>2, RefoldsSame DEF Sound
    <2>4. \A reason : Rebuilds(d, halt_with_reason(reason, y))
      BY <2>3 DEF halt_with_reason, halt_with_reason_state, Rebuilds
    <2> HIDE DEF y
    <2>5. \/ AfterFrozenFill(s, a) = accept(s, a.work)
          \/ \E reason : AfterFrozenFill(s, a) = halt_with_reason(reason, y)
          \/ \E reason : AfterFrozenFill(s, a) = halt_with_reason(reason, a.work)
      BY DEF AfterFrozenFill, y
    <2> QED BY <1>1, <2>4, <2>5, SoundEnds
  <1>4. Rebuilds(d, apply_fill_dedup_only(s, w, f))
    <2>1. apply_fill_dedup_only(s, w, f) \in {accept(s, a.work), halt_with_reason(a.reason, a.work)}
      BY DEF apply_fill_dedup_only
    <2> HIDE DEF a
    <2> QED BY <1>1, <2>1, SoundEnds
  <1>5. Rebuilds(d, AfterOpenFill(s, w, a))
    <2> HIDE DEF a
    <2>1. \/ AfterOpenFill(s, w, a) = accept(s, w)
          \/ AfterOpenFill(s, w, a) = accept(s, a.work)
          \/ AfterOpenFill(s, w, a) = halt_with_reason(a.reason, a.work)
          \/ AfterOpenFill(s, w, a)
               = after_fill_cancel_or_reconcile(a.work, s.venue, s.target, a.tag = "Enriched")
          \/ AfterOpenFill(s, w, a) = route_live_or_filled(a.work, a.work.ctx.venue_order_id)
      BY DEF AfterOpenFill
    <2>2. Rebuilds(d, after_fill_cancel_or_reconcile(a.work, s.venue, s.target,
                                                     a.tag = "Enriched"))
      BY <1>1, <1>2, SoundAfterFill
    <2>3. Rebuilds(d, route_live_or_filled(a.work, a.work.ctx.venue_order_id))
      BY <1>1, SoundRoute
    <2> QED BY <1>1, <2>1, <2>2, <2>3, SoundEnds
  <1>6. s.kind = "ImmediateFillUnattributed"
          => Rebuilds(d, apply_immediate_fill_backfill(s, w, <<f>>))
    BY Single, SoundImmediate
  <1> QED BY <1>3, <1>4, <1>5, <1>6 DEF on_fill, restart_safe_fill, apply_fill_while_open

\* The venue's remaining quantity is noted.
LEMMA SoundNoted ==
  ASSUME NEW g, NEW d, NEW w, Sound(g, d, w), NEW n \in Opt(Nat)
  PROVE  LET noted == [w EXCEPT !.ctx = note_venue_remaining(w.ctx, n)]
         IN Sound(g, d, noted) /\ noted.ctx.venue_order_id = w.ctx.venue_order_id
  <1> DEFINE k == note_venue_remaining(w.ctx, n)
  <1>1. CtxInv(k) /\ Quiet(w.ctx, k) /\ k.venue_order_id = w.ctx.venue_order_id
    BY NoteRemainingInv DEF Sound, WorkInv
  <1>2. Refolds(d, [w EXCEPT !.ctx = k])
    BY RefoldsNoted DEF Sound, WorkInv
  <1> HIDE DEF k
  <1>3. WorkInv(g, [w EXCEPT !.ctx = k]) /\ [w EXCEPT !.ctx = k].ctx = k
    BY <1>1, QuietContext DEF Sound
  <1> QED BY <1>1, <1>2, <1>3 DEF Sound, k

\* Authority, once latched, is of the current generation.
LEMMA LatchedFresh ==
  ASSUME NEW w, WorkTyped(w), CtxTyped(w.ctx)
  PROVE  LET x == note_authority_complete(w, TRUE)
         IN authority_is_fresh(x.ctx) /\ x.ctx.fill_obligation = w.ctx.fill_obligation
  <1> DEFINE k == latch_authority_complete(w.ctx)
             y == [w EXCEPT !.ctx = k]
  <1>1. authority_is_fresh(k) /\ k.fill_obligation = w.ctx.fill_obligation
    BY DEF authority_is_fresh, latch_authority_complete, CtxTyped
  <1> HIDE DEF k
  <1>2. WorkTyped(y) /\ y.ctx = k
    BY ContextWork
  <1>3. note_authority_complete(w, TRUE) = AppendFsync(y, AuthorityLatchedRecord(y.ctx))
    BY DEF note_authority_complete, k
  <1> HIDE DEF y
  <1>4. AppendFsync(y, AuthorityLatchedRecord(y.ctx)).ctx = k
    BY <1>2, AppendWork
  <1> QED BY <1>1, <1>3, <1>4

\* A report bound, noted, journalled, and its evidence raised.
LEMMA SoundReport ==
  ASSUME NEW g, NEW d, NEW w, Sound(g, d, w), NEW v \in Venues, BindError(w.ctx, v) = None,
         NEW rep \in Report, ~ MemberError(rep)
  PROVE  LET member == rep.filled - rep.others
             bound == bind_venue_id(w, v)
             seen == Observed([bound EXCEPT !.ctx = note_venue_remaining(bound.ctx, rep.remaining)],
                              v, rep, FALSE)
             raised == note_fill_evidence(seen, member)
         IN /\ RaiseFails(member) => Sound(g, d, seen)
            /\ ~ RaiseFails(member) => /\ Sound(g, d, raised) /\ Bound(raised, v)
                                       /\ raised.ctx.fill_obligation >= member
  <1> DEFINE member == rep.filled - rep.others
             bound == bind_venue_id(w, v)
             noted == [bound EXCEPT !.ctx = note_venue_remaining(bound.ctx, rep.remaining)]
             seen == Observed(noted, v, rep, FALSE)
             raised == note_fill_evidence(seen, member)
  <1>1. Sound(g, d, bound) /\ Bound(bound, v)
    BY SoundBind
  <1> HIDE DEF bound
  <1>2. Sound(g, d, noted) /\ Bound(noted, v)
    <2>1. rep.remaining \in Opt(Nat)
      BY DEF Report, Opt
    <2> QED BY <1>1, <2>1, SoundNoted DEF Bound
  <1> HIDE DEF noted
  <1>3. WorkInv(g, seen)
    BY <1>2, ObservedWork DEF Sound
  <1>4. RaiseFails(member) => Sound(g, d, seen)
    <2>1. RaiseFails(member) => member > Qty
      BY DEF RaiseFails
    <2>2. IF member > Qty THEN Refolds(d, seen) ELSE Sees(d, seen, member)
      BY <1>2, RefoldsObserved DEF Sound
    <2> QED BY <1>3, <2>1, <2>2 DEF Sound
  <1>5. ASSUME ~ RaiseFails(member)
        PROVE  /\ Sound(g, d, raised) /\ Bound(raised, v)
               /\ raised.ctx.fill_obligation >= member
    BY <1>2, <1>5, RefoldsReported DEF Sound
  <1> QED BY <1>4, <1>5 DEF noted, bound

\* The status match.
LEMMA SoundStatus ==
  ASSUME NEW g, NEW d, NEW w, Sound(g, d, w), NEW v, NEW rep
  PROVE  Rebuilds(d, RouteStatus(w, v, rep))
  <1> DEFINE o == RouteStatus(w, v, rep)
             x == Ask(w, {"BackfillFills"})
  <1>1. Sound(g, d, x)
    BY SoundAsk DEF Requests
  <1> HIDE DEF x
  <1>2. \/ \E reason : o = halt_with_reason(reason, w)
        \/ \E p, k : o = try_finalize_terminal(w, p, v, k)
        \/ \E s : o = accept(s, w)
        \/ \E s : o = accept(s, x)
    BY DEF RouteStatus, continue_reconcile_pending, x
  <1> HIDE DEF o
  <1> QED BY <1>1, <1>2, SoundEnds, SoundTry DEF o

\* What follows the accounting of a report's page.
LEMMA SoundAccounted ==
  ASSUME NEW g, NEW d, NEW a, Sound(g, d, a.work), NEW v, Bound(a.work, v),
         NEW rep \in Report, ~ MemberError(rep),
         rep.filled - rep.others <= a.work.ctx.fill_obligation, NEW complete \in BOOLEAN
  PROVE  Rebuilds(d, RouteAccounted(a, v, rep, complete))
  <1> DEFINE latched == note_authority_complete(a.work, complete)
             final == IF complete THEN Observed(latched, v, rep, TRUE) ELSE latched
             o == RouteAccounted(a, v, rep, complete)
  <1>1. Sound(g, d, latched) /\ Bound(latched, v)
    BY SoundLatch
  <1>2. complete => /\ authority_is_fresh(latched.ctx)
                    /\ latched.ctx.fill_obligation = a.work.ctx.fill_obligation
    <2>1. WorkTyped(a.work) /\ CtxTyped(a.work.ctx)
      BY DEF Sound, WorkInv, CtxInv, CtxBase
    <2>2. CASE complete = TRUE
      BY <2>1, <2>2, LatchedFresh
    <2> QED BY <2>2
  <1>3. o = IF a.tag = "Halt" THEN halt_with_reason(a.reason, a.work)
            ELSE IF final.ctx.attributed_fill_qty > rep.filled - rep.others
            THEN halt_with_reason("CrossCheckMismatch", final)
            ELSE RouteStatus(final, v, rep)
    BY DEF RouteAccounted, RouteSettled
  <1> HIDE DEF latched, o
  <1>4. complete => Sound(g, d, Observed(latched, v, rep, TRUE))
    <2>1. WorkInv(g, Observed(latched, v, rep, TRUE))
      BY <1>1, ObservedWork DEF Sound
    <2>2. complete => Refolds(d, Observed(latched, v, rep, TRUE))
      BY <1>1, <1>2, RefoldsCompleted DEF Sound
    <2> QED BY <2>1, <2>2 DEF Sound
  <1>5. Sound(g, d, final)
    BY <1>1, <1>4
  <1> HIDE DEF final
  <1>6. Rebuilds(d, RouteStatus(final, v, rep))
        /\ Rebuilds(d, halt_with_reason("CrossCheckMismatch", final))
        /\ Rebuilds(d, halt_with_reason(a.reason, a.work))
    BY <1>5, SoundStatus, SoundEnds
  <1> QED BY <1>3, <1>6 DEF o

\* The answer of a backfill, routed by the status the venue reports.
LEMMA SoundRouteReport ==
  ASSUME NEW g, NEW d, NEW w, Sound(g, d, w), NEW v \in Venues, NEW rep \in Report,
         NEW page \in Seq(g.fills), NEW complete \in BOOLEAN
  PROVE  Rebuilds(d, route_from_backfill_status(w, v, rep, page, complete))
  <1> DEFINE member == rep.filled - rep.others
             bound == bind_venue_id(w, v)
             seen == Observed([bound EXCEPT !.ctx = note_venue_remaining(bound.ctx, rep.remaining)],
                              v, rep, FALSE)
             raised == note_fill_evidence(seen, member)
             a == AccountPage(raised, page)
             o == route_from_backfill_status(w, v, rep, page, complete)
  <1>0. o = IF MemberError(rep) THEN halt_with_reason("CrossCheckMismatch", w)
            ELSE IF BindError(w.ctx, v) # None THEN halt_with_reason(BindError(w.ctx, v), w)
            ELSE IF RaiseFails(member) THEN halt_with_reason("ObligationExceedsOrderQty", seen)
            ELSE RouteAccounted(a, v, rep, complete)
    BY DEF route_from_backfill_status
  <1> HIDE DEF o
  <1>1. CASE MemberError(rep) \/ BindError(w.ctx, v) # None
    BY <1>0, <1>1, SoundEnds DEF o
  <1>2. CASE ~ MemberError(rep) /\ BindError(w.ctx, v) = None
    <2>1. /\ RaiseFails(member) => Sound(g, d, seen)
          /\ ~ RaiseFails(member) => /\ Sound(g, d, raised) /\ Bound(raised, v)
                                     /\ raised.ctx.fill_obligation >= member
      BY <1>2, SoundReport
    <2>2. member \in Int
      BY DEF Report
    <2> HIDE DEF seen, member
    <2>3. CASE RaiseFails(member)
      BY <1>0, <1>2, <2>1, <2>3, SoundEnds DEF o
    <2>4. CASE ~ RaiseFails(member)
      <3> HIDE DEF raised
      <3>1. Sound(g, d, a.work) /\ PageInv(g, raised, a)
        BY <2>1, <2>4, SoundPage
      <3>2. Bound(a.work, v) /\ Grows(raised.ctx, a.work.ctx)
        BY <2>1, <2>4, <3>1, BoundGrows DEF PageInv, Follows
      <3> HIDE DEF a
      <3>3. /\ a.work.ctx.fill_obligation >= raised.ctx.fill_obligation
            /\ a.work.ctx.fill_obligation \in Nat /\ raised.ctx.fill_obligation \in Nat
        BY <2>1, <2>4, <3>1, <3>2, Numbers DEF Grows, Sound, WorkInv, CtxInv
      <3>4. member <= a.work.ctx.fill_obligation
        BY <2>1, <2>2, <2>4, <3>3
      <3>5. Rebuilds(d, RouteAccounted(a, v, rep, complete))
        BY <1>2, <3>1, <3>2, <3>4, SoundAccounted DEF member
      <3> QED BY <1>0, <1>2, <2>4, <3>5 DEF o
    <2> QED BY <2>3, <2>4
  <1> QED BY <1>1, <1>2

\* A reconcile result.
LEMMA SoundReconcile ==
  ASSUME NEW g, NEW d, NEW w, Sound(g, d, w), NEW s, StateInv(s, w.ctx), s.kind \in PendingKinds,
         NEW rep \in Report, NEW page \in Seq(g.fills), NEW complete \in BOOLEAN
  PROVE  Rebuilds(d, ReconcileReport(s, w, rep, page, complete))
  <1> DEFINE bound == bind_venue_id(w, s.venue)
             v == OrElse(rep.venue, s.venue)
  <1>1. s.venue \in Venues /\ v \in Venues
    <2>1. Bound(w, s.venue)
      BY StateBound
    <2> QED BY <2>1 DEF Bound, OrElse, Report, Opt
  <1>2. ReconcileReport(s, w, rep, page, complete)
          = IF BindError(w.ctx, s.venue) # None
            THEN halt_with_reason(BindError(w.ctx, s.venue), w)
            ELSE IF BindError(bound.ctx, v) # None
            THEN halt_with_reason(BindError(bound.ctx, v), bound)
            ELSE route_from_backfill_status(bound, v, rep, page, complete)
    BY DEF ReconcileReport
  <1> HIDE DEF v
  <1>3. CASE BindError(w.ctx, s.venue) # None
    BY <1>2, <1>3, SoundEnds
  <1>4. CASE BindError(w.ctx, s.venue) = None
    <2>1. Sound(g, d, bound)
      BY <1>1, <1>4, SoundBind
    <2> HIDE DEF bound
    <2>2. Rebuilds(d, route_from_backfill_status(bound, v, rep, page, complete))
      BY <1>1, <2>1, SoundRouteReport
    <2> QED BY <1>2, <1>4, <2>1, <2>2, SoundEnds
  <1> QED BY <1>3, <1>4

\* A matched row of an unknown submission.
LEMMA SoundMatched ==
  ASSUME NEW g, NEW d, NEW w, Sound(g, d, w), NEW exhaustive, NEW rep \in Report,
         rep.venue # None, NEW page \in Seq(g.fills)
  PROVE  Rebuilds(d, MatchedBackfill(w, exhaustive, rep, page))
  <1> DEFINE v == rep.venue
             member == rep.filled - rep.others
             bound == bind_venue_id(w, v)
             seen == Observed([bound EXCEPT !.ctx = note_venue_remaining(bound.ctx, rep.remaining)],
                              v, rep, FALSE)
             raised == note_fill_evidence(seen, member)
             latched == note_authority_complete(raised, TRUE)
             a == AccountOwnedPage(latched, page)
             final == note_authority_complete(a.work, TRUE)
             S == {"BackfillUnknown"}
                  \cup (IF rep.filled > 0 /\ page = <<>> THEN {"BackfillFills"} ELSE {})
             o == MatchedBackfill(w, exhaustive, rep, page)
  <1>0. o = IF ~ rep.mine THEN halt_with_reason("Operator", w)
            ELSE IF ~ exhaustive THEN accept(Plain("SubmitUnknown"), Ask(w, S))
            ELSE IF MemberError(rep) THEN halt_with_reason("CrossCheckMismatch", w)
            ELSE IF BindError(w.ctx, v) # None THEN halt_with_reason(BindError(w.ctx, v), w)
            ELSE IF RaiseFails(member) THEN halt_with_reason("ObligationExceedsOrderQty", seen)
            ELSE IF a.tag = "Halt" THEN halt_with_reason(a.reason, a.work)
            ELSE route_from_backfill_status(final, v, rep, <<>>, TRUE)
    BY DEF MatchedBackfill, RouteMatched
  <1>1. v \in Venues
    BY DEF Report, Opt
  <1>2. S \in SUBSET Requests
    BY DEF Requests
  <1> HIDE DEF o, S
  <1>3. Sound(g, d, Ask(w, S))
    BY <1>2, SoundAsk
  <1>4. Rebuilds(d, accept(Plain("SubmitUnknown"), Ask(w, S)))
    BY <1>3, SoundEnds
  <1>5. \A reason : Rebuilds(d, halt_with_reason(reason, w))
    BY SoundEnds
  <1>6. CASE MemberError(rep) \/ BindError(w.ctx, v) # None
    BY <1>0, <1>4, <1>5, <1>6 DEF o
  <1>7. CASE ~ MemberError(rep) /\ BindError(w.ctx, v) = None
    <2>1. /\ RaiseFails(member) => Sound(g, d, seen)
          /\ ~ RaiseFails(member) => Sound(g, d, raised)
      BY <1>1, <1>7, SoundReport
    <2> HIDE DEF seen, member
    <2>2. CASE RaiseFails(member)
      <3>1. Rebuilds(d, halt_with_reason("ObligationExceedsOrderQty", seen))
        BY <2>1, <2>2, SoundEnds
      <3> QED BY <1>0, <1>4, <1>5, <1>7, <2>2, <3>1 DEF o
    <2>3. CASE ~ RaiseFails(member)
      <3> HIDE DEF raised
      <3>1. Sound(g, d, latched)
        BY <2>1, <2>3, SoundLatch
      <3> HIDE DEF latched
      <3>2. Sound(g, d, a.work)
        BY <3>1, SoundPage
      <3> HIDE DEF a
      <3>3. Sound(g, d, final)
        BY <3>2, SoundLatch
      <3> HIDE DEF final
      <3>4. Rebuilds(d, route_from_backfill_status(final, v, rep, <<>>, TRUE))
        <4>1. <<>> \in Seq(g.fills)
          OBVIOUS
        <4>2. \A complete \in BOOLEAN :
                Rebuilds(d, route_from_backfill_status(final, v, rep, <<>>, complete))
          BY <1>1, <3>3, <4>1, SoundRouteReport
        <4> QED BY <4>2
      <3>5. Rebuilds(d, halt_with_reason(a.reason, a.work))
        BY <3>2, SoundEnds
      <3> QED BY <1>0, <1>4, <1>5, <1>7, <2>3, <3>4, <3>5 DEF o
    <2> QED BY <2>2, <2>3
  <1> QED BY <1>6, <1>7

\* A cancel is journalled after the authority it makes stale.
LEMMA SoundCancelled ==
  ASSUME NEW g, NEW d, NEW w, Sound(g, d, w)
  PROVE  LET y == AppendFsync(authority_invalidate_effects(w), CancelRecord)
         IN Sound(g, d, y) /\ Follows(g, w, y) /\ SameReply(w.ctx, y.ctx)
  <1>1. Refolds(d, AppendFsync(authority_invalidate_effects(w), CancelRecord))
    BY RefoldsCancel DEF Sound, WorkInv
  <1>2. /\ Follows(g, w, AppendFsync(authority_invalidate_effects(w), CancelRecord))
        /\ SameReply(w.ctx, AppendFsync(authority_invalidate_effects(w), CancelRecord).ctx)
    BY CancelLogged DEF Sound
  <1> QED BY <1>1, <1>2 DEF Sound, Follows

\* A request to cancel takes authority away and journals both.
LEMMA SoundRequest ==
  ASSUME NEW g, NEW d, NEW w, Sound(g, d, w), NEW s
  PROVE  Rebuilds(d, request_cancel(s, w))
  <1> DEFINE y == AppendFsync(authority_invalidate_effects(w), CancelRecord)
             o == request_cancel(s, w)
  <1>1. Sound(g, d, y)
    BY SoundCancelled
  <1>2. \E t : o = accept(t, y)
    BY DEF request_cancel
  <1> HIDE DEF y, o
  <1> QED BY <1>1, <1>2, SoundEnds DEF o

\* The match on the cancel outcome.
LEMMA SoundSettle ==
  ASSUME NEW g, NEW d, NEW w, Sound(g, d, w), NEW s, NEW outcome
  PROVE  Rebuilds(d, SettleCancel(s, w, outcome))
  <1> DEFINE o == SettleCancel(s, w, outcome)
             x == Ask(w, {"ReconcileCancel"})
  <1>1. Sound(g, d, x)
    BY SoundAsk DEF Requests
  <1> HIDE DEF x
  <1>2. \/ \E p, k : o = try_finalize_terminal(w, p, s.venue, k)
        \/ \E t : o = accept(t, w)
        \/ \E t : o = accept(t, x)
    BY DEF SettleCancel, x
  <1> HIDE DEF o
  <1> QED BY <1>1, <1>2, SoundEnds, SoundTry DEF o

\* A cancel outcome restores from the state what memory already has.
LEMMA SoundOutcome ==
  ASSUME NEW g, NEW d, NEW w, Sound(g, d, w), NEW s, StateInv(s, w.ctx),
         s.kind = "CancelPending", NEW outcome
  PROVE  Rebuilds(d, apply_cancel_outcome(s, w, outcome))
  <1> DEFINE logged == AppendFsync(authority_invalidate_effects(w), CancelRecord)
             rc == s.resp.fill_count
             snapped == [logged EXCEPT !.ctx.response.fill_count
                                         = OrElse(logged.ctx.response.fill_count, rc)]
             counted == IF rc = None THEN logged ELSE NoteResponseEvidence(snapped, rc)
             avg == OrElse(counted.ctx.response.avg, s.resp.avg)
             fee == OrElse(counted.ctx.response.fee, s.resp.fee)
             kept == [counted EXCEPT !.ctx.response.avg = avg, !.ctx.response.fee = fee]
             bound == bind_venue_id(kept, s.venue)
             o == apply_cancel_outcome(s, w, outcome)
  <1>1. s.target = None
    BY DEF StateInv
  <1>2. o = IF rc # None /\ RaiseFails(rc)
            THEN halt_with_reason("ObligationExceedsOrderQty", snapped)
            ELSE IF BindError(kept.ctx, s.venue) # None
            THEN halt_with_reason(BindError(kept.ctx, s.venue), kept)
            ELSE SettleCancel(s, bound, outcome)
    BY <1>1 DEF apply_cancel_outcome
  <1> HIDE DEF o
  <1>3. rc \in Opt(Nat) /\ s.venue \in Venues
    <2>1. Bound(w, s.venue)
      BY StateBound DEF PendingKinds
    <2> QED BY <2>1 DEF StateInv, OrderState, Resp, Bound
  <1>4. /\ rc = w.ctx.response.fill_count /\ s.resp.avg = w.ctx.response.avg
        /\ s.resp.fee = w.ctx.response.fee
    BY DEF StateInv, Mirrors, PendingKinds, RespOf
  <1>5. Sound(g, d, logged) /\ SameReply(w.ctx, logged.ctx)
    BY SoundCancelled
  <1> HIDE DEF logged
  <1>6. snapped = logged
    <2> DEFINE r == [logged.ctx.response EXCEPT !.fill_count = OrElse(@, rc)]
               c == [logged.ctx EXCEPT !.response = r]
    <2>1. WorkTyped(logged) /\ CtxTyped(logged.ctx)
      BY <1>5 DEF Sound, WorkInv, CtxInv, CtxBase
    <2>2. snapped = [logged EXCEPT !.ctx = c]
      BY <2>1 DEF WorkTyped, CtxTyped, ResponseSnapshot
    <2>3. r = logged.ctx.response
      BY <1>4, <1>5, <2>1 DEF CtxTyped, ResponseSnapshot, OrElse, SameReply
    <2> HIDE DEF r, snapped
    <2>4. c = logged.ctx
      BY <2>1, <2>3 DEF CtxTyped
    <2> HIDE DEF c
    <2> QED BY <2>1, <2>2, <2>4 DEF WorkTyped
  <1> HIDE DEF snapped
  <1>7. CASE rc # None /\ RaiseFails(rc)
    BY <1>2, <1>5, <1>6, <1>7, SoundEnds DEF o
  <1>8. CASE ~ (rc # None /\ RaiseFails(rc))
    <2>1. Sound(g, d, counted) /\ SameReply(w.ctx, counted.ctx)
      <3>1. CASE rc = None
        BY <1>5, <3>1
      <3>2. CASE rc # None
        <4>1. rc \in Nat /\ ~ RaiseFails(rc)
          BY <1>3, <1>8, <3>2 DEF Opt
        <4> DEFINE y == NoteResponseEvidence(logged, rc)
        <4>2. Sees(d, logged, rc)
          BY <1>5, RefoldsSees DEF Sound
        <4> HIDE DEF rc
        <4>3. Refolds(d, y)
          BY <1>5, <4>1, <4>2, RefoldsResponseEvidence DEF Sound
        <4>4. Follows(g, logged, y)
          BY <1>5, <4>1, ResponseEvidenceWork DEF Sound
        <4>5. SameReply(logged.ctx, y.ctx)
          BY <1>5, OperationsReply DEF Sound, WorkInv, CtxInv, CtxBase
        <4>6. counted = y
          BY <1>6, <3>2
        <4> HIDE DEF y, counted
        <4> QED BY <1>5, <4>3, <4>4, <4>5, <4>6 DEF Sound, Follows, SameReply
      <3> QED BY <3>1, <3>2
    <2> HIDE DEF counted
    <2>2. avg = counted.ctx.response.avg /\ fee = counted.ctx.response.fee
      BY <1>4, <2>1 DEF OrElse, SameReply
    <2> HIDE DEF avg, fee
    <2>3. kept = Carried(counted, avg, fee)
      BY DEF Carried
    <2> HIDE DEF kept
    <2>4. Sound(g, d, kept)
      BY <2>1, <2>2, <2>3, SoundKept
    <2>5. CASE BindError(kept.ctx, s.venue) # None
      BY <1>2, <1>8, <2>4, <2>5, SoundEnds DEF o
    <2>6. CASE BindError(kept.ctx, s.venue) = None
      <3>1. Sound(g, d, bound)
        BY <1>3, <2>4, <2>6, SoundBind
      <3> HIDE DEF bound
      <3>2. Rebuilds(d, SettleCancel(s, bound, outcome))
        BY <3>1, SoundSettle
      <3> QED BY <1>2, <1>8, <2>6, <3>2 DEF o
    <2> QED BY <2>5, <2>6
  <1> QED BY <1>7, <1>8

\* The claims of a user_order frame.
LEMMA SoundClaims ==
  ASSUME NEW g, NEW d, NEW w, Sound(g, d, w), NEW v \in Venues
  PROVE  /\ \A n \in Opt(Nat) : \A s :
              BindError(w.ctx, v) = None
                => LET bound == bind_venue_id(w, v)
                   IN Rebuilds(d, accept(s, [bound EXCEPT !.ctx = note_venue_remaining(bound.ctx, n)]))
         /\ \A p, k :
              LET noted == [w EXCEPT !.ctx = note_venue_remaining(w.ctx, 0)]
              IN Rebuilds(d, try_finalize_terminal(note_authority_complete(noted, TRUE), p, v, k))
  <1> DEFINE bound == bind_venue_id(w, v)
             noted == [w EXCEPT !.ctx = note_venue_remaining(w.ctx, 0)]
             latched == note_authority_complete(noted, TRUE)
  <1>1. ASSUME NEW s, NEW n \in Opt(Nat), BindError(w.ctx, v) = None
        PROVE  Rebuilds(d, accept(s, [bound EXCEPT !.ctx = note_venue_remaining(bound.ctx, n)]))
    <2>1. Sound(g, d, bound)
      BY <1>1, SoundBind
    <2> HIDE DEF bound
    <2> DEFINE y == [bound EXCEPT !.ctx = note_venue_remaining(bound.ctx, n)]
    <2>2. Sound(g, d, y)
      BY <2>1, SoundNoted
    <2> HIDE DEF y
    <2>3. Rebuilds(d, accept(s, y))
      BY <2>2, SoundEnds
    <2> QED BY <2>3 DEF y
  <1>2. ASSUME NEW p, NEW k
        PROVE  Rebuilds(d, try_finalize_terminal(latched, p, v, k))
    <2>1. 0 \in Opt(Nat)
      BY DEF Opt
    <2>2. Sound(g, d, noted)
      BY <2>1, SoundNoted
    <2> HIDE DEF noted
    <2>3. Sound(g, d, latched)
      BY <2>2, SoundLatch
    <2> HIDE DEF latched
    <2> QED BY <2>3, SoundTry
  <1> QED BY <1>1, <1>2

-----------------------------------------------------------------------------
(* The rebuild over the life of the order                                  *)

\* The rebuild of the journal so far succeeds and agrees with memory, or fails
\* on an order that halted.
Rebuilt ==
    \/ \E e : durable = Ok(e) /\ Agrees(e, ctx)
    \/ ~ durable.ok /\ state.kind = "Halted"

\* The initial state satisfies it.
LEMMA InitRebuilt == Init => Rebuilt
  <1> SUFFICES ASSUME Init PROVE Rebuilt
    OBVIOUS
  <1>1. CtxTyped(new_ctx)
    BY NewCtx DEF CtxInv, CtxBase
  <1>2. Shaped(new_ctx)
    BY <1>1, ShapedContext
  <1>3. ~ new_ctx.authority_complete /\ new_ctx.last_venue_remaining_qty = None
    BY DEF new_ctx
  <1>4. Agrees(new_ctx, new_ctx)
    BY ONLY <1>2, <1>3 DEF Agrees, SameRebuilt, Modest
  <1> QED BY <1>4 DEF Init, Rebuilt

\* A handler starts with nothing appended.
LEMMA NowSound ==
  ASSUME IInv, NEW e, durable = Ok(e), Agrees(e, ctx), NEW answer \in BOOLEAN
  PROVE  Sound(Here(answer), durable, Now) /\ StateInv(state, Now.ctx)
  <1>1. /\ WorkInv(Here(answer), Now) /\ Now.ctx = ctx /\ StateInv(state, Now.ctx)
    BY NowInv
  <1>2. Now.log = <<>>
    BY DEF Now, NoWork
  <1>3. IsLog(<<>>)
    BY <1>1, <1>2 DEF WorkInv, WorkTyped
  <1>4. At(durable, Now.log, e)
    BY <1>2, <1>3, RebuildStart DEF At
  <1>5. Refolds(durable, Now)
    BY <1>1, <1>4 DEF Refolds
  <1> QED BY <1>1, <1>5 DEF Sound

\* The journal gains what the handler appended.
LEMMA StepRebuilt ==
  ASSUME NEW o, NEW answer, Step(o, answer), Rebuilds(durable, o)
  PROVE  Rebuilt'
  <1>1. /\ state' = o.state /\ ctx' = o.work.ctx
        /\ durable' = rebuild_ctx_from_journal(durable, o.work.log)
    BY DEF Step
  <1>2. CASE Refolds(durable, o.work)
    <2>1. PICK e : At(durable, o.work.log, e) /\ Agrees(e, o.work.ctx)
      BY <1>2 DEF Refolds
    <2>2. durable' = Ok(e) /\ Agrees(e, ctx')
      BY <1>1, <2>1 DEF At
    <2> QED BY <2>2 DEF Rebuilt
  <1>3. CASE o.state.kind = "Halted" /\ Fails(durable, o.work.log)
    BY <1>1, <1>3 DEF Fails, Rebuilt
  <1> QED BY <1>2, <1>3 DEF Rebuilds

\* Once the rebuild fails it stays so, and the order stays halted.
LEMMA FailedStep ==
  ASSUME IInv, ~ durable.ok, state.kind = "Halted", Next
  PROVE  ~ durable'.ok /\ state'.kind = "Halted"
  <1>1. ASSUME NEW o, NEW answer, Step(o, answer), o.state.kind = "Halted", IsLog(o.work.log)
        PROVE  ~ durable'.ok /\ state'.kind = "Halted"
    <2>1. durable' = durable
      BY <1>1, RebuildFailed DEF Step
    <2> QED BY <1>1, <2>1 DEF Step
  <1>2. WorkInv(Here(FALSE), Now) /\ StateInv(state, Now.ctx) /\ Here(FALSE).fills = FillRecord
    BY NowInv
  <1>3. CASE Fill
    <2>1. PICK f \in Fills : Step(on_fill(state, Now, f), FALSE)
      BY <1>3 DEF Fill
    <2>2. on_fill(state, Now, f) = restart_safe_fill(state, Now, f)
      BY DEF on_fill, is_restart_frozen
    <2> DEFINE o == restart_safe_fill(state, Now, f)
    <2>3. f \in Here(FALSE).fills
      BY <1>2, InputAssumption
    <2>4. /\ o.outcome \in {"Accept", "Halt"}
          /\ o.outcome = "Halt" => o.state.kind = "Halted"
          /\ o.outcome = "Accept" => o.state = state
          /\ IsLog(o.work.log)
      <3> DEFINE g == Here(FALSE)
                 w == Now
      <3>1. WorkInv(g, w) /\ StateInv(state, w.ctx) /\ f \in g.fills
        BY <1>2, <2>3
      <3> HIDE DEF g, w
      <3>2. LET r == restart_safe_fill(state, w, f)
            IN  /\ r.outcome \in {"Accept", "Halt"}
                /\ r.outcome = "Halt" => r.state.kind = "Halted"
                /\ r.outcome = "Accept" => r.state = state
                /\ IsLog(r.work.log)
        BY ONLY <3>1, FrozenFillSound
      <3> QED BY <3>2 DEF w
    <2>5. Step(o, FALSE)
      BY <2>1, <2>2
    <2> HIDE DEF o
    <2> QED BY <1>1, <2>4, <2>5
  <1>4. CASE OwnActionObserved
    <2>1. Step(accept(state, Now), FALSE)
      BY <1>4 DEF OwnActionObserved
    <2>2. accept(state, Now).state = state /\ accept(state, Now).work = Now
      BY DEF accept
    <2>3. IsLog(Now.log)
      BY <1>2 DEF WorkInv, WorkTyped
    <2> QED BY <1>1, <2>1, <2>2, <2>3
  <1>5. ~ \/ PrepareSubmit \/ StartSubmit \/ SubmitResponse \/ SubmitTimeout
          \/ CancelRequested \/ CancelRetried \/ CancelOutcome
          \/ UnknownBackfillNoMatch \/ UnknownBackfillMatch
          \/ ImmediateFillBackfillResult \/ BackfillDeadlineElapsed
          \/ RequestResubmit \/ ReconcileResult
          \/ UserOrderRestingClaim \/ UserOrderTerminalClaim
          \/ CloseSubmission
    BY DEF PrepareSubmit, StartSubmit, SubmitResponse, SubmitTimeout, CancelRequested,
           CancelRetried, CancelOutcome, UnknownBackfillNoMatch, UnknownBackfillMatch,
           ImmediateFillBackfillResult, BackfillDeadlineElapsed, RequestResubmit,
           ReconcileResult, UserOrderRestingClaim, UserOrderTerminalClaim, CloseSubmission,
           LiveKinds, PendingKinds
  <1> QED BY <1>3, <1>4, <1>5 DEF Next

\* Every handler leaves a journal that rebuilds to what it leaves in memory.
LEMMA AgreedStep ==
  ASSUME IInv, NEW e, durable = Ok(e), Agrees(e, ctx), Next
  PROVE  \E o, answer : Step(o, answer) /\ Rebuilds(durable, o)
  <1>0. /\ Sound(Here(FALSE), durable, Now) /\ Sound(Here(TRUE), durable, Now)
        /\ StateInv(state, Now.ctx) /\ Now.ctx = ctx
        /\ Here(TRUE).fills = FillRecord /\ Here(FALSE).fills = FillRecord
    BY NowSound, NowInv
  <1>1. /\ \A s : Rebuilds(durable, accept(s, Now))
        /\ \A s : Rebuilds(durable, halt_with_reason_state(s, Now))
        /\ \A reason : Rebuilds(durable, halt_with_reason(reason, Now))
    BY <1>0, SoundEnds
  <1>2. \A s : Rebuilds(durable, accept(s, Ask(Now, {"BackfillUnknown"})))
    <2>1. Sound(Here(FALSE), durable, Ask(Now, {"BackfillUnknown"}))
      BY <1>0, SoundAsk DEF Requests
    <2> QED BY <2>1, SoundEnds
  <1>3. ASSUME PrepareSubmit \/ StartSubmit \/ SubmitTimeout \/ CancelRetried
               \/ UnknownBackfillNoMatch \/ BackfillDeadlineElapsed \/ RequestResubmit
               \/ OwnActionObserved
        PROVE  \E o, answer : Step(o, answer) /\ Rebuilds(durable, o)
    BY <1>1, <1>2, <1>3 DEF PrepareSubmit, StartSubmit, SubmitTimeout, CancelRetried,
       UnknownBackfillNoMatch, BackfillDeadlineElapsed, RequestResubmit, OwnActionObserved
  <1>4. CASE SubmitResponse
    <2>1. PICK r \in Responses : Step(apply_submit_response(Now, r), FALSE)
      BY <1>4 DEF SubmitResponse
    <2>2. Rebuilds(durable, apply_submit_response(Now, r))
      BY <1>0, InputAssumption, SoundSubmit
    <2> QED BY <2>1, <2>2
  <1>5. CASE Fill
    <2>1. PICK f \in Fills : Step(on_fill(state, Now, f), FALSE)
      BY <1>5 DEF Fill
    <2>2. f \in Here(FALSE).fills
      BY <1>0, InputAssumption
    <2>3. Rebuilds(durable, on_fill(state, Now, f))
      BY <1>0, <2>2, SoundFill
    <2> QED BY <2>1, <2>3
  <1>6. CASE CancelRequested
    <2>1. Rebuilds(durable, request_cancel(state, Now))
      BY <1>0, SoundRequest
    <2> QED BY <1>6, <2>1 DEF CancelRequested
  <1>7. CASE CancelOutcome
    <2>1. PICK oc \in CancelOutcomes : Step(apply_cancel_outcome(state, Now, oc), FALSE)
      BY <1>7 DEF CancelOutcome
    <2>2. Rebuilds(durable, apply_cancel_outcome(state, Now, oc))
      BY <1>0, <1>7, SoundOutcome DEF CancelOutcome
    <2> QED BY <2>1, <2>2
  <1>8. CASE UnknownBackfillMatch
    <2>1. PICK rep \in Reports, page \in Pages, exhaustive \in BOOLEAN :
             rep.venue # None /\ Step(MatchedBackfill(Now, exhaustive, rep, page), TRUE)
      BY <1>8 DEF UnknownBackfillMatch
    <2>2. rep \in Report /\ page \in Seq(Here(TRUE).fills)
      BY <1>0, InputAssumption
    <2>3. Rebuilds(durable, MatchedBackfill(Now, exhaustive, rep, page))
      BY <1>0, <2>1, <2>2, SoundMatched
    <2> QED BY <2>1, <2>3
  <1>9. CASE ImmediateFillBackfillResult
    <2>1. PICK page \in Pages : Step(apply_immediate_fill_backfill(state, Now, page), TRUE)
      BY <1>9 DEF ImmediateFillBackfillResult
    <2>2. page \in Seq(Here(TRUE).fills)
      BY <1>0, InputAssumption
    <2>3. Rebuilds(durable, apply_immediate_fill_backfill(state, Now, page))
      BY <1>0, <1>9, <2>2, SoundImmediate DEF ImmediateFillBackfillResult
    <2> QED BY <2>1, <2>3
  <1>10. CASE ReconcileResult
    <2>1. PICK rep \in Reports, page \in Pages, complete \in BOOLEAN :
             Step(ReconcileReport(state, Now, rep, page, complete), TRUE)
      BY <1>10 DEF ReconcileResult
    <2>2. rep \in Report /\ page \in Seq(Here(TRUE).fills)
      BY <1>0, InputAssumption
    <2>3. Rebuilds(durable, ReconcileReport(state, Now, rep, page, complete))
      BY <1>0, <1>10, <2>2, SoundReconcile DEF ReconcileResult
    <2> QED BY <2>1, <2>3
  <1>11. CASE UserOrderRestingClaim
    <2> DEFINE bound(v) == bind_venue_id(Now, v)
               noted(v, n) == [bound(v) EXCEPT !.ctx = note_venue_remaining(bound(v).ctx, n)]
    <2>1. PICK claim \in RestingClaims :
            Step(IF BindError(ctx, claim[1]) # None
                 THEN halt_with_reason(BindError(ctx, claim[1]), Now)
                 ELSE accept(Accepted(claim[1]), noted(claim[1], claim[2])), FALSE)
      BY <1>11 DEF UserOrderRestingClaim
    <2>2. claim[1] \in Venues /\ claim[2] \in Opt(Nat)
      BY InputAssumption DEF Opt
    <2>3. CASE BindError(ctx, claim[1]) # None
      BY <1>1, <2>1, <2>3
    <2>4. CASE BindError(ctx, claim[1]) = None
      <3> DEFINE g == Here(FALSE)
                 w == Now
                 v == claim[1]
                 n == claim[2]
                 s == Accepted(claim[1])
      <3>1. Sound(g, durable, w) /\ v \in Venues /\ n \in Opt(Nat)
        BY <1>0, <2>2
      <3>2. BindError(w.ctx, v) = None
        BY <1>0, <2>4
      <3> HIDE DEF g, w, v, n, s
      <3>3. Rebuilds(durable, accept(s, [bind_venue_id(w, v) EXCEPT
                       !.ctx = note_venue_remaining(bind_venue_id(w, v).ctx, n)]))
        <4>1. \A m \in Opt(Nat) : \A a : BindError(w.ctx, v) = None =>
                 Rebuilds(durable, accept(a, [bind_venue_id(w, v) EXCEPT
                       !.ctx = note_venue_remaining(bind_venue_id(w, v).ctx, m)]))
          BY ONLY <3>1, SoundClaims
        <4> QED BY ONLY <3>1, <3>2, <4>1
      <3> QED BY <2>1, <2>4, <3>3 DEF w, v, n, s
    <2> QED BY <2>3, <2>4
  <1>12. CASE UserOrderTerminalClaim
    <2> DEFINE noted == [Now EXCEPT !.ctx = note_venue_remaining(Now.ctx, 0)]
               x == note_authority_complete(noted, TRUE)
    <2>1. PICK claim \in TerminalClaims :
            \/ Step(try_finalize_terminal(x, Proposed("Filled", claim[2], 0), claim[1], "Filled"),
                    FALSE)
            \/ Step(try_finalize_terminal(x, ProposedCanceled, claim[1], "Canceled"), FALSE)
      BY <1>12 DEF UserOrderTerminalClaim
    <2>2. claim[1] \in Venues
      BY InputAssumption
    <2>3. \A p, k : Rebuilds(durable, try_finalize_terminal(x, p, claim[1], k))
      BY <1>0, <2>2, SoundClaims
    <2> HIDE DEF x
    <2> QED BY <2>1, <2>3
  <1>13. CASE CloseSubmission
    <2>1. CASE Step(accept(state, Now), FALSE)
      BY <1>1, <2>1
    <2>2. CASE \E reason \in CloseReasons : Step(try_close_submission(state, Now, reason), FALSE)
      <3>1. PICK reason \in CloseReasons : Step(try_close_submission(state, Now, reason), FALSE)
        BY <2>2
      <3>2. try_close_submission(state, Now, reason) = accept(SubmissionClosed(reason), Now)
        BY <3>1 DEF Step, try_close_submission, reject
      <3> QED BY <1>1, <3>1, <3>2
    <2> QED BY <1>13, <2>1, <2>2 DEF CloseSubmission
  <1> QED BY <1>3, <1>4, <1>5, <1>6, <1>7, <1>8, <1>9, <1>10, <1>11, <1>12, <1>13 DEF Next

\* Every action preserves it.
LEMMA NextRebuilt == IInv /\ Rebuilt /\ [Next]_vars => Rebuilt'
  <1> SUFFICES ASSUME IInv, Rebuilt, [Next]_vars PROVE Rebuilt'
    OBVIOUS
  <1>1. CASE UNCHANGED vars
    BY <1>1 DEF vars, Rebuilt
  <1>2. CASE Next /\ \E e : durable = Ok(e) /\ Agrees(e, ctx)
    <2>1. PICK e : durable = Ok(e) /\ Agrees(e, ctx)
      BY <1>2
    <2>2. PICK o, answer : Step(o, answer) /\ Rebuilds(durable, o)
      BY <1>2, <2>1, AgreedStep
    <2> QED BY <2>2, StepRebuilt
  <1>3. CASE Next /\ ~ durable.ok /\ state.kind = "Halted"
    BY <1>3, FailedStep DEF Rebuilt
  <1> QED BY <1>1, <1>2, <1>3 DEF Rebuilt

\* The journal of every reachable state rebuilds, or the order has halted.
LEMMA RebuildInvariance == Spec => [](IInv /\ Rebuilt)
  <1>1. Init => IInv /\ Rebuilt
    BY InitInv, InitRebuilt
  <1>2. IInv /\ Rebuilt /\ [Next]_vars => (IInv /\ Rebuilt)'
    BY NextInv, NextRebuilt
  <1> QED BY <1>1, <1>2, PTL DEF Spec

\* The rebuilt context and the one in memory differ at most in the authority
\* latch and the last venue remaining.
LEMMA AgreesMeans ==
  ASSUME NEW e, NEW c, CtxTyped(c), Agrees(e, c)
  PROVE  /\ [e EXCEPT !.authority_complete = FALSE, !.authority_latched_epoch = 0,
                      !.last_venue_remaining_qty = None]
              = [c EXCEPT !.authority_complete = FALSE, !.authority_latched_epoch = 0,
                          !.last_venue_remaining_qty = None]
         /\ authority_is_fresh(e) => authority_is_fresh(c)
  <1>1. Shaped(c)
    BY ShapedContext
  <1>2. authority_is_fresh(e) => authority_is_fresh(c)
    BY DEF Agrees, Modest, authority_is_fresh
  <1>3. [e EXCEPT !.authority_complete = FALSE, !.authority_latched_epoch = 0,
                  !.last_venue_remaining_qty = None]
          = [c EXCEPT !.authority_complete = FALSE, !.authority_latched_epoch = 0,
                      !.last_venue_remaining_qty = None]
    BY <1>1 DEF Agrees, SameRebuilt, Shaped
  <1> QED BY <1>2, <1>3

\* After a restart the rebuilt context is the one in memory but for a latch or
\* a last venue remaining that is missing: a restart forgets no evidence and
\* claims no fresher authority.
THEOREM RebuildAgreesSafe == Spec => []RebuildAgrees
  <1>1. IInv /\ Rebuilt => RebuildAgrees
    <2> SUFFICES ASSUME IInv, Rebuilt, durable.ok PROVE RebuildAgrees
      BY DEF RebuildAgrees
    <2>1. PICK e : durable = Ok(e) /\ Agrees(e, ctx)
      BY DEF Rebuilt
    <2>2. durable.ctx = e
      BY <2>1 DEF Ok
    <2>3. CtxTyped(ctx)
      BY DEF IInv, CtxInv, CtxBase
    <2> DEFINE Rest(x) == [x EXCEPT !.authority_complete = FALSE, !.authority_latched_epoch = 0,
                                    !.last_venue_remaining_qty = None]
    <2>4. Rest(e) = Rest(ctx) /\ (authority_is_fresh(e) => authority_is_fresh(ctx))
      <3>1. CtxTyped(ctx) /\ Agrees(e, ctx)
        BY <2>1, <2>3
      <3> QED BY ONLY <3>1, AgreesMeans
    <2> HIDE DEF Rest
    <2>5. Rest(durable.ctx) = Rest(ctx)
      BY <2>2, <2>4
    <2>6. authority_is_fresh(durable.ctx) => authority_is_fresh(ctx)
      BY <2>2, <2>4
    <2> QED BY ONLY <2>5, <2>6 DEF Rest, RebuildAgrees
  <1> QED BY <1>1, RebuildInvariance, PTL

\* The restart fold refuses no journal but that of a halted order.
THEOREM RebuildFailsSafe == Spec => []RebuildFailsOnlyHalted
  <1>1. IInv /\ Rebuilt => RebuildFailsOnlyHalted
    BY DEF Rebuilt, RebuildFailsOnlyHalted, Ok
  <1> QED BY <1>1, RebuildInvariance, PTL

\* A submission is closed as never sent only when neither memory nor the journal
\* holds anything of it, and nothing was booked.
THEOREM ClosedSafe == Spec => []ClosedWithoutEvidence
  <1>1. IInv /\ Rebuilt => ClosedWithoutEvidence
    <2> SUFFICES ASSUME IInv, Rebuilt, state.kind = "SubmissionClosed"
                 PROVE  /\ ~ submission_close_blocked(ctx)
                        /\ durable.ok /\ ~ submission_close_blocked(durable.ctx)
                        /\ ledger.qty = 0
      BY DEF ClosedWithoutEvidence
    <2>1. PICK e : durable = Ok(e) /\ Agrees(e, ctx)
      BY DEF Rebuilt
    <2>2. durable.ctx = e /\ durable.ok
      BY <2>1 DEF Ok
    <2>3. ~ submission_close_blocked(ctx)
      BY DEF IInv
    <2>4. ~ submission_close_blocked(e)
      <3>1. e.venue_order_id = None /\ ~ ctx.authority_complete
        BY <2>1, <2>3 DEF Agrees, SameRebuilt, submission_close_blocked
      <3>2. e.last_venue_remaining_qty = None /\ ~ e.authority_complete
        BY <2>1, <3>1 DEF Agrees, Modest, authority_is_fresh
      <3> QED BY <2>1, <2>3, <3>1, <3>2 DEF Agrees, SameRebuilt, submission_close_blocked, AppliedIds
    <2>5. ledger.qty = 0
      <3>1. ctx.attributed_fill_qty \in Nat
        BY <2>3, Numbers DEF IInv, CtxInv
      <3> QED BY <2>3, <3>1 DEF IInv, submission_close_blocked
    <2> QED BY <2>2, <2>3, <2>4, <2>5
  <1> QED BY <1>1, RebuildInvariance, PTL
=============================================================================
