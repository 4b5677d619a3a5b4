------------------------- MODULE TransactionsProofs -------------------------
(***************************************************************************)
(* What preparing a transaction promises, for every row, inventory, event  *)
(* and page of evidence.                                                   *)
(*                                                                         *)
(* CoreSound says what a call of the order core leaves of a row; the       *)
(* lemmas about a batch say how each evidence may change the inventory and *)
(* that the two changes agree.                                             *)
(***************************************************************************)
EXTENDS Transactions, OrderMachineProofs, FiniteSetTheorems, SequenceTheorems

-----------------------------------------------------------------------------
(* The core call                                                           *)

\* A row as the shell holds it between two transactions.
RowSound(row) ==
    /\ row = Row(row.state, row.ctx, row.seq) /\ row.seq \in Nat
    /\ CtxInv(row.ctx) /\ StateInv(row.state, row.ctx)

\* Where an order no longer lives at the venue.
Ended(s) == s.kind \in Terminals \cup Halts

\* What the log of a core call tells the registry: the binding when it is new;
\* the end of an order that did not halt, when it is new.  A bound order that
\* has ended stays so, and halting ends it.
CoreTells(row, o) ==
    LET marks == Marks(o.work.log) IN
    /\ IsLog(o.work.log)
    /\ {r \in marks : r.rec = "VenueBoundCid"} = BindMarks(row.ctx, o.work.ctx)
    /\ (\E r \in marks : r.rec = "OrderTerminal") => o.state.kind \in Terminals
    /\ o.outcome = "Halt" => o.state.kind \in Halts
    /\ Ended(o.state) =>
         \/ Ended(row.state) /\ o.work.ctx.venue_order_id = row.ctx.venue_order_id
         \/ o.outcome = "Halt" \/ \E r \in marks : r.rec = "OrderTerminal"
    /\ Ended(row.state) /\ row.ctx.venue_order_id # None => Ended(o.state)
    /\ row.ctx.venue_order_id # None => o.work.ctx.venue_order_id = row.ctx.venue_order_id

\* What a core call on the row makes of it: sound, grown out of it, and the
\* same row if the core rejected.
CoreSound(g, row, o) ==
    /\ o.outcome \in {"Accept", "Halt", "Reject"}
    /\ o.outcome = "Reject" => o.work.ctx = row.ctx
    /\ CoreTells(row, o)
    /\ CtxInv(o.work.ctx) /\ Since(g, o.work.ctx)
    /\ StateInv(o.state, o.work.ctx)

\* The journal records no own action.
Unowned(o) == \A r \in Marks(o.work.log) : r.rec # "OwnActionCid"

\* Where a core call on the row starts, with the fills of the event.
From(row, fills) ==
    [ctx |-> row.ctx, fills |-> fills, standing |-> {row.state.kind}, exact |-> FALSE]

\* The core starts from a sound work record.
LEMMA StartWork ==
  ASSUME NEW row, RowSound(row), NEW P \in SUBSET FillRecord
  PROVE  /\ WorkInv(From(row, P), NoWork(row.ctx)) /\ NoWork(row.ctx).ctx = row.ctx
         /\ From(row, P).fills = P /\ From(row, P).ctx = row.ctx
         /\ row.state.kind \in From(row, P).standing
  <1> DEFINE g == From(row, P)
  <1>3. g.fills = P /\ g.ctx = row.ctx /\ row.state.kind \in g.standing /\ ~ g.exact
    BY DEF From
  <1> HIDE DEF g
  <1>1. Since(g, row.ctx)
    BY <1>3, SinceStart DEF RowSound, CtxInv
  <1>2. /\ WorkTyped(NoWork(row.ctx)) /\ NoWork(row.ctx).ctx = row.ctx
        /\ Traced(g, NoWork(row.ctx))
    BY <1>3, NoWorkTyped DEF Traced, BindMarks
  <1>4. BooksMatch(g, NoWork(row.ctx))
    <2>1. row.ctx.attributed_fill_qty \in Nat /\ row.ctx.attributed_fee \in Nat
      BY DEF RowSound, CtxInv, CtxBase, CtxTyped
    <2>2. NoWork(row.ctx).qty = 0 /\ NoWork(row.ctx).fee = 0
      BY DEF NoWork
    <2> QED BY <1>2, <1>3, <2>1, <2>2 DEF BooksMatch
  <1> QED BY <1>1, <1>2, <1>3, <1>4 DEF RowSound, WorkInv, Claimed, g

\* A rejected event leaves the row as it is.
LEMMA RejectSound ==
  ASSUME NEW row, RowSound(row), NEW P \in SUBSET FillRecord
  PROVE  /\ CoreSound(From(row, P), row, reject(row.state, NoWork(row.ctx)))
         /\ Unowned(reject(row.state, NoWork(row.ctx)))
  <1>1. reject(row.state, NoWork(row.ctx)).work.ctx = row.ctx
        /\ reject(row.state, NoWork(row.ctx)).state = row.state
        /\ reject(row.state, NoWork(row.ctx)).outcome = "Reject"
    BY DEF reject, NoWork
  <1>2. Since(From(row, P), row.ctx)
    BY StartWork DEF WorkInv
  <1>3. CoreTells(row, reject(row.state, NoWork(row.ctx)))
    <2>1. /\ reject(row.state, NoWork(row.ctx)).work = NoWork(row.ctx)
          /\ IsLog(NoWork(row.ctx).log)
      BY NoWorkTyped DEF reject, WorkTyped
    <2> QED BY <1>1, <2>1, NoWorkTyped DEF CoreTells, BindMarks
  <1>4. Unowned(reject(row.state, NoWork(row.ctx)))
    BY NoWorkTyped DEF Unowned, reject
  <1> QED BY <1>1, <1>2, <1>3, <1>4 DEF CoreSound, RowSound

\* A good outcome of a handler is a sound core call, on an order that has not ended.
LEMMA LiveIsSound ==
  ASSUME NEW row, NEW P, ~ is_restart_frozen(row.state), NEW o, OutcomeInv(From(row, P), o)
  PROVE  CoreSound(From(row, P), row, o) /\ Unowned(o)
  <1> DEFINE g == From(row, P)
             marks == Marks(o.work.log)
             bound == BindMarks(g.ctx, o.work.ctx)
             ended == IF o.state.kind \in Terminals THEN {OrderTerminalRecord(o.work.ctx)} ELSE {}
  <1>1. marks = bound \cup ended
    BY DEF OutcomeInv, LogTells
  <1>2. /\ \A r \in bound : r.rec = "VenueBoundCid"
        /\ \A r \in ended : r.rec = "OrderTerminal"
    BY DEF BindMarks, VenueBoundRecord, OrderTerminalRecord
  <1>3. ended # {} <=> o.state.kind \in Terminals
    OBVIOUS
  <1> HIDE DEF marks, bound, ended
  <1>4. /\ {r \in marks : r.rec = "VenueBoundCid"} = bound
        /\ (\E r \in marks : r.rec = "OrderTerminal") <=> o.state.kind \in Terminals
    BY <1>1, <1>2, <1>3
  <1>5. g.ctx = row.ctx /\ ~ Ended(row.state)
    BY DEF From, Ended, Halts, is_restart_frozen
  <1>7. row.ctx.venue_order_id # None => o.work.ctx.venue_order_id = row.ctx.venue_order_id
    BY <1>5 DEF OutcomeInv, Effects, Since, Grows
  <1>6. CoreTells(row, o)
    BY <1>4, <1>5, <1>7 DEF CoreTells, OutcomeInv, Ended, marks, bound
  <1>8. Unowned(o)
    BY <1>1, <1>2 DEF Unowned, marks
  <1> QED BY <1>6, <1>8 DEF OutcomeInv, Effects, CoreSound

\* A terminal user_order frame is rejected or ends well.
LEMMA TerminalClaimSound ==
  ASSUME NEW row, RowSound(row), ~ is_restart_frozen(row.state),
         NEW P \in SUBSET FillRecord, NEW claim \in TerminalClaim
  PROVE  /\ CoreSound(From(row, P), row, terminal_claim(row.state, NoWork(row.ctx), claim))
         /\ Unowned(terminal_claim(row.state, NoWork(row.ctx), claim))
  <1> DEFINE g == From(row, P)
             w == NoWork(row.ctx)
             noted == [w EXCEPT !.ctx = note_venue_remaining(w.ctx, 0)]
             x == note_authority_complete(noted, TRUE)
             p == IF claim.executed THEN Proposed("Filled", claim.filled, 0)
                  ELSE ProposedCanceled
             k == IF claim.executed THEN "Filled" ELSE "Canceled"
  <1>1. CASE terminal_claim(row.state, w, claim) = reject(row.state, w)
    BY <1>1, RejectSound
  <1>2. CASE terminal_claim(row.state, w, claim) # reject(row.state, w)
    <2>1. /\ terminal_claim(row.state, w, claim)
               = try_finalize_terminal(x, p, claim.venue, k)
          /\ w.ctx.venue_order_id = claim.venue
      BY <1>2 DEF terminal_claim
    <2>2. WorkInv(g, w) /\ claim.venue \in Venues /\ claim.filled \in Nat
      BY StartWork DEF TerminalClaim
    <2> HIDE DEF w
    <2>3. WorkInv(g, noted) /\ Bound(noted, claim.venue)
      <3> DEFINE d == note_venue_remaining(w.ctx, 0)
      <3>1. CtxInv(d) /\ Quiet(w.ctx, d) /\ d.venue_order_id = w.ctx.venue_order_id
        BY <2>2, NoteRemainingInv DEF WorkInv, Opt
      <3> HIDE DEF d
      <3>2. WorkInv(g, [w EXCEPT !.ctx = d]) /\ [w EXCEPT !.ctx = d].ctx = d
        BY <2>2, <3>1, QuietContext
      <3> QED BY <2>1, <2>2, <3>1, <3>2 DEF Bound, d
    <2> HIDE DEF noted
    <2>4. WorkInv(g, x) /\ Bound(x, claim.venue)
      BY <2>3, AuthorityWork, BoundGrows DEF Follows
    <2>5. GoodProposal(p) /\ k \in Terminals
      BY <2>2 DEF GoodProposal, Proposed, ProposedCanceled, Opt, Terminals
    <2> HIDE DEF x, p, k, g
    <2>6. OutcomeInv(g, try_finalize_terminal(x, p, claim.venue, k))
      BY <2>4, <2>5, TryFinalizeInv
    <2> QED BY <2>1, <2>6, LiveIsSound DEF g, w
  <1> QED BY <1>1, <1>2

\* Closing a submission is rejected or touches nothing but the state.
LEMMA CloseSound ==
  ASSUME NEW row, RowSound(row), NEW P \in SUBSET FillRecord
  PROVE  LET o == try_close_submission(row.state, NoWork(row.ctx), "ExhaustiveAbsent")
         IN CoreSound(From(row, P), row, o) /\ Unowned(o)
  <1> DEFINE w == NoWork(row.ctx)
             t == SubmissionClosed("ExhaustiveAbsent")
             o == try_close_submission(row.state, w, "ExhaustiveAbsent")
  <1>1. CASE submission_close_blocked(w.ctx)
    BY <1>1, RejectSound DEF try_close_submission
  <1>2. CASE ~ submission_close_blocked(w.ctx)
    <2>1. o.work.ctx = row.ctx /\ o.state = t /\ o.outcome = "Accept"
      BY <1>2 DEF try_close_submission, accept, NoWork
    <2>2. StateInv(t, row.ctx)
      <3>1. "SubmissionClosed" \in Kinds \ (LiveKinds \cup PendingKinds
                                            \cup {"ImmediateFillUnattributed"})
            /\ "ExhaustiveAbsent" \in Opt(HaltReason \cup CloseReasons)
        BY DEF Kinds, LiveKinds, PendingKinds, Opt, CloseReasons
      <3> QED BY <3>1, PlainInv DEF SubmissionClosed
    <2>3. Since(From(row, P), row.ctx)
      BY StartWork DEF WorkInv
    <2>5. /\ o.work = w /\ IsLog(w.log) /\ Marks(w.log) = {}
          /\ row.ctx.venue_order_id = None
      BY <1>2, NoWorkTyped DEF try_close_submission, accept, WorkTyped, submission_close_blocked
    <2>6. t.kind = "SubmissionClosed"
      BY DEF SubmissionClosed, Plain
    <2> HIDE DEF t, o
    <2>7. CoreTells(row, o)
      BY <2>1, <2>5, <2>6 DEF CoreTells, BindMarks, Ended, Terminals, Halts
    <2>8. Unowned(o)
      BY <2>5 DEF Unowned, w
    <2>4. CoreSound(From(row, P), row, o) /\ Unowned(o)
      BY <2>1, <2>2, <2>3, <2>7, <2>8 DEF CoreSound, RowSound
    <2> QED BY <2>4 DEF o, w
  <1> QED BY <1>1, <1>2

\* The dispatch on a live order.
LEMMA LiveEventSound ==
  ASSUME NEW row, RowSound(row), ~ is_restart_frozen(row.state),
         NEW ev \in OrderEvent, NEW P \in SUBSET FillRecord, NEW page \in Seq(P)
  PROVE  LET o == LiveEvent(row.state, NoWork(row.ctx), ev, page)
         IN CoreSound(From(row, P), row, o) /\ (ev.type # "OwnAction" => Unowned(o))
  <1> DEFINE g == From(row, P)
             w == NoWork(row.ctx)
             s == row.state
             o == LiveEvent(s, w, ev, page)
  <1>1. /\ WorkInv(g, w) /\ StateInv(s, w.ctx) /\ page \in Seq(g.fills)
        /\ s.kind \in g.standing
    BY StartWork DEF RowSound
  <1>2. CoreSound(g, row, reject(s, w)) /\ Unowned(reject(s, w))
    BY RejectSound
  <1> HIDE DEF g, w
  <1>3. CASE ev.type = "SubmitResponse"
    <2>1. ev.arg \in Response
      BY <1>3 DEF OrderEvent
    <2>2. OutcomeInv(g, apply_submit_response(w, ev.arg))
      BY <1>1, <2>1, SubmitResponseInv
    <2>3. o \in {reject(s, w), apply_submit_response(w, ev.arg)}
      BY <1>3 DEF LiveEvent
    <2> QED BY <1>2, <2>2, <2>3, LiveIsSound DEF g, w
  <1>4. CASE ev.type = "SubmitTimeout"
    <2> DEFINE x == Ask(w, {"BackfillUnknown"})
    <2>1. WorkInv(g, x)
      BY <1>1, AskWork DEF Requests
    <2>2. OutcomeInv(g, accept(Plain("SubmitUnknown"), x))
      <3>1. "BackfillUnknown" \in x.asks
        BY <1>1 DEF Ask, WorkInv, WorkTyped
      <3> HIDE DEF x
      <3>2. \A c : StateInv(Plain("SubmitUnknown"), c) /\ Plain("SubmitUnknown").kind = "SubmitUnknown"
        BY PlainStates
      <3>3. Driven(g, Plain("SubmitUnknown"), x)
        BY <3>1, <3>2 DEF Driven, AskedFor
      <3> QED BY <2>1, <3>2, <3>3, AcceptInv DEF Terminals, Halts
    <2>3. o \in {reject(s, w), accept(Plain("SubmitUnknown"), x)}
      BY <1>4 DEF LiveEvent
    <2> QED BY <1>2, <2>2, <2>3, LiveIsSound DEF g, w
  <1>5. CASE ev.type = "CancelRequested"
    <2>1. CASE s.kind \in LiveKinds \cup {"ImmediateFillUnattributed"}
      <3>1. OutcomeInv(g, request_cancel(s, w))
        BY <1>1, <2>1, RequestCancelInv
      <3>2. o = request_cancel(s, w)
        BY <1>5, <2>1 DEF LiveEvent, LiveKinds, PendingKinds
      <3> QED BY <3>1, <3>2, LiveIsSound DEF g, w
    <2>2. CASE s.kind \in PendingKinds
      <3>1. OutcomeInv(g, accept(s, w))
        BY <1>1, <2>2, AcceptInv DEF PendingKinds, Terminals, Halts, Driven
      <3>2. o = accept(s, w)
        BY <1>5, <2>2 DEF LiveEvent, PendingKinds, LiveKinds
      <3> QED BY <3>1, <3>2, LiveIsSound DEF g, w
    <2>3. CASE s.kind \notin LiveKinds \cup {"ImmediateFillUnattributed"} \cup PendingKinds
      <3>1. o = reject(s, w)
        BY <1>5, <2>3 DEF LiveEvent
      <3> QED BY <1>2, <3>1 DEF g, w
    <2> QED BY <2>1, <2>2, <2>3
  <1>6. CASE ev.type = "CancelOutcome"
    <2>1. CASE s.kind = "CancelPending"
      <3>1. OutcomeInv(g, apply_cancel_outcome(s, w, ev.arg))
        BY <1>1, <2>1, CancelOutcomeInv
      <3>2. o = apply_cancel_outcome(s, w, ev.arg)
        BY <1>6, <2>1 DEF LiveEvent
      <3> QED BY <3>1, <3>2, LiveIsSound DEF g, w
    <2>2. CASE s.kind # "CancelPending"
      <3>1. o = reject(s, w)
        BY <1>6, <2>2 DEF LiveEvent
      <3> QED BY <1>2, <3>1 DEF g, w
    <2> QED BY <2>1, <2>2
  <1>7. CASE ev.type = "ImmediateFillBackfillResult"
    <2>1. CASE s.kind = "ImmediateFillUnattributed"
      <3>1. OutcomeInv(g, apply_immediate_fill_backfill(s, w, page))
        BY <1>1, <2>1, ImmediateBackfillInv
      <3>2. o = apply_immediate_fill_backfill(s, w, page)
        BY <1>7, <2>1 DEF LiveEvent
      <3> QED BY <3>1, <3>2, LiveIsSound DEF g, w
    <2>2. CASE s.kind # "ImmediateFillUnattributed"
      <3>1. o = reject(s, w)
        BY <1>7, <2>2 DEF LiveEvent
      <3> QED BY <1>2, <3>1 DEF g, w
    <2> QED BY <2>1, <2>2
  <1>8. CASE ev.type = "UnknownBackfillResult"
    <2>1. ev.arg \in Report /\ ev.arg.venue # None
      BY <1>8 DEF OrderEvent
    <2>2. OutcomeInv(g, MatchedBackfill(w, TRUE, ev.arg, page))
      BY <1>1, <2>1, MatchedInv
    <2>3. o \in {reject(s, w), MatchedBackfill(w, TRUE, ev.arg, page)}
      BY <1>8 DEF LiveEvent
    <2> QED BY <1>2, <2>2, <2>3, LiveIsSound DEF g, w
  <1>9. CASE ev.type = "BackfillNoMatch"
    <2>1. OutcomeInv(g, halt_with_reason_state(Plain("UnknownNoMatch"), w))
      BY <1>1, PlainStates, HaltStateInv
    <2>2. o \in {reject(s, w), halt_with_reason_state(Plain("UnknownNoMatch"), w)}
      BY <1>9 DEF LiveEvent
    <2> QED BY <1>2, <2>1, <2>2, LiveIsSound DEF g, w
  <1>10. CASE ev.type = "BackfillContinues"
    <2> DEFINE x == Ask(w, {"BackfillUnknown"})
    <2>1. WorkInv(g, x) /\ x.ctx = w.ctx
      BY <1>1, AskWork DEF Requests
    <2> HIDE DEF x
    <2>2. s.kind = "SubmitUnknown" => OutcomeInv(g, accept(s, x))
      BY <1>1, <2>1, AcceptInv DEF Terminals, Halts, Driven
    <2>3. o = IF s.kind = "SubmitUnknown" THEN accept(s, x) ELSE reject(s, w)
      BY <1>10 DEF LiveEvent, x
    <2> QED BY <1>2, <2>2, <2>3, LiveIsSound DEF g, w
  <1>11. CASE ev.type = "ReconcileResult"
    <2>1. CASE s.kind \in PendingKinds
      <3>1. ev.arg \in Report
        BY <1>11 DEF OrderEvent
      <3>2. OutcomeInv(g, ReconcileReport(s, w, ev.arg, page, TRUE))
        BY <1>1, <2>1, <3>1, ReconcileReportInv
      <3>3. o = ReconcileReport(s, w, ev.arg, page, TRUE)
        BY <1>11, <2>1 DEF LiveEvent
      <3> QED BY <3>2, <3>3, LiveIsSound DEF g, w
    <2>2. CASE s.kind \notin PendingKinds
      <3>1. o = reject(s, w)
        BY <1>11, <2>2 DEF LiveEvent
      <3> QED BY <1>2, <3>1 DEF g, w
    <2> QED BY <2>1, <2>2
  <1>12. CASE ev.type = "OwnAction"
    <2> DEFINE x == AppendFsync(w, OwnActionRecord)
    <2>1. /\ x.ctx = w.ctx /\ IsLog(x.log) /\ Marks(x.log) = {OwnActionRecord}
          /\ w.ctx = row.ctx /\ OwnActionRecord.rec = "OwnActionCid"
      <3>1. OwnActionRecord.rec \in Reserved /\ OwnActionRecord.rec = "OwnActionCid"
        BY DEF OwnActionRecord, Reserved
      <3>2. WorkTyped(w) /\ Marks(w.log) = {} /\ w.ctx = row.ctx
        BY NoWorkTyped DEF w
      <3>3. /\ WorkTyped(x) /\ x.ctx = w.ctx
            /\ Marks(x.log) = IF OwnActionRecord.rec \in Reserved
                              THEN Marks(w.log) \cup {OwnActionRecord} ELSE Marks(w.log)
        BY <3>2, AppendWork
      <3> HIDE DEF x
      <3>4. IsLog(x.log)
        BY <3>3 DEF WorkTyped
      <3> QED BY <3>1, <3>2, <3>3, <3>4
    <2> HIDE DEF x
    <2>2. ~ Ended(s)
      BY DEF Ended, Halts, is_restart_frozen
    <2>3. o = IF s.kind \in LiveKinds \cup PendingKinds \cup {"ImmediateFillUnattributed"}
              THEN accept(s, x) ELSE reject(s, w)
      BY <1>12 DEF LiveEvent, x
    <2>4. /\ accept(s, x).outcome = "Accept" /\ accept(s, x).state = s
          /\ accept(s, x).work = x
      BY DEF accept
    <2>5. CoreTells(row, accept(s, x))
      BY <2>1, <2>2, <2>4 DEF CoreTells, BindMarks
    <2>6. CoreSound(g, row, accept(s, x))
      <3>1. Since(g, row.ctx) /\ CtxInv(row.ctx) /\ StateInv(s, row.ctx)
        BY <1>1, <2>1 DEF WorkInv
      <3> QED BY <2>1, <2>4, <2>5, <3>1 DEF CoreSound
    <2> QED BY <1>2, <1>12, <2>3, <2>6 DEF g, w
  <1>13. CASE ev.type = "UserOrderTerminalClaim"
    <2>1. ev.arg \in TerminalClaim
      BY <1>13 DEF OrderEvent
    <2>2. CoreSound(g, row, terminal_claim(s, w, ev.arg)) /\ Unowned(terminal_claim(s, w, ev.arg))
      BY <2>1, TerminalClaimSound DEF g, w
    <2>3. o \in {reject(s, w), terminal_claim(s, w, ev.arg)}
      BY <1>13 DEF LiveEvent
    <2> QED BY <1>2, <2>2, <2>3 DEF g, w
  <1>14. CASE ev.type = "CloseSubmission"
    <2>1. o \in {reject(s, w), try_close_submission(s, w, "ExhaustiveAbsent")}
      BY <1>14 DEF LiveEvent
    <2> QED BY <1>2, <2>1, CloseSound DEF g, w
  <1>15. CASE ev.type = "Fill"
    <2>1. o = reject(s, w)
      BY <1>15 DEF LiveEvent
    <2> QED BY <1>2, <2>1 DEF g, w
  <1> QED BY <1>3, <1>4, <1>5, <1>6, <1>7, <1>8, <1>9, <1>10, <1>11, <1>12, <1>13, <1>14, <1>15
          DEF OrderEvent

\* apply_event, whatever the state of the row.
LEMMA ApplyEventSound ==
  ASSUME NEW row, RowSound(row), NEW ev \in OrderEvent,
         NEW P \in SUBSET FillRecord, NEW page \in Seq(P),
         ev.type = "Fill" => Len(page) >= 1
  PROVE  /\ CoreSound(From(row, P), row, apply_event(row, ev, page))
         /\ ev.type # "OwnAction" => Unowned(apply_event(row, ev, page))
  <1> DEFINE g == From(row, P)
             w == NoWork(row.ctx)
             o == apply_event(row, ev, page)
  <1>1. WorkInv(g, w) /\ StateInv(row.state, w.ctx) /\ g.fills = P
        /\ row.state.kind \in g.standing /\ g.ctx = row.ctx
    BY StartWork DEF RowSound
  <1>2. CoreSound(g, row, reject(row.state, w)) /\ Unowned(reject(row.state, w))
    BY RejectSound
  <1> HIDE DEF g, w
  <1>3. CASE ev.type = "Fill"
    <2>1. page[1] \in g.fills
      BY <1>1, <1>3
    <2>2. CASE row.state.kind \in {"New", "SubmitPrepared"}
      <3>1. o = reject(row.state, w)
        BY <1>3, <2>2 DEF apply_event, w
      <3> QED BY <1>2, <3>1 DEF g
    <2>3. CASE row.state.kind \notin {"New", "SubmitPrepared"}
      <3>1. o = on_fill(row.state, w, page[1])
        BY <1>3, <2>3 DEF apply_event, w
      <3>2. CASE is_restart_frozen(row.state)
        <4>1. o = restart_safe_fill(row.state, w, page[1])
          BY <3>1, <3>2 DEF on_fill
        <4>2. /\ CoreSound(g, row, restart_safe_fill(row.state, w, page[1]))
              /\ Unowned(restart_safe_fill(row.state, w, page[1]))
          <5> DEFINE q == restart_safe_fill(row.state, w, page[1])
          <5>1. /\ CtxInv(q.work.ctx) /\ Since(g, q.work.ctx)
                /\ StateInv(q.state, q.work.ctx)
                /\ q.outcome \in {"Accept", "Halt"}
                /\ IsLog(q.work.log) /\ Marks(q.work.log) = BindMarks(g.ctx, q.work.ctx)
                /\ q.outcome = "Halt" => q.state.kind = "Halted"
                /\ q.outcome = "Accept"
                     => q.state = row.state /\ q.work.ctx.venue_order_id = w.ctx.venue_order_id
            BY <1>1, <2>1, FrozenFillSound
          <5> HIDE DEF q
          <5>2. \A r \in BindMarks(g.ctx, q.work.ctx) : r.rec = "VenueBoundCid"
            BY DEF BindMarks, VenueBoundRecord
          <5>3. g.ctx = row.ctx /\ w.ctx = row.ctx
            BY <1>1, StartWork DEF w
          <5>5. row.ctx.venue_order_id # None
                  => q.work.ctx.venue_order_id = row.ctx.venue_order_id
            BY <5>1, <5>3 DEF Since, Grows
          <5>4. CoreTells(row, q)
            BY <5>1, <5>2, <5>3, <5>5 DEF CoreTells, Ended, Halts
          <5>6. Unowned(q)
            BY <5>1, <5>2 DEF Unowned
          <5> QED BY <5>1, <5>4, <5>6 DEF CoreSound, q
        <4> QED BY <4>1, <4>2 DEF g
      <3>3. CASE ~ is_restart_frozen(row.state)
        <4>1. OutcomeInv(g, on_fill(row.state, w, page[1]))
          BY <1>1, <2>1, <2>3, <3>3, FillInv
        <4> QED BY <3>1, <3>3, <4>1, LiveIsSound DEF g
      <3> QED BY <3>2, <3>3
    <2> QED BY <2>2, <2>3
  <1>4. CASE ev.type # "Fill"
    <2>1. o \in {reject(row.state, w), try_close_submission(row.state, w, "ExhaustiveAbsent"),
                 LiveEvent(row.state, w, ev, page)}
      BY <1>4 DEF apply_event, w
    <2>2. CASE is_restart_frozen(row.state)
      <3>1. o \in {reject(row.state, w), try_close_submission(row.state, w, "ExhaustiveAbsent")}
        BY <1>4, <2>2 DEF apply_event, w
      <3> QED BY <1>2, <3>1, CloseSound DEF g, w
    <2>3. CASE ~ is_restart_frozen(row.state)
      <3>1. /\ CoreSound(g, row, LiveEvent(row.state, w, ev, page))
            /\ ev.type # "OwnAction" => Unowned(LiveEvent(row.state, w, ev, page))
        BY <2>3, LiveEventSound DEF g, w
      <3> QED BY <1>2, <2>1, <3>1, CloseSound DEF g, w
    <2> QED BY <2>2, <2>3
  <1> QED BY <1>3, <1>4

-----------------------------------------------------------------------------
(* Adjudicating a batch                                                    *)

\* A later version of an entry: what was known stays, owner included.
Raised(p, n) ==
    /\ n.side = p.side /\ n.qty = p.qty /\ n.price = p.price /\ n.ts = p.ts
    /\ p.venue # None => n.venue = p.venue
    /\ p.fee # None => n.fee = p.fee
    /\ p.owner # None => n.owner = p.owner

\* Late venue, fee and claim leave an entry what it was.
LEMMA EntryUpgrade ==
  ASSUME NEW p \in InventoryEntry, NEW x, x.venue \in Opt(Venues), x.fee \in Opt(0..U64Max),
         x.claimed \in Opt(Cids)
  PROVE  /\ WithVenueAndFee(p, x) \in InventoryEntry
         /\ WithVenueAndFee(p, x).owner = p.owner /\ Raised(p, WithVenueAndFee(p, x))
         /\ WithClaim(WithVenueAndFee(p, x), x) \in InventoryEntry
         /\ WithClaim(WithVenueAndFee(p, x), x).owner = p.owner
         /\ Raised(p, WithClaim(WithVenueAndFee(p, x), x))
  <1> DEFINE u == WithVenueAndFee(p, x)
  <1>1. OrElse(p.venue, x.venue) \in Opt(Venues) /\ OrElse(p.fee, x.fee) \in Opt(0..U64Max)
        /\ OrElse(p.claimed, x.claimed) \in Opt(Cids)
    BY DEF InventoryEntry, OrElse
  <1>2. u \in InventoryEntry /\ u.owner = p.owner /\ Raised(p, u) /\ u.claimed = p.claimed
    BY <1>1 DEF WithVenueAndFee, InventoryEntry, Raised, OrElse
  <1> HIDE DEF u
  <1>3. /\ WithClaim(u, x) \in InventoryEntry /\ WithClaim(u, x).owner = u.owner
        /\ Raised(p, WithClaim(u, x))
    BY <1>1, <1>2 DEF WithClaim, InventoryEntry, Raised
  <1> QED BY <1>2, <1>3 DEF u

\* The same for a payload that is staged.
Grown(s, m) ==
    s # None =>
      /\ m # None
      /\ m.side = s.side /\ m.qty = s.qty /\ m.price = s.price /\ m.ts = s.ts
      /\ s.venue # None => m.venue = s.venue
      /\ s.fee # None => m.fee = s.fee

\* Merging later evidence into a staged payload only adds to it.
LEMMA StagedUpgrade ==
  ASSUME NEW s \in StagedPayloads, NEW e \in Evidence
  PROVE  /\ WithClaim(WithVenueAndFee(s, e), e) \in StagedPayloads
         /\ Grown(s, WithClaim(WithVenueAndFee(s, e), e))
  <1> DEFINE u == WithVenueAndFee(s, e)
             m == WithClaim(u, e)
  <1>1. OrElse(s.venue, e.venue) \in Opt(Venues) /\ OrElse(s.fee, e.fee) \in Opt(0..U64Max)
        /\ OrElse(s.claimed, e.claimed) \in Opt(Cids)
    BY DEF Evidence, StagedPayloads, OrElse
  <1>2. /\ u \in StagedPayloads /\ u.claimed = s.claimed
        /\ u.side = s.side /\ u.qty = s.qty /\ u.price = s.price /\ u.ts = s.ts
        /\ (s.venue # None => u.venue = s.venue) /\ (s.fee # None => u.fee = s.fee)
    BY <1>1 DEF WithVenueAndFee, StagedPayloads, OrElse
  <1> HIDE DEF u
  <1>3. /\ m \in StagedPayloads
        /\ m.side = u.side /\ m.qty = u.qty /\ m.price = u.price /\ m.ts = u.ts
        /\ m.venue = u.venue /\ m.fee = u.fee
    BY <1>1, <1>2 DEF WithClaim, StagedPayloads
  <1> HIDE DEF m
  <1>4. m # None
    BY <1>3, EntryAssumption
  <1> QED BY <1>2, <1>3, <1>4 DEF Grown, m, u

Dispositions == {"Unchanged", "Duplicate", "Ingested", "Upgraded", "Conflict"}
Verdicts == [verdict : {"IgnoredZero", "Refused", "Admitted", "SideMismatch"},
             inventory : Dispositions, entry : Opt(InventoryEntry),
             conflict : Opt(ConflictClass)]

\* The verdicts that bring an execution in.
Opens(v) == v.verdict = "Admitted" \/ v.inventory = "Ingested"

\* What is staged agrees with the entry of the inventory.
StagedSound(inv, f, m) ==
    LET p == inv.entries[f] IN
    m # None /\ p # None =>
      /\ m.side = p.side /\ m.qty = p.qty /\ m.price = p.price /\ m.ts = p.ts
      /\ p.venue # None => m.venue = p.venue
      /\ p.fee # None => m.fee = p.fee

\* What the verdict on an evidence promises; m is what is staged of it.
PreSound(c, row, inv, e, m, v) ==
    LET p == inv.entries[e.id] IN
    /\ v.verdict # "SideMismatch"
    /\ v.conflict # None <=> v.inventory = "Conflict"
    /\ v.verdict = "Admitted" =>
         /\ c \notin ForeignRows /\ v.inventory = "Unchanged"
         /\ m # None /\ m.side = e.side /\ m.qty = e.qty /\ m.price = e.price
         /\ p = None /\ row.ctx.applied_fills[e.id] = None => m.ts = e.ts
         /\ p # None => p.owner \in {None, c}
    /\ v.inventory = "Ingested" =>
         /\ c \in ForeignRows /\ p = None /\ m # None
         /\ v.entry \in InventoryEntry /\ v.entry.owner = None /\ v.entry.qty = e.qty
    /\ v.inventory = "Upgraded" =>
         /\ c \in ForeignRows /\ p # None /\ v.entry \in InventoryEntry
         /\ Raised(p, v.entry) /\ v.entry.owner = p.owner

\* What is staged later promises it still.
LEMMA PreGrown ==
  ASSUME NEW c, NEW row, NEW inv, NEW e, NEW m, NEW n, NEW v,
         PreSound(c, row, inv, e, m, v), Grown(m, n)
  PROVE  PreSound(c, row, inv, e, n, v)
  BY DEF PreSound, Grown

\* Staging an evidence that nothing is staged of.
LEMMA FreshSound ==
  ASSUME NEW p \in Opt(InventoryEntry), NEW q \in Opt(Payload), NEW e \in Evidence,
         ~ CoreHit({e, p} \ {None}, {e, p, q} \ {None})
  PROVE  LET m == StagedPayload(e, p, q)
         IN /\ m \in StagedPayloads /\ m # None
            /\ m.side = e.side /\ m.qty = e.qty /\ m.price = e.price
            /\ p = None /\ q = None => m.ts = e.ts
            /\ p # None =>
                 /\ m.side = p.side /\ m.qty = p.qty /\ m.price = p.price /\ m.ts = p.ts
                 /\ p.venue # None => m.venue = p.venue
                 /\ p.fee # None => m.fee = p.fee
  <1> DEFINE m == StagedPayload(e, p, q)
             prior == IF p # None THEN p ELSE IF q # None THEN q ELSE e
             pv == IF p # None THEN p.venue ELSE None
             pf == IF p # None THEN p.fee ELSE None
             qv == IF q # None THEN q.venue ELSE None
             qf == IF q # None THEN q.fee ELSE None
             venue == OrElse(pv, OrElse(qv, e.venue))
             fee == OrElse(pf, OrElse(qf, e.fee))
  <1>1. m = [side |-> e.side, qty |-> e.qty, price |-> e.price, ts |-> prior.ts,
             venue |-> venue, fee |-> fee, claimed |-> e.claimed]
    BY DEF StagedPayload
  <1>2. p # None => p \in InventoryEntry
    BY DEF Opt
  <1>3. q # None => q \in Payload
    BY DEF Opt
  <1>4. prior.ts \in Int
    BY <1>2, <1>3 DEF InventoryEntry, Payload, Evidence
  <1>5. venue \in Opt(Venues) /\ fee \in Opt(0..U64Max)
    BY <1>2, <1>3 DEF InventoryEntry, Payload, Evidence, Opt, OrElse
  <1>6. /\ p # None /\ p.venue # None => venue = p.venue
        /\ p # None /\ p.fee # None => fee = p.fee
        /\ p # None => prior = p
        /\ p = None /\ q = None => prior = e
    BY DEF OrElse
  <1> HIDE DEF venue, fee, prior
  <1>7. m \in StagedPayloads
    BY <1>1, <1>4, <1>5 DEF StagedPayloads, Evidence
  <1>8. e # None
    BY EntryAssumption
  <1>9. p # None => e.side = p.side /\ e.qty = p.qty /\ e.price = p.price
    BY <1>8 DEF CoreHit, core_disagree_qty_price_venue
  <1> HIDE DEF m
  <1>10. m # None
    BY <1>7, EntryAssumption
  <1> QED BY <1>1, <1>6, <1>7, <1>9, <1>10 DEF m

\* The accumulator of a batch.
Acc(staging, pre) == [staging |-> staging, pre |-> pre]
Put(staging, id, m) == [staging EXCEPT ![id] = m]

\* A verdict is pushed.
LEMMA PushedIs ==
  ASSUME NEW staging, NEW pre, NEW v
  PROVE  Pushed(Acc(staging, pre), v) = Acc(staging, Append(pre, v))
  BY DEF Pushed, Acc

\* A payload is staged and a verdict pushed.
LEMMA StagedIs ==
  ASSUME NEW staging, NEW pre, NEW id, NEW m, NEW v
  PROVE  Pushed(Staged(Acc(staging, pre), id, m), v)
           = Acc(Put(staging, id, m), Append(pre, v))
  <1>1. Staged(Acc(staging, pre), id, m) = Acc(Put(staging, id, m), pre)
    BY DEF Staged, Acc, Put
  <1> QED BY <1>1, PushedIs

\* One evidence: a verdict is pushed, and what is staged of its id may grow.
LEMMA AdjudicateOne ==
  ASSUME NEW c \in Cids, NEW row, RowSound(row), NEW inv \in MarketInventory,
         NEW staging \in [FillIds -> Opt(StagedPayloads)], NEW pre,
         NEW e \in Evidence, StagedSound(inv, e.id, staging[e.id])
  PROVE  \E v \in Verdicts, m \in Opt(StagedPayloads) :
           /\ Adjudicate(c, row, inv, Acc(staging, pre), e)
                = Acc(Put(staging, e.id, m), Append(pre, v))
           /\ PreSound(c, row, inv, e, m, v) /\ StagedSound(inv, e.id, m)
           /\ Opens(v) => staging[e.id] = None
           /\ Grown(staging[e.id], m)
  <1> DEFINE acc == Acc(staging, pre)
             foreign == c \in ForeignRows
             p == inv.entries[e.id]
             q == IF foreign THEN None ELSE row.ctx.applied_fills[e.id]
             s == staging[e.id]
             sided == {e, s, p} \ {None}
             seen == (sided \cup {q}) \ {None}
             merged == WithClaim(WithVenueAndFee(s, e), e)
             fresh == StagedPayload(e, p, q)
             out(m, v) == Acc(Put(staging, e.id, m), Append(pre, v))
             x == Adjudicate(c, row, inv, acc, e)
             Good(m, v) == /\ v \in Verdicts /\ m \in Opt(StagedPayloads)
                           /\ x = out(m, v)
                           /\ PreSound(c, row, inv, e, m, v) /\ StagedSound(inv, e.id, m)
                           /\ Opens(v) => s = None
                           /\ Grown(s, m)
  <1>1. /\ e.id \in FillIds /\ e.qty \in Nat
        /\ p \in Opt(InventoryEntry) /\ s \in Opt(StagedPayloads) /\ q \in Opt(Payload)
    BY DEF Evidence, MarketInventory, RowSound, CtxInv, CtxBase, CtxTyped, Opt
  <1>2. x = IF e.qty = 0 THEN Pushed(acc, IgnoredZero)
            ELSE IF CoreHit(sided, seen) THEN Pushed(acc, Conflict("Core", p))
            ELSE IF ~ foreign /\ OwnerHit(c, p) THEN Pushed(acc, Conflict("Ownership", p))
            ELSE IF \E a, b \in seen : fee_conflict(a, b) THEN Pushed(acc, Conflict("Fee", p))
            ELSE IF s # None
            THEN Pushed(Staged(acc, e.id, merged), Verdict("Refused", "Duplicate", p, None))
            ELSE IF ~ foreign
            THEN Pushed(Staged(acc, e.id, fresh), Verdict("Admitted", "Unchanged", None, None))
            ELSE IF p # None THEN Pushed(acc, Present(p, WithVenueAndFee(p, e)))
            ELSE Pushed(Staged(acc, e.id, fresh),
                        Verdict("Refused", "Ingested", ToEntry(e, None, "RowForeign"), None))
    <2>1. acc.staging[e.id] = s
      BY DEF Acc
    <2> QED BY <2>1 DEF Adjudicate
  <1>3. ASSUME NEW m, NEW v
        PROVE  Pushed(Staged(acc, e.id, m), v) = out(m, v)
    BY StagedIs
  <1>4. ASSUME NEW v
        PROVE  Pushed(acc, v) = out(s, v)
    <2>1. Put(staging, e.id, s) = staging
      BY DEF Put
    <2> QED BY <2>1, PushedIs
  <1>5. Grown(s, s)
    BY DEF Grown
  <1>6. StagedSound(inv, e.id, s)
    OBVIOUS
  <1>7. \A v : \A m : Good(m, v) => v \in Verdicts /\ m \in Opt(StagedPayloads)
    OBVIOUS
  <1> HIDE DEF x, out, acc
  <1>8. SUFFICES \E m, v : Good(m, v)
    BY DEF x, out, acc
  <1>9. None \in Opt(InventoryEntry) /\ None \in Opt(ConflictClass)
    BY DEF Opt
  <1> HIDE DEF p, q, s
  <1>10. CASE e.qty = 0
    <2>1. x = out(s, IgnoredZero)
      BY <1>2, <1>4, <1>10
    <2>2. IgnoredZero \in Verdicts /\ ~ Opens(IgnoredZero)
          /\ PreSound(c, row, inv, e, s, IgnoredZero)
      BY <1>9 DEF IgnoredZero, Verdict, Verdicts, Dispositions, Opens, PreSound
    <2> QED BY <1>1, <1>5, <1>6, <2>1, <2>2 DEF s
  <1>11. ASSUME NEW class \in ConflictClass, x = Pushed(acc, Conflict(class, p))
         PROVE  Good(s, Conflict(class, p))
    <2>1. x = out(s, Conflict(class, p))
      BY <1>4, <1>11
    <2>2. class # None /\ class \in Opt(ConflictClass)
      BY EntryAssumption DEF Opt
    <2>3. Conflict(class, p) \in Verdicts /\ ~ Opens(Conflict(class, p))
          /\ PreSound(c, row, inv, e, s, Conflict(class, p))
      BY <1>1, <2>2 DEF Conflict, Verdict, Verdicts, Dispositions, Opens, PreSound
    <2> QED BY <1>1, <1>5, <1>6, <2>1, <2>3 DEF s
  <1>12. CASE e.qty # 0 /\ CoreHit(sided, seen)
    BY <1>2, <1>11, <1>12 DEF ConflictClass
  <1>13. CASE e.qty # 0 /\ ~ CoreHit(sided, seen)
    <2>1. CASE ~ foreign /\ OwnerHit(c, p)
      BY <1>2, <1>11, <1>13, <2>1 DEF ConflictClass
    <2>2. CASE ~ (~ foreign /\ OwnerHit(c, p)) /\ \E a, b \in seen : fee_conflict(a, b)
      BY <1>2, <1>11, <1>13, <2>2 DEF ConflictClass
    <2>3. CASE ~ (~ foreign /\ OwnerHit(c, p)) /\ ~ \E a, b \in seen : fee_conflict(a, b)
      <3>1. CASE s # None
        <4> DEFINE v == Verdict("Refused", "Duplicate", p, None)
        <4>1. x = out(merged, v)
          BY <1>2, <1>3, <1>13, <2>3, <3>1
        <4>2. s \in StagedPayloads
          BY <1>1, <3>1 DEF Opt
        <4>3. merged \in StagedPayloads /\ Grown(s, merged)
          BY <4>2, StagedUpgrade
        <4> HIDE DEF merged
        <4>4. v \in Verdicts /\ ~ Opens(v) /\ PreSound(c, row, inv, e, merged, v)
          BY <1>1, <1>9 DEF Verdict, Verdicts, Dispositions, Opens, PreSound
        <4>5. StagedSound(inv, e.id, merged)
          BY <1>6, <3>1, <4>3 DEF StagedSound, Grown
        <4> HIDE DEF v
        <4>6. Good(merged, v)
          BY <4>1, <4>3, <4>4, <4>5 DEF Opt
        <4> QED BY <4>6
      <3>2. CASE s = None
        <4>1. ~ CoreHit({e, p} \ {None}, {e, p, q} \ {None})
          <5>1. sided = {e, p} \ {None} /\ seen = {e, p, q} \ {None}
            BY <3>2
          <5> QED BY <1>13, <5>1
        <4>2. /\ fresh \in StagedPayloads /\ fresh # None
              /\ fresh.side = e.side /\ fresh.qty = e.qty /\ fresh.price = e.price
              /\ p = None /\ q = None => fresh.ts = e.ts
              /\ StagedSound(inv, e.id, fresh)
          BY <1>1, <4>1, FreshSound DEF StagedSound, p
        <4> HIDE DEF fresh
        <4>3. Grown(s, fresh) /\ Grown(s, s)
          BY <3>2 DEF Grown
        <4>4. CASE ~ foreign
          <5> DEFINE v == Verdict("Admitted", "Unchanged", None, None)
          <5>1. x = out(fresh, v)
            BY <1>2, <1>3, <1>13, <2>3, <3>2, <4>4
          <5>2. v \in Verdicts
            BY <1>9 DEF Verdict, Verdicts, Dispositions
          <5>3. PreSound(c, row, inv, e, fresh, v)
            BY <2>3, <4>2, <4>4 DEF Verdict, PreSound, OwnerHit, p, q
          <5> HIDE DEF v
          <5>4. Good(fresh, v)
            BY <3>2, <4>2, <4>3, <5>1, <5>2, <5>3 DEF Opt
          <5> QED BY <5>4
        <4>5. CASE foreign /\ p # None
          <5> DEFINE u == WithVenueAndFee(p, e)
                     v == Present(p, u)
          <5>1. x = out(s, v)
            BY <1>2, <1>4, <1>13, <2>3, <3>2, <4>5
          <5>2. p \in InventoryEntry
            BY <1>1, <4>5 DEF Opt
          <5>3. u \in InventoryEntry /\ u.owner = p.owner /\ Raised(p, u)
            BY <5>2, EntryUpgrade DEF Evidence
          <5> HIDE DEF u
          <5>4. v \in Verdicts /\ ~ Opens(v)
            BY <1>9, <5>3 DEF Present, Verdict, Verdicts, Dispositions, Opens, Opt
          <5>5. PreSound(c, row, inv, e, s, v)
            BY <4>5, <5>3 DEF Present, Verdict, PreSound, p
          <5> HIDE DEF v
          <5>6. Good(s, v)
            BY <1>1, <1>6, <4>3, <5>1, <5>4, <5>5
          <5> QED BY <5>6
        <4>6. CASE foreign /\ p = None
          <5> DEFINE n == ToEntry(e, None, "RowForeign")
                     v == Verdict("Refused", "Ingested", n, None)
          <5>1. x = out(fresh, v)
            BY <1>2, <1>3, <1>13, <2>3, <3>2, <4>6
          <5>2. n \in InventoryEntry /\ n.owner = None /\ n.qty = e.qty
            BY DEF ToEntry, InventoryEntry, Evidence, Opt, InventoryProvenance
          <5> HIDE DEF n
          <5>3. v \in Verdicts
            BY <1>9, <5>2 DEF Verdict, Verdicts, Dispositions, Opt
          <5>4. PreSound(c, row, inv, e, fresh, v)
            BY <4>2, <4>6, <5>2 DEF Verdict, PreSound, p
          <5> HIDE DEF v
          <5>5. Good(fresh, v)
            BY <3>2, <4>2, <4>3, <5>1, <5>3, <5>4 DEF Opt
          <5> QED BY <5>5
        <4> QED BY <4>4, <4>5, <4>6
      <3> QED BY <3>1, <3>2
    <2> QED BY <2>1, <2>2, <2>3
  <1> QED BY <1>10, <1>12, <1>13

\* What is staged and judged after some of the evidence of a page.
AccSound(c, row, inv, page, staging, pre) ==
    /\ staging \in [FillIds -> Opt(StagedPayloads)]
    /\ pre \in Seq(Verdicts)
    /\ \A f \in FillIds : StagedSound(inv, f, staging[f])
    /\ \A i \in 1..Len(pre) :
         PreSound(c, row, inv, page[i], staging[page[i].id], pre[i])
    /\ \A i, j \in 1..Len(pre) :
         i # j /\ page[i].id = page[j].id => ~ (Opens(pre[i]) /\ Opens(pre[j]))

\* The accumulator after n evidences of the page.
Adjudicated(c, row, inv, page, acc, n) ==
    \E staging, pre : /\ acc = Acc(staging, pre) /\ Len(pre) = n
                      /\ AccSound(c, row, inv, page, staging, pre)

\* A page has at most two elements.
LEMMA PageLength ==
  ASSUME NEW S, NEW page \in Seq(S), Len(page) <= MaxPage
  PROVE  Len(page) \in {0, 1, 2} /\ DOMAIN page = 1..Len(page)
  <1>1. Len(page) \in Nat /\ DOMAIN page = 1..Len(page)
    OBVIOUS
  <1> DEFINE n == Len(page)
  <1> HIDE DEF n
  <1>2. n \in Nat /\ n <= 2 => n \in {0, 1, 2}
    OBVIOUS
  <1> QED BY <1>1, <1>2 DEF n, MaxPage

\* The next evidence of the page is adjudicated soundly.
LEMMA AdjudicateNext ==
  ASSUME NEW c \in Cids, NEW row, RowSound(row), NEW inv \in MarketInventory,
         NEW page \in Seq(Evidence), NEW acc,
         NEW n \in Nat, Adjudicated(c, row, inv, page, acc, n), n < Len(page)
  PROVE  Adjudicated(c, row, inv, page, Adjudicate(c, row, inv, acc, page[n + 1]), n + 1)
  <1> DEFINE e == page[n + 1]
  <1>0. PICK staging, pre : /\ acc = Acc(staging, pre) /\ Len(pre) = n
                            /\ AccSound(c, row, inv, page, staging, pre)
    BY DEF Adjudicated
  <1>1. /\ e \in Evidence /\ e.id \in FillIds
        /\ staging \in [FillIds -> Opt(StagedPayloads)] /\ pre \in Seq(Verdicts)
        /\ StagedSound(inv, e.id, staging[e.id])
    <2>1. Len(page) \in Nat /\ n + 1 \in 1..Len(page)
      OBVIOUS
    <2>2. e \in Evidence
      BY <2>1
    <2>3. e.id \in FillIds
      BY <2>2 DEF Evidence
    <2> QED BY <1>0, <2>2, <2>3 DEF AccSound
  <1> HIDE DEF e
  <1>2. PICK v \in Verdicts, m \in Opt(StagedPayloads) :
          /\ Adjudicate(c, row, inv, Acc(staging, pre), e)
               = Acc(Put(staging, e.id, m), Append(pre, v))
          /\ PreSound(c, row, inv, e, m, v) /\ StagedSound(inv, e.id, m)
          /\ Opens(v) => staging[e.id] = None
          /\ Grown(staging[e.id], m)
    BY <1>1, AdjudicateOne
  <1> DEFINE st == Put(staging, e.id, m)
             vs == Append(pre, v)
  <1>3. /\ vs \in Seq(Verdicts) /\ Len(vs) = n + 1 /\ vs[n + 1] = v
        /\ \A i \in 1..n : vs[i] = pre[i]
    BY <1>0, <1>1
  <1>4. /\ st \in [FillIds -> Opt(StagedPayloads)] /\ st[e.id] = m
        /\ \A f \in FillIds : f # e.id => st[f] = staging[f]
    BY <1>1 DEF Put
  <1> HIDE DEF st, vs
  <1>5. \A f \in FillIds : StagedSound(inv, f, st[f])
    BY <1>0, <1>2, <1>4 DEF AccSound
  <1>6. \A i \in 1..n : page[i] \in Evidence /\ page[i].id \in FillIds
    <2>1. Len(page) \in Nat /\ \A i \in 1..n : i \in 1..Len(page)
      OBVIOUS
    <2>2. \A i \in 1..n : page[i] \in Evidence
      BY <2>1
    <2> QED BY <2>2 DEF Evidence
  <1>7. ASSUME NEW i \in 1..n
        PROVE  PreSound(c, row, inv, page[i], st[page[i].id], pre[i])
    <2>1. PreSound(c, row, inv, page[i], staging[page[i].id], pre[i])
      BY <1>0 DEF AccSound
    <2>2. CASE page[i].id = e.id
      BY <1>2, <1>4, <2>1, <2>2, PreGrown
    <2>3. CASE page[i].id # e.id
      BY <1>4, <1>6, <2>1, <2>3
    <2> QED BY <2>2, <2>3
  <1>8. \A i \in 1..n + 1 : PreSound(c, row, inv, page[i], st[page[i].id], vs[i])
    <2>1. \A i \in 1..n + 1 : i \in 1..n \/ i = n + 1
      OBVIOUS
    <2> QED BY <1>2, <1>3, <1>4, <1>7, <2>1 DEF e
  <1>9. ASSUME NEW i \in 1..n, page[i].id = e.id, Opens(v)
        PROVE  ~ Opens(pre[i])
    <2>1. PreSound(c, row, inv, page[i], staging[e.id], pre[i])
      BY <1>0, <1>9 DEF AccSound
    <2> QED BY <1>2, <1>9, <2>1 DEF PreSound, Opens
  <1>10. ASSUME NEW i \in 1..n + 1, NEW j \in 1..n + 1, i # j, page[i].id = page[j].id
         PROVE  ~ (Opens(vs[i]) /\ Opens(vs[j]))
    <2>1. CASE i = n + 1
      <3>1. j \in 1..n
        BY <1>10, <2>1
      <3> QED BY <1>3, <1>9, <1>10, <2>1, <3>1 DEF e
    <2>2. CASE j = n + 1
      <3>1. i \in 1..n
        BY <1>10, <2>2
      <3> QED BY <1>3, <1>9, <1>10, <2>2, <3>1 DEF e
    <2>3. CASE i # n + 1 /\ j # n + 1
      <3>1. i \in 1..n /\ j \in 1..n
        BY <2>3
      <3> QED BY <1>0, <1>3, <1>10, <3>1 DEF AccSound
    <2> QED BY <2>1, <2>2, <2>3
  <1>11. AccSound(c, row, inv, page, st, vs)
    BY <1>3, <1>4, <1>5, <1>8, <1>10 DEF AccSound
  <1> QED BY <1>0, <1>2, <1>3, <1>11 DEF Adjudicated, st, vs, e

\* The whole page.
LEMMA AdjudicateAll ==
  ASSUME NEW c \in Cids, NEW row, RowSound(row), NEW inv \in MarketInventory,
         NEW page \in Seq(Evidence), Len(page) <= MaxPage
  PROVE  Adjudicated(c, row, inv, page, AdjudicateBatch(c, row, inv, page), Len(page))
  <1> DEFINE none == [f \in FillIds |-> None]
             start == Acc(none, <<>>)
             one == IF Len(page) >= 1 THEN Adjudicate(c, row, inv, start, page[1]) ELSE start
             two == Adjudicate(c, row, inv, one, page[2])
             After(acc, n) == Adjudicated(c, row, inv, page, acc, n)
  <1>1. After(start, 0)
    <2>1. AccSound(c, row, inv, page, none, <<>>) /\ Len(<<>>) = 0
      BY DEF AccSound, StagedSound, Opt
    <2> QED BY <2>1 DEF Adjudicated
  <1>2. AdjudicateBatch(c, row, inv, page) = IF Len(page) >= 2 THEN two ELSE one
    BY DEF AdjudicateBatch, Acc
  <1>3. Len(page) \in {0, 1, 2}
    BY PageLength
  <1> HIDE DEF start
  <1>4. Len(page) >= 1 => After(one, 1)
    <2>1. Len(page) >= 1 => After(Adjudicate(c, row, inv, start, page[0 + 1]), 0 + 1)
      <3>1. 0 \in Nat /\ (Len(page) >= 1 => 0 < Len(page))
        BY <1>3
      <3> QED BY <1>1, <3>1, AdjudicateNext
    <2> QED BY <2>1
  <1> HIDE DEF one
  <1>5. Len(page) >= 2 => After(two, 2)
    <2>1. Len(page) >= 2 => After(Adjudicate(c, row, inv, one, page[1 + 1]), 1 + 1)
      BY <1>3, <1>4, AdjudicateNext
    <2> QED BY <2>1
  <1>6. Len(page) = 0 => one = start
    BY DEF one
  <1> HIDE DEF two
  <1>7. CASE Len(page) = 0
    <2>1. AdjudicateBatch(c, row, inv, page) = start
      BY <1>2, <1>6, <1>7
    <2> QED BY <1>1, <1>7, <2>1
  <1>8. CASE Len(page) = 1
    <2>1. AdjudicateBatch(c, row, inv, page) = one
      BY <1>2, <1>8
    <2> QED BY <1>4, <1>8, <2>1
  <1>9. CASE Len(page) = 2
    <2>1. AdjudicateBatch(c, row, inv, page) = two
      BY <1>2, <1>9
    <2> QED BY <1>5, <1>9, <2>1
  <1> QED BY <1>3, <1>7, <1>8, <1>9

-----------------------------------------------------------------------------
(* The side check and the core call of a batch                             *)

\* What a verdict promises once the sides were compared.
CheckedSound(c, row, inv, e, m, v) ==
    LET p == inv.entries[e.id] IN
    /\ v.conflict # None <=> v.inventory = "Conflict"
    /\ v.verdict = "Admitted" =>
         /\ c \notin ForeignRows /\ v.inventory = "Unchanged" /\ e.side = side_of[c]
         /\ m # None /\ m.side = e.side /\ m.qty = e.qty /\ m.price = e.price
         /\ p = None /\ row.ctx.applied_fills[e.id] = None => m.ts = e.ts
         /\ p # None => p.owner \in {None, c}
    /\ v.inventory = "Ingested" =>
         /\ p = None /\ m # None
         /\ v.entry \in InventoryEntry /\ v.entry.owner = None /\ v.entry.qty = e.qty
    /\ v.inventory = "Upgraded" =>
         /\ c \in ForeignRows /\ p # None /\ v.entry \in InventoryEntry
         /\ Raised(p, v.entry) /\ v.entry.owner = p.owner

\* The side check keeps what the adjudication promised.
LEMMA SideCheckSound ==
  ASSUME NEW c \in Cids, NEW row, NEW inv \in MarketInventory, NEW acc, NEW e \in Evidence,
         acc.staging[e.id] \in Opt(StagedPayloads), NEW v \in Verdicts,
         PreSound(c, row, inv, e, acc.staging[e.id], v)
  PROVE  LET w == IF c \in ForeignRows THEN v ELSE SideChecked(c, inv, acc, e, v)
         IN /\ w \in Verdicts /\ (Opens(w) => Opens(v))
            /\ CheckedSound(c, row, inv, e, acc.staging[e.id], w)
  <1> DEFINE p == inv.entries[e.id]
             m == acc.staging[e.id]
             Good(w) == /\ w \in Verdicts /\ (Opens(w) => Opens(v))
                        /\ CheckedSound(c, row, inv, e, m, w)
  <1>1. p \in Opt(InventoryEntry) /\ None \in Opt(InventoryEntry) /\ None \in Opt(ConflictClass)
    BY DEF Evidence, MarketInventory, Opt
  <1>2. v.verdict = "Admitted" => ~ (c \in ForeignRows) /\ v.inventory = "Unchanged" /\ m # None
    BY DEF PreSound
  <1>3. CASE c \in ForeignRows \/ v.verdict # "Admitted" \/ e.side = side_of[c]
    <2>1. Good(v)
      BY <1>3 DEF PreSound, CheckedSound
    <2>2. c \notin ForeignRows => SideChecked(c, inv, acc, e, v) = v
      BY <1>2, <1>3 DEF SideChecked
    <2> QED BY <2>1, <2>2
  <1>4. CASE c \notin ForeignRows /\ v.verdict = "Admitted" /\ e.side # side_of[c]
    <2>1. m \in StagedPayloads
      BY <1>2, <1>4 DEF Opt
    <2>2. CASE p # None
      <3> DEFINE w == Verdict("SideMismatch", "Duplicate", p, None)
      <3>1. SideChecked(c, inv, acc, e, v) = w
        BY <1>4, <2>2 DEF SideChecked
      <3>2. Good(w)
        BY <1>1, <1>4 DEF Verdict, Verdicts, Dispositions, Opens, CheckedSound
      <3> QED BY <1>4, <3>1, <3>2
    <2>3. CASE p = None
      <3> DEFINE n == ToEntry(m, None, "Refused")
                 w == Verdict("SideMismatch", "Ingested", n, None)
      <3>1. SideChecked(c, inv, acc, e, v) = w
        BY <1>4, <2>3 DEF SideChecked
      <3>2. n \in InventoryEntry /\ n.owner = None /\ n.qty = m.qty
        BY <2>1 DEF ToEntry, InventoryEntry, StagedPayloads, Opt, InventoryProvenance
      <3>5. m.qty = e.qty
        BY <1>4 DEF PreSound
      <3> HIDE DEF n
      <3>3. w \in Verdicts
        BY <1>1, <3>2 DEF Verdict, Verdicts, Dispositions, Opt
      <3>4. CheckedSound(c, row, inv, e, m, w) /\ Opens(v)
        BY <1>2, <1>4, <2>3, <3>2, <3>5 DEF Verdict, CheckedSound, Opens
      <3> QED BY <1>4, <3>1, <3>3, <3>4
    <2> QED BY <2>2, <2>3
  <1> QED BY <1>3, <1>4

\* The verdicts of a batch, as prepare_execution_batch has them.
Judged(c, inv, acc, page) ==
    [i \in DOMAIN page |-> IF c \in ForeignRows THEN acc.pre[i]
                           ELSE SideChecked(c, inv, acc, page[i], acc.pre[i])]

BatchSound(c, row, inv, page, staging, pre) ==
    /\ staging \in [FillIds -> Opt(StagedPayloads)]
    /\ \A f \in FillIds : StagedSound(inv, f, staging[f])
    /\ pre \in [DOMAIN page -> Verdicts]
    /\ \A i \in DOMAIN page :
         CheckedSound(c, row, inv, page[i], staging[page[i].id], pre[i])
    /\ \A i, j \in DOMAIN page :
         i # j /\ page[i].id = page[j].id => ~ (Opens(pre[i]) /\ Opens(pre[j]))

\* A whole batch is judged soundly.
LEMMA JudgedSound ==
  ASSUME NEW c \in Cids, NEW row, NEW inv \in MarketInventory,
         NEW page \in Seq(Evidence), NEW acc, Adjudicated(c, row, inv, page, acc, Len(page))
  PROVE  BatchSound(c, row, inv, page, acc.staging, Judged(c, inv, acc, page))
  <1> DEFINE D == DOMAIN page
             w(i) == IF c \in ForeignRows THEN acc.pre[i]
                     ELSE SideChecked(c, inv, acc, page[i], acc.pre[i])
             pre == Judged(c, inv, acc, page)
  <1>1. /\ AccSound(c, row, inv, page, acc.staging, acc.pre) /\ D = 1..Len(acc.pre)
    <2>1. PICK staging, vs : /\ acc = Acc(staging, vs) /\ Len(vs) = Len(page)
                             /\ AccSound(c, row, inv, page, staging, vs)
      BY DEF Adjudicated
    <2>2. acc.staging = staging /\ acc.pre = vs
      BY <2>1 DEF Acc
    <2> QED BY <2>1, <2>2
  <1>2. ASSUME NEW i \in D
        PROVE  /\ w(i) \in Verdicts /\ (Opens(w(i)) => Opens(acc.pre[i]))
               /\ CheckedSound(c, row, inv, page[i], acc.staging[page[i].id], w(i))
    <2>1. page[i] \in Evidence /\ acc.pre[i] \in Verdicts
      BY <1>1 DEF AccSound
    <2>2. page[i].id \in FillIds
      BY <2>1 DEF Evidence
    <2>3. /\ acc.staging[page[i].id] \in Opt(StagedPayloads)
          /\ PreSound(c, row, inv, page[i], acc.staging[page[i].id], acc.pre[i])
      BY <1>1, <2>2 DEF AccSound
    <2> QED BY <2>1, <2>3, SideCheckSound
  <1>3. /\ pre \in [D -> Verdicts] /\ \A i \in D : pre[i] = w(i)
    BY <1>2 DEF Judged
  <1> HIDE DEF w, pre
  <1>4. \A i \in D : CheckedSound(c, row, inv, page[i], acc.staging[page[i].id], pre[i])
    BY <1>2, <1>3
  <1>5. \A i, j \in D :
          i # j /\ page[i].id = page[j].id => ~ (Opens(pre[i]) /\ Opens(pre[j]))
    BY <1>1, <1>2, <1>3 DEF AccSound
  <1> QED BY <1>1, <1>3, <1>4, <1>5 DEF BatchSound, AccSound, pre

\* The fills that were admitted, as the core is told of them.
Admitted(page, staging, pre) ==
    {FillOf(page[i].id, staging[page[i].id]) :
       i \in {j \in DOMAIN page : pre[j].verdict = "Admitted"}}

\* They are fills, and the event is rebuilt from them.
LEMMA AdmittedFills ==
  ASSUME NEW c, NEW row, NEW inv, NEW page \in Seq(Evidence), Len(page) <= MaxPage,
         NEW acc, NEW pre, BatchSound(c, row, inv, page, acc.staging, pre)
  PROVE  /\ Admitted(page, acc.staging, pre) \in SUBSET FillRecord
         /\ rebuild_event_with_fills(page, pre, acc) \in Seq(Admitted(page, acc.staging, pre))
  <1> DEFINE P == Admitted(page, acc.staging, pre)
             pick(i) == IF i <= Len(page) /\ pre[i].verdict = "Admitted"
                        THEN <<FillOf(page[i].id, acc.staging[page[i].id])>> ELSE <<>>
  <1>1. ASSUME NEW i \in DOMAIN page, pre[i].verdict = "Admitted"
        PROVE  FillOf(page[i].id, acc.staging[page[i].id]) \in FillRecord
    <2>1. page[i] \in Evidence
      OBVIOUS
    <2>2. page[i].id \in FillIds
      BY <2>1 DEF Evidence
    <2>3. acc.staging[page[i].id] \in StagedPayloads
      BY <1>1, <2>2 DEF BatchSound, CheckedSound, Opt
    <2> QED BY <2>2, <2>3 DEF FillOf, StagedPayloads, FillRecord
  <1>2. P \in SUBSET FillRecord
    BY <1>1 DEF Admitted
  <1>3. ASSUME NEW i \in 1..2
        PROVE  pick(i) \in Seq(P)
    <2>1. CASE i <= Len(page) /\ pre[i].verdict = "Admitted"
      <3>1. i \in DOMAIN page
        BY <2>1, PageLength
      <3>2. FillOf(page[i].id, acc.staging[page[i].id]) \in P
        BY <2>1, <3>1 DEF Admitted
      <3> QED BY <2>1, <3>2, Single
    <2>2. CASE ~ (i <= Len(page) /\ pre[i].verdict = "Admitted")
      <3>1. pick(i) = <<>> /\ \A S : <<>> \in Seq(S)
        BY <2>2
      <3> HIDE DEF pick, P
      <3> QED BY <3>1
    <2> QED BY <2>1, <2>2
  <1>4. pick(1) \in Seq(P) /\ pick(2) \in Seq(P)
    BY <1>3
  <1> HIDE DEF pick, P
  <1>5. rebuild_event_with_fills(page, pre, acc) = pick(1) \o pick(2)
    BY DEF rebuild_event_with_fills, pick
  <1>6. pick(1) \o pick(2) \in Seq(P)
    <2>1. \A S : \A s, t \in Seq(S) : s \o t \in Seq(S)
      OBVIOUS
    <2> QED BY <1>4, <2>1
  <1> QED BY <1>2, <1>5, <1>6 DEF P

\* The core call of a batch.
LEMMA CoreCallSound ==
  ASSUME NEW c, NEW row, RowSound(row), NEW ev \in OrderEvent, NEW pre,
         NEW P \in SUBSET FillRecord, NEW admitted \in Seq(P)
  PROVE  /\ CoreSound(From(row, P), row, CoreCall(c, row, ev, pre, admitted))
         /\ ev.type # "OwnAction" => Unowned(CoreCall(c, row, ev, pre, admitted))
  <1> DEFINE w == NoWork(row.ctx)
             o == CoreCall(c, row, ev, pre, admitted)
  <1>1. CoreSound(From(row, P), row, reject(row.state, w)) /\ Unowned(reject(row.state, w))
    BY RejectSound
  <1>2. ~ is_restart_frozen(row.state)
          => /\ CoreSound(From(row, P), row, halt_with_reason("CrossCheckMismatch", w))
             /\ Unowned(halt_with_reason("CrossCheckMismatch", w))
    <2>1. OutcomeInv(From(row, P), halt_with_reason("CrossCheckMismatch", w))
      BY StartWork, HaltInv DEF HaltReason
    <2> QED BY <2>1, LiveIsSound
  <1>3. (admitted # <<>> \/ ev.type # "Fill")
          => /\ CoreSound(From(row, P), row, apply_event(row, ev, admitted))
             /\ ev.type # "OwnAction" => Unowned(apply_event(row, ev, admitted))
    <2>1. admitted # <<>> => Len(admitted) >= 1
      OBVIOUS
    <2> QED BY <2>1, ApplyEventSound
  <1>4. \/ o = reject(row.state, w)
        \/ ~ is_restart_frozen(row.state) /\ o = halt_with_reason("CrossCheckMismatch", w)
        \/ (admitted # <<>> \/ ev.type # "Fill") /\ o = apply_event(row, ev, admitted)
    BY DEF CoreCall
  <1> QED BY <1>1, <1>2, <1>3, <1>4

-----------------------------------------------------------------------------
(* What a batch brings into the inventory                                  *)

\* An outcome never lowers the entry it finds, and gives it at most to own.
OutSound(own, p, v) ==
    /\ v.conflict \in Opt(ConflictClass) /\ (v.conflict # None <=> v.inventory = "Conflict")
    /\ v.inventory = "Ingested" =>
         p = None /\ v.entry \in InventoryEntry /\ v.entry.owner \in {None, own}
    /\ v.inventory = "Upgraded" =>
         /\ p # None /\ v.entry \in InventoryEntry
         /\ Raised(p, v.entry) /\ v.entry.owner \in {p.owner, own}

\* The entry an outcome leaves where p was.
Left(p, v) == IF v.inventory \in {"Ingested", "Upgraded"} THEN v.entry ELSE p

\* OwnedOnce, of one order and one execution.
Owns(c, fill, entry) ==
    /\ fill # None <=> entry # None /\ entry.owner = c
    /\ fill # None =>
         /\ entry.side = side_of[c]
         /\ entry.qty = fill.qty /\ entry.price = fill.price
         /\ entry.ts = fill.ts
         /\ fill.venue \in {None, entry.venue}
         /\ fill.fee \in {None, entry.fee}

\* The entry of an admitted evidence when the inventory has none.
FreshEntry(m, owner, provenance, e) ==
    [ToEntry(m, owner, provenance) EXCEPT !.ts = e.ts, !.claimed = e.claimed]

\* It is what was staged, at the time and with the claim of the evidence.
LEMMA NewEntry ==
  ASSUME NEW c \in Cids, NEW owner \in {c, None}, NEW provenance \in InventoryProvenance,
         NEW e \in Evidence, NEW m \in StagedPayloads
  PROVE  LET n == FreshEntry(m, owner, provenance, e)
         IN /\ n \in InventoryEntry /\ n # None /\ n.owner = owner /\ n.side = m.side
            /\ n.qty = m.qty /\ n.price = m.price /\ n.ts = e.ts
            /\ n.venue = m.venue /\ n.fee = m.fee
  <1> DEFINE x == ToEntry(m, owner, provenance)
             n == [x EXCEPT !.ts = e.ts, !.claimed = e.claimed]
  <1>1. /\ x \in InventoryEntry /\ x.owner = owner /\ x.side = m.side
        /\ x.qty = m.qty /\ x.price = m.price /\ x.venue = m.venue /\ x.fee = m.fee
    BY DEF ToEntry, InventoryEntry, StagedPayloads, Opt
  <1> HIDE DEF x
  <1>2. n \in InventoryEntry /\ n.ts = e.ts /\ n.owner = x.owner /\ n.side = x.side
        /\ n.qty = x.qty /\ n.price = x.price /\ n.venue = x.venue /\ n.fee = x.fee
    BY <1>1 DEF InventoryEntry, Evidence
  <1> HIDE DEF n
  <1>3. n # None
    BY <1>2, EntryAssumption
  <1> QED BY <1>1, <1>2, <1>3 DEF n, x, FreshEntry

\* The entry of an admitted evidence when the inventory has one.
LEMMA RaisedEntry ==
  ASSUME NEW c \in Cids, NEW owner \in {c, None}, NEW p \in InventoryEntry,
         NEW m \in StagedPayloads
  PROVE  LET u == [WithVenueAndFee(p, m) EXCEPT !.owner = OrElse(@, owner)]
         IN /\ u \in InventoryEntry /\ u # None /\ Raised(p, u)
            /\ u.owner = OrElse(p.owner, owner)
            /\ u.venue = OrElse(p.venue, m.venue) /\ u.fee = OrElse(p.fee, m.fee)
  <1> DEFINE x == WithVenueAndFee(p, m)
             u == [x EXCEPT !.owner = OrElse(x.owner, owner)]
  <1>1. /\ x \in InventoryEntry /\ x.owner = p.owner /\ Raised(p, x)
        /\ x.venue = OrElse(p.venue, m.venue) /\ x.fee = OrElse(p.fee, m.fee)
    <2>1. x \in InventoryEntry /\ x.owner = p.owner /\ Raised(p, x)
      BY EntryUpgrade DEF StagedPayloads
    <2>2. x.venue = OrElse(p.venue, m.venue) /\ x.fee = OrElse(p.fee, m.fee)
      BY DEF WithVenueAndFee, InventoryEntry
    <2> QED BY <2>1, <2>2
  <1> HIDE DEF x
  <1>2. OrElse(x.owner, owner) \in Opt(Cids)
    BY <1>1 DEF InventoryEntry, OrElse, Opt
  <1>3. /\ u \in InventoryEntry /\ u.owner = OrElse(x.owner, owner)
        /\ u.venue = x.venue /\ u.fee = x.fee /\ u.side = x.side
        /\ u.qty = x.qty /\ u.price = x.price /\ u.ts = x.ts
    BY <1>1, <1>2 DEF InventoryEntry
  <1> HIDE DEF u
  <1>4. u # None /\ Raised(p, u)
    BY <1>1, <1>3, EntryAssumption DEF Raised, OrElse
  <1> QED BY <1>1, <1>3, <1>4 DEF u, x

\* What an admitted evidence leaves in the inventory.
LEMMA AdmittedLeft ==
  ASSUME NEW c \in Cids, NEW row, NEW o, NEW inv \in MarketInventory, NEW acc,
         NEW e \in Evidence, acc.staging[e.id] \in StagedPayloads
  PROVE  LET p == inv.entries[e.id]
             m == acc.staging[e.id]
             in_after == o.work.ctx.applied_fills[e.id] # None
             owner == IF in_after THEN c ELSE None
             v == AdmittedOutcome(c, row, o, inv, acc, e)
             n == Left(p, v)
         IN /\ OutSound(c, p, v)
            /\ n \in InventoryEntry /\ n # None
            /\ p = None => /\ n.owner = owner /\ n.side = m.side
                           /\ n.qty = m.qty /\ n.price = m.price /\ n.ts = e.ts
                           /\ n.venue = m.venue /\ n.fee = m.fee
            /\ p # None => /\ Raised(p, n) /\ n.owner = OrElse(p.owner, owner)
                           /\ n.venue = OrElse(p.venue, m.venue)
                           /\ n.fee = OrElse(p.fee, m.fee)
  <1> DEFINE p == inv.entries[e.id]
             m == acc.staging[e.id]
             in_before == row.ctx.applied_fills[e.id] # None
             in_after == o.work.ctx.applied_fills[e.id] # None
             owner == IF in_after THEN c ELSE None
             provenance == IF ~ in_after THEN "NotAttributedByOrder"
                           ELSE IF in_before THEN "Recovered"
                           ELSE IF o.outcome = "Halt" /\ o.state.reason = "PostTerminalFill"
                           THEN "LateBooked" ELSE "Attributed"
             fresh == FreshEntry(m, owner, provenance, e)
             raised == [WithVenueAndFee(p, m) EXCEPT !.owner = OrElse(@, owner)]
             v == AdmittedOutcome(c, row, o, inv, acc, e)
  <1>1. v = IF p = None THEN Verdict("Admitted", "Ingested", fresh, None)
            ELSE Present(p, raised)
    BY DEF AdmittedOutcome, FreshEntry
  <1>2. p \in Opt(InventoryEntry) /\ None \in Opt(ConflictClass)
    BY DEF Evidence, MarketInventory, Opt
  <1>3. owner \in {c, None} /\ provenance \in InventoryProvenance /\ c # None
    BY RowAssumption DEF InventoryProvenance
  <1> HIDE DEF owner, provenance, v
  <1>4. CASE p = None
    <2>1. /\ fresh \in InventoryEntry /\ fresh # None /\ fresh.owner = owner
          /\ fresh.side = m.side /\ fresh.qty = m.qty /\ fresh.price = m.price
          /\ fresh.ts = e.ts /\ fresh.venue = m.venue /\ fresh.fee = m.fee
      BY <1>3, NewEntry
    <2> HIDE DEF fresh
    <2>2. v.inventory = "Ingested" /\ v.entry = fresh /\ v.conflict = None
      BY <1>1, <1>4 DEF Verdict
    <2>3. Left(p, v) = fresh /\ OutSound(c, p, v)
      BY <1>2, <1>3, <1>4, <2>1, <2>2 DEF Left, OutSound
    <2> HIDE DEF p, m
    <2> QED BY <1>4, <2>1, <2>3 DEF v, p, m, owner
  <1>5. CASE p # None
    <2>1. p \in InventoryEntry
      BY <1>2, <1>5 DEF Opt
    <2>2. /\ raised \in InventoryEntry /\ raised # None /\ Raised(p, raised)
          /\ raised.owner = OrElse(p.owner, owner)
          /\ raised.venue = OrElse(p.venue, m.venue) /\ raised.fee = OrElse(p.fee, m.fee)
      BY <1>3, <2>1, RaisedEntry
    <2> HIDE DEF raised
    <2>3. v.inventory \in {"Upgraded", "Duplicate"} /\ v.entry = raised /\ v.conflict = None
          /\ (v.inventory = "Duplicate" => raised = p)
      BY <1>1, <1>5 DEF Present, Verdict
    <2>4. Left(p, v) = raised
      BY <2>3 DEF Left
    <2>5. raised.owner \in {p.owner, c}
      BY <1>3, <2>2 DEF OrElse
    <2>6. OutSound(c, p, v)
      BY <1>2, <1>5, <2>2, <2>3, <2>5 DEF OutSound
    <2> HIDE DEF p, m
    <2> QED BY <1>5, <2>2, <2>4, <2>6 DEF v, p, m, owner
  <1> QED BY <1>4, <1>5

\* The fill of a row after a core call that was told of the fills T of its id.
Booked(before, T, after) ==
    LET told == ({before} \ {None}) \cup T
    IN /\ Kept(before, after)
       /\ after # None =>
            /\ \E y \in told : after.qty = y.qty /\ after.price = y.price /\ after.ts = y.ts
            /\ \E y \in told : after.venue = y.venue
            /\ \E y \in told : after.fee = y.fee

\* An admitted evidence: the row has it exactly when its entry is the row's.
LEMMA AdmittedOwns ==
  ASSUME NEW c \in Cids, NEW e \in Evidence, NEW p \in Opt(InventoryEntry),
         NEW m \in StagedPayloads, NEW x, NEW y, NEW T \in SUBSET {FillOf(e.id, m)},
         m.side = side_of[c], p = None /\ x = None => m.ts = e.ts,
         p # None =>
           /\ p.owner \in {None, c}
           /\ m.side = p.side /\ m.qty = p.qty /\ m.price = p.price /\ m.ts = p.ts
           /\ p.venue # None => m.venue = p.venue
           /\ p.fee # None => m.fee = p.fee,
         Owns(c, x, p), Booked(x, T, y), NEW n, n # None,
         p = None => /\ n.owner = (IF y # None THEN c ELSE None) /\ n.side = m.side
                     /\ n.qty = m.qty /\ n.price = m.price /\ n.ts = e.ts
                     /\ n.venue = m.venue /\ n.fee = m.fee,
         p # None => /\ Raised(p, n) /\ n.owner = OrElse(p.owner, IF y # None THEN c ELSE None)
                     /\ n.venue = OrElse(p.venue, m.venue)
                     /\ n.fee = OrElse(p.fee, m.fee)
  PROVE  Owns(c, y, n)
  <1> DEFINE z == FillOf(e.id, m)
             told == ({x} \ {None}) \cup T
  <1>1. /\ z.qty = m.qty /\ z.price = m.price /\ z.fee = m.fee /\ z.venue = m.venue
        /\ z.ts = m.ts
    BY DEF FillOf
  <1>2. c # None
    BY RowAssumption
  <1>3. \A u \in told : u = z \/ (u = x /\ x # None)
    OBVIOUS
  <1>4. x # None => y # None
    BY DEF Booked, Kept
  <1>5. y # None =>
          /\ \E u \in told : y.qty = u.qty /\ y.price = u.price /\ y.ts = u.ts
          /\ \E u \in told : y.venue = u.venue
          /\ \E u \in told : y.fee = u.fee
    BY DEF Booked
  <1> HIDE DEF z, told
  <1>6. CASE p = None
    <2>1. x = None
      BY <1>6 DEF Owns
    <2>2. y # None => /\ y.qty = m.qty /\ y.price = m.price /\ y.ts = m.ts
                      /\ y.venue = m.venue /\ y.fee = m.fee
      BY <1>1, <1>3, <1>5, <2>1
    <2> QED BY <1>2, <1>6, <2>1, <2>2 DEF Owns
  <1>7. CASE p # None
    <2>1. y # None => y.qty = p.qty /\ y.price = p.price /\ y.ts = p.ts
      BY <1>1, <1>3, <1>5, <1>7 DEF Owns
    <2>2. y # None => y.venue \in {None, n.venue}
      <3>1. \A u \in told : u.venue \in {None, n.venue}
        <4>1. m.venue \in {None, n.venue}
          BY <1>7 DEF OrElse
        <4>2. x # None => x.venue \in {None, p.venue}
          BY <1>7 DEF Owns
        <4>3. p.venue \in {None, n.venue}
          BY <1>7 DEF OrElse
        <4> QED BY <1>1, <1>3, <4>1, <4>2, <4>3
      <3> QED BY <1>5, <3>1
    <2>3. y # None => y.fee \in {None, n.fee}
      <3>1. \A u \in told : u.fee \in {None, n.fee}
        <4>1. m.fee \in {None, n.fee}
          BY <1>7 DEF OrElse
        <4>2. x # None => x.fee \in {None, p.fee}
          BY <1>7 DEF Owns
        <4>3. p.fee \in {None, n.fee}
          BY <1>7 DEF OrElse
        <4> QED BY <1>1, <1>3, <4>1, <4>2, <4>3
      <3> QED BY <1>5, <3>1
    <2>4. y # None <=> n.owner = c
      <3>1. p.owner = c => y # None
        BY <1>4, <1>7 DEF Owns
      <3> QED BY <1>2, <1>7, <3>1 DEF OrElse
    <2> QED BY <1>7, <2>1, <2>2, <2>3, <2>4 DEF Owns, Raised
  <1> QED BY <1>6, <1>7

\* A fill the core was told nothing of is as it was.
LEMMA UntoldFill ==
  ASSUME NEW x, NEW y, Booked(x, {}, y)
  PROVE  /\ x = None <=> y = None
         /\ x # None => /\ y.qty = x.qty /\ y.price = x.price /\ y.ts = x.ts
                        /\ y.venue = x.venue /\ y.fee = x.fee
  BY DEF Booked, Kept

\* An entry that is only raised, or given to nobody, stays the row's or not.
LEMMA RaisedOwns ==
  ASSUME NEW d \in Cids, NEW p, NEW x, NEW y, NEW n,
         x = None <=> y = None,
         x # None => /\ y.qty = x.qty /\ y.price = x.price /\ y.ts = x.ts
                     /\ y.venue = x.venue /\ y.fee = x.fee,
         Owns(d, x, p), p # None => n # None /\ Raised(p, n),
         n # None => IF p = None THEN n.owner # d ELSE n.owner = p.owner \/ n.owner # d
  PROVE  Owns(d, y, n)
  <1>1. d # None
    BY RowAssumption
  <1>2. CASE x = None
    <2>1. y = None /\ ~ (p # None /\ p.owner = d)
      BY <1>2 DEF Owns
    <2>2. ~ (n # None /\ n.owner = d)
      BY <2>1
    <2> QED BY <2>1, <2>2 DEF Owns
  <1>3. CASE x # None
    BY <1>1, <1>3 DEF Owns, Raised
  <1> QED BY <1>2, <1>3

-----------------------------------------------------------------------------
(* The inventory part of a transaction                                     *)

\* The outcomes of a page: each sound, no execution ingested twice.
PageSound(own, inv, page, out) ==
    /\ DOMAIN out = DOMAIN page
    /\ \A i \in DOMAIN page : OutSound(own, inv.entries[page[i].id], out[i])
    /\ \A i, j \in DOMAIN page :
         i # j /\ page[i].id = page[j].id
         => ~ (out[i].inventory = "Ingested" /\ out[j].inventory = "Ingested")
    /\ \A i \in DOMAIN page :
         out[i].inventory = "Ingested" => out[i].entry.qty = page[i].qty

\* The outcomes of a batch, as CompleteBatch has them.
OutOf(c, row, o, inv, acc, e, v) ==
    IF v.verdict = "Admitted" THEN AdmittedOutcome(c, row, o, inv, acc, e)
    ELSE FinalOutcome(c, acc, e, v)
BatchOut(c, row, o, inv, acc, page, pre) ==
    [i \in DOMAIN page |-> OutOf(c, row, o, inv, acc, page[i], pre[i])]

\* What a batch does with one evidence.
LEMMA OutcomeSound ==
  ASSUME NEW c \in Cids, NEW row, NEW inv \in MarketInventory, NEW acc, NEW o,
         NEW e \in Evidence, acc.staging[e.id] \in Opt(StagedPayloads),
         NEW v \in Verdicts, CheckedSound(c, row, inv, e, acc.staging[e.id], v)
  PROVE  /\ OutSound(c, inv.entries[e.id], OutOf(c, row, o, inv, acc, e, v))
         /\ OutOf(c, row, o, inv, acc, e, v).inventory = "Ingested"
              => Opens(v) /\ OutOf(c, row, o, inv, acc, e, v).entry.qty = e.qty
         /\ v.verdict # "Admitted" =>
              /\ OutOf(c, row, o, inv, acc, e, v).inventory = v.inventory
              /\ v.inventory = "Ingested"
                   => OutOf(c, row, o, inv, acc, e, v).entry.owner = None
              /\ v.inventory = "Upgraded"
                   => OutOf(c, row, o, inv, acc, e, v).entry.owner = inv.entries[e.id].owner
  <1> DEFINE p == inv.entries[e.id]
             m == acc.staging[e.id]
  <1> USE DEF OutOf
  <1>1. CASE v.verdict = "Admitted"
    <2>1. m \in StagedPayloads
      BY <1>1 DEF CheckedSound, Opt
    <2> DEFINE u == AdmittedOutcome(c, row, o, inv, acc, e)
    <2>2. OutSound(c, p, u) /\ (p = None => Left(p, u).qty = m.qty) /\ m.qty = e.qty
      BY <1>1, <2>1, AdmittedLeft DEF CheckedSound
    <2> HIDE DEF u
    <2>3. u.inventory = "Ingested" => p = None /\ u.entry.qty = e.qty
      BY <2>2 DEF OutSound, Left
    <2> QED BY <1>1, <2>2, <2>3 DEF Opens, u
  <1>2. CASE v.verdict # "Admitted" /\ ~ (c \in ForeignRows /\ v.inventory = "Ingested")
    <2>1. FinalOutcome(c, acc, e, v) = v
      BY <1>2 DEF FinalOutcome
    <2>2. /\ OutSound(c, p, v)
          /\ v.inventory = "Ingested" => Opens(v) /\ v.entry.qty = e.qty
      BY DEF OutSound, CheckedSound, Verdicts, Opens
    <2> QED BY <1>2, <2>1, <2>2 DEF CheckedSound
  <1>3. CASE v.verdict # "Admitted" /\ c \in ForeignRows /\ v.inventory = "Ingested"
    <2> DEFINE n == WithClaim(WithVenueAndFee(v.entry, m), m)
               u == FinalOutcome(c, acc, e, v)
    <2>1. u = [v EXCEPT !.entry = n]
      BY <1>3 DEF FinalOutcome
    <2>2. /\ p = None /\ m \in StagedPayloads
          /\ v.entry \in InventoryEntry /\ v.entry.owner = None /\ v.entry.qty = e.qty
      BY <1>3 DEF CheckedSound, Opt
    <2>3. n \in InventoryEntry /\ n.owner = None /\ n.qty = e.qty
      BY <2>2, EntryUpgrade DEF StagedPayloads, Raised
    <2> HIDE DEF n
    <2>4. u.entry = n /\ u.inventory = "Ingested" /\ u.conflict = v.conflict
      BY <1>3, <2>1 DEF Verdicts
    <2> HIDE DEF u
    <2>5. OutSound(c, p, u)
      BY <1>3, <2>2, <2>3, <2>4 DEF OutSound, CheckedSound, Verdicts
    <2> QED BY <1>3, <2>3, <2>4, <2>5 DEF u, Opens
  <1> QED BY <1>1, <1>2, <1>3

\* What a batch does with a page.
LEMMA BatchOutSound ==
  ASSUME NEW c \in Cids, NEW row, NEW inv \in MarketInventory, NEW acc, NEW o,
         NEW page \in Seq(Evidence), NEW pre,
         BatchSound(c, row, inv, page, acc.staging, pre)
  PROVE  PageSound(c, inv, page, BatchOut(c, row, o, inv, acc, page, pre))
  <1> DEFINE out == BatchOut(c, row, o, inv, acc, page, pre)
  <1>1. ASSUME NEW i \in DOMAIN page
        PROVE  /\ OutSound(c, inv.entries[page[i].id], out[i])
               /\ out[i].inventory = "Ingested" => Opens(pre[i]) /\ out[i].entry.qty = page[i].qty
    <2>1. page[i] \in Evidence /\ pre[i] \in Verdicts
      BY DEF BatchSound
    <2>2. page[i].id \in FillIds
      BY <2>1 DEF Evidence
    <2>3. /\ acc.staging[page[i].id] \in Opt(StagedPayloads)
          /\ CheckedSound(c, row, inv, page[i], acc.staging[page[i].id], pre[i])
      BY <2>2 DEF BatchSound
    <2>4. out[i] = OutOf(c, row, o, inv, acc, page[i], pre[i])
      BY DEF BatchOut
    <2> QED BY <2>1, <2>3, <2>4, OutcomeSound
  <1>2. DOMAIN out = DOMAIN page
    BY DEF BatchOut
  <1> HIDE DEF out
  <1> QED BY <1>1, <1>2 DEF PageSound, BatchSound, out

\* The last of a few indices is one of them.
LEMMA LastIn ==
  ASSUME NEW S \in SUBSET {1, 2}, S # {}
  PROVE  Last(S) \in S
  <1>1. \E i \in S : \A j \in S : j <= i
    <2>1. CASE 2 \in S
      BY <2>1
    <2>2. CASE 2 \notin S
      <3>1. S = {1}
        BY <2>2
      <3> QED BY <3>1
    <2> QED BY <2>1, <2>2
  <1> QED BY <1>1 DEF Last

\* A plan takes what one of the outcomes of the id says.
EntriesOfPage(page, out) ==
    \A f \in FillIds :
      LET n == PlannedEntries(page, out)[f]
      IN /\ \A i \in DOMAIN page :
              page[i].id = f /\ out[i].inventory \in {"Ingested", "Upgraded"} => n # None
         /\ n # None => \E i \in DOMAIN page :
                          /\ page[i].id = f /\ out[i].inventory \in {"Ingested", "Upgraded"}
                          /\ n = out[i].entry
ConflictsOfPage(page, out) ==
    \A f \in FillIds :
      LET x == PlannedConflicts(page, out)[f]
      IN /\ \A i \in DOMAIN page : page[i].id = f /\ out[i].conflict # None => x # None
         /\ x # None => \E i \in DOMAIN page :
                          /\ page[i].id = f /\ out[i].conflict # None
                          /\ x = out[i].conflict

\* So they do.
LEMMA PlansOfPage ==
  ASSUME NEW own, NEW inv, NEW page \in Seq(Evidence), Len(page) <= MaxPage,
         NEW out, PageSound(own, inv, page, out)
  PROVE  EntriesOfPage(page, out) /\ ConflictsOfPage(page, out)
  <1>1. DOMAIN page \in SUBSET {1, 2} /\ DOMAIN out = DOMAIN page
    BY PageLength DEF PageSound
  <1>2. \A i \in DOMAIN page :
          out[i].inventory \in {"Ingested", "Upgraded"} => out[i].entry # None
    BY EntryAssumption DEF PageSound, OutSound
  <1>3. ASSUME NEW f \in FillIds
        PROVE  LET E == {i \in DOMAIN page : page[i].id = f
                                       /\ out[i].inventory \in {"Ingested", "Upgraded"}}
                   C == {i \in DOMAIN page : page[i].id = f /\ out[i].conflict # None}
               IN /\ PlannedEntries(page, out)[f]
                       = IF E = {} THEN None ELSE out[Last(E)].entry
                  /\ PlannedConflicts(page, out)[f]
                       = IF C = {} THEN None ELSE out[Last(C)].conflict
                  /\ E # {} => Last(E) \in E
                  /\ C # {} => Last(C) \in C
    BY <1>1, LastIn DEF PlannedEntries, PlannedConflicts
  <1>4. EntriesOfPage(page, out)
    <2> SUFFICES ASSUME NEW f \in FillIds
                 PROVE  LET n == PlannedEntries(page, out)[f]
                        IN /\ \A i \in DOMAIN page :
                                page[i].id = f /\ out[i].inventory \in {"Ingested", "Upgraded"}
                                  => n # None
                           /\ n # None =>
                                \E i \in DOMAIN page :
                                  /\ page[i].id = f
                                  /\ out[i].inventory \in {"Ingested", "Upgraded"}
                                  /\ n = out[i].entry
      BY DEF EntriesOfPage
    <2> DEFINE E == {i \in DOMAIN page : page[i].id = f
                                         /\ out[i].inventory \in {"Ingested", "Upgraded"}}
               n == PlannedEntries(page, out)[f]
    <2>1. n = (IF E = {} THEN None ELSE out[Last(E)].entry) /\ (E # {} => Last(E) \in E)
      BY <1>3
    <2> HIDE DEF n
    <2> QED BY <1>2, <2>1 DEF n
  <1>5. ConflictsOfPage(page, out)
    <2> SUFFICES ASSUME NEW f \in FillIds
                 PROVE  LET x == PlannedConflicts(page, out)[f]
                        IN /\ \A i \in DOMAIN page :
                                page[i].id = f /\ out[i].conflict # None => x # None
                           /\ x # None => \E i \in DOMAIN page :
                                            /\ page[i].id = f /\ out[i].conflict # None
                                            /\ x = out[i].conflict
      BY DEF ConflictsOfPage
    <2> DEFINE C == {i \in DOMAIN page : page[i].id = f /\ out[i].conflict # None}
               x == PlannedConflicts(page, out)[f]
    <2>1. x = (IF C = {} THEN None ELSE out[Last(C)].conflict) /\ (C # {} => Last(C) \in C)
      BY <1>3
    <2> HIDE DEF x
    <2> QED BY <2>1 DEF x
  <1> QED BY <1>4, <1>5

\* A plan never lowers an entry, and gives it at most to own.
PlanSound(own, p, n) ==
    n # None =>
      /\ n \in InventoryEntry
      /\ IF p = None THEN n.owner \in {None, own}
         ELSE Raised(p, n) /\ n.owner \in {p.owner, own}

\* The plans of a page of sound outcomes.
LEMMA PlansSound ==
  ASSUME NEW own, NEW inv, NEW page \in Seq(Evidence), Len(page) <= MaxPage,
         NEW out, PageSound(own, inv, page, out)
  PROVE  /\ PlannedEntries(page, out) \in [FillIds -> Opt(InventoryEntry)]
         /\ PlannedConflicts(page, out) \in [FillIds -> Opt(ConflictClass)]
         /\ \A f \in FillIds : PlanSound(own, inv.entries[f], PlannedEntries(page, out)[f])
  <1> DEFINE E == PlannedEntries(page, out)
             C == PlannedConflicts(page, out)
  <1>0. EntriesOfPage(page, out) /\ ConflictsOfPage(page, out)
    BY PlansOfPage
  <1>1. \A i \in DOMAIN page : OutSound(own, inv.entries[page[i].id], out[i])
    BY DEF PageSound
  <1>2. ASSUME NEW f \in FillIds
        PROVE  E[f] \in Opt(InventoryEntry) /\ PlanSound(own, inv.entries[f], E[f])
    <2>1. CASE E[f] = None
      BY <2>1 DEF PlanSound, Opt
    <2>2. CASE E[f] # None
      <3>1. PICK i \in DOMAIN page :
              /\ page[i].id = f /\ out[i].inventory \in {"Ingested", "Upgraded"}
              /\ E[f] = out[i].entry
        BY <1>0, <2>2 DEF EntriesOfPage
      <3> HIDE DEF E
      <3>2. OutSound(own, inv.entries[f], out[i])
        BY <1>1, <3>1
      <3> QED BY <3>1, <3>2 DEF OutSound, PlanSound, Opt
    <2> QED BY <2>1, <2>2
  <1>3. ASSUME NEW f \in FillIds
        PROVE  C[f] \in Opt(ConflictClass)
    <2>1. CASE C[f] = None
      BY <2>1 DEF Opt
    <2>2. CASE C[f] # None
      <3>1. PICK i \in DOMAIN page : C[f] = out[i].conflict
        BY <1>0, <2>2 DEF ConflictsOfPage
      <3> HIDE DEF C
      <3> QED BY <1>1, <3>1 DEF OutSound
    <2> QED BY <2>1, <2>2
  <1>4. E = [f \in FillIds |-> E[f]] /\ C = [f \in FillIds |-> C[f]]
    BY DEF PlannedEntries, PlannedConflicts
  <1> HIDE DEF E, C
  <1> QED BY <1>2, <1>3, <1>4 DEF E, C

\* The ids of some of the indices of a page are at most as many.
LEMMA IdsOfIndices ==
  ASSUME NEW page \in Seq(Evidence), NEW I \in SUBSET DOMAIN page
  PROVE  /\ IsFiniteSet(I) /\ IsFiniteSet({page[i].id : i \in I})
         /\ Cardinality({page[i].id : i \in I}) <= Cardinality(I)
         /\ Cardinality(I) \in Nat /\ Cardinality({page[i].id : i \in I}) \in Nat
  <1>1. IsFiniteSet(I)
    <2>1. DOMAIN page = 1..Len(page) /\ Len(page) \in Nat
      OBVIOUS
    <2>2. IsFiniteSet(1..Len(page))
      BY <2>1, FS_Interval
    <2> QED BY <2>1, <2>2, FS_Subset
  <1> DEFINE R == {page[i].id : i \in I}
             h == [i \in I |-> page[i].id]
  <1>2. h \in Surjection(I, R)
    BY DEF Surjection
  <1>3. IsFiniteSet(R) /\ Cardinality(R) <= Cardinality(I)
    BY <1>1, <1>2, FS_Surjection
  <1> QED BY <1>1, <1>3, FS_CardinalityType

\* What a transaction changes of the inventory is counted, once for each id, and
\* is not more than its page; without a change nothing is counted.
LEMMA PlanCount ==
  ASSUME NEW own, NEW inv, NEW page \in Seq(Evidence), Len(page) <= MaxPage,
         NEW out, PageSound(own, inv, page, out)
  PROVE  LET E == Planned(PlannedEntries(page, out))
             C == Planned(PlannedConflicts(page, out))
             n == Cardinality(E) + Cardinality(C)
         IN /\ n \in Nat /\ n <= Len(page) /\ (n = 0 => E = {} /\ C = {})
            /\ IsFiniteSet(E)
  <1> DEFINE D == DOMAIN page
             IE == {i \in D : out[i].inventory \in {"Ingested", "Upgraded"}}
             IC == {i \in D : out[i].conflict # None}
             E == {page[i].id : i \in IE}
             C == {page[i].id : i \in IC}
  <1>0. EntriesOfPage(page, out) /\ ConflictsOfPage(page, out)
    BY PlansOfPage
  <1>1. ASSUME NEW i \in D
        PROVE  page[i].id \in FillIds
    <2>1. page[i] \in Evidence
      OBVIOUS
    <2> QED BY <2>1 DEF Evidence
  <1>2. Planned(PlannedEntries(page, out)) = E
    <2>1. ASSUME NEW f \in FillIds
          PROVE  PlannedEntries(page, out)[f] # None <=> f \in E
      BY <1>0 DEF EntriesOfPage
    <2> HIDE DEF E
    <2>2. E \subseteq FillIds
      BY <1>1 DEF E
    <2> QED BY <2>1, <2>2 DEF Planned
  <1>3. Planned(PlannedConflicts(page, out)) = C
    <2>1. ASSUME NEW f \in FillIds
          PROVE  PlannedConflicts(page, out)[f] # None <=> f \in C
      BY <1>0 DEF ConflictsOfPage
    <2> HIDE DEF C
    <2>2. C \subseteq FillIds
      BY <1>1 DEF C
    <2> QED BY <2>1, <2>2 DEF Planned
  <1>4. /\ IsFiniteSet(IE) /\ IsFiniteSet(E) /\ Cardinality(E) <= Cardinality(IE)
        /\ Cardinality(IE) \in Nat /\ Cardinality(E) \in Nat
    <2>1. IE \in SUBSET DOMAIN page
      OBVIOUS
    <2> HIDE DEF IE
    <2> QED BY <2>1, IdsOfIndices
  <1>5. /\ IsFiniteSet(IC) /\ IsFiniteSet(C) /\ Cardinality(C) <= Cardinality(IC)
        /\ Cardinality(IC) \in Nat /\ Cardinality(C) \in Nat
    <2>1. IC \in SUBSET DOMAIN page
      OBVIOUS
    <2> HIDE DEF IC
    <2> QED BY <2>1, IdsOfIndices
  <1>6. IE \cap IC = {}
    BY DEF PageSound, OutSound
  <1>7. Cardinality(IE) + Cardinality(IC) <= Len(page)
    <2>1. Cardinality(IE \cup IC) = Cardinality(IE) + Cardinality(IC)
      <3>1. Cardinality(IE \cap IC) = 0
        BY <1>6, FS_EmptySet
      <3>2. Cardinality(IE \cup IC)
              = Cardinality(IE) + Cardinality(IC) - Cardinality(IE \cap IC)
        BY <1>4, <1>5, FS_Union
      <3> QED BY <1>4, <1>5, <3>1, <3>2
    <2>2. D = 1..Len(page) /\ Len(page) \in Nat
      OBVIOUS
    <2>3. IsFiniteSet(D) /\ Cardinality(D) = Len(page)
      BY <2>2, FS_Interval
    <2>4. IE \cup IC \subseteq D
      OBVIOUS
    <2>5. Cardinality(IE \cup IC) <= Cardinality(D)
      BY <2>3, <2>4, FS_Subset
    <2> QED BY <2>1, <2>3, <2>5
  <1>8. (Cardinality(E) = 0 => E = {}) /\ (Cardinality(C) = 0 => C = {})
    BY <1>4, <1>5, FS_EmptySet
  <1> HIDE DEF D, IE, IC, E, C
  <1>9. Len(page) \in Nat
    OBVIOUS
  <1> QED BY <1>2, <1>3, <1>4, <1>5, <1>7, <1>8, <1>9

\* What a core call books of one execution.
LEMMA CoreBooks ==
  ASSUME NEW row, NEW P, NEW o, CoreSound(From(row, P), row, o), NEW f \in FillIds
  PROVE  Booked(row.ctx.applied_fills[f], {z \in P : z.id = f}, o.work.ctx.applied_fills[f])
  <1>1. From(row, P).ctx = row.ctx /\ From(row, P).fills = P
    BY DEF From
  <1>2. Grows(row.ctx, o.work.ctx) /\ Sourced(From(row, P), o.work.ctx)
    BY <1>1 DEF CoreSound, Since
  <1>3. Told(From(row, P), f)
          = ({row.ctx.applied_fills[f]} \ {None}) \cup {z \in P : z.id = f}
    BY <1>1 DEF Told
  <1> QED BY <1>2, <1>3 DEF Grows, Sourced, Booked

\* After a batch the row has an execution exactly when the inventory says so.
LEMMA BatchOwns ==
  ASSUME NEW c \in Cids, NEW row, RowSound(row), NEW inv \in MarketInventory, NEW acc,
         NEW page \in Seq(Evidence), Len(page) <= MaxPage, NEW pre,
         BatchSound(c, row, inv, page, acc.staging, pre),
         NEW o, CoreSound(From(row, Admitted(page, acc.staging, pre)), row, o),
         NEW f \in FillIds, Owns(c, row.ctx.applied_fills[f], inv.entries[f])
  PROVE  Owns(c, o.work.ctx.applied_fills[f],
              OrElse(PlannedEntries(page, BatchOut(c, row, o, inv, acc, page, pre))[f],
                     inv.entries[f]))
  <1> DEFINE P == Admitted(page, acc.staging, pre)
             out == BatchOut(c, row, o, inv, acc, page, pre)
             T == {z \in P : z.id = f}
             x == row.ctx.applied_fills[f]
             y == o.work.ctx.applied_fills[f]
             p == inv.entries[f]
             m == acc.staging[f]
             plan == PlannedEntries(page, out)[f]
             n == OrElse(plan, p)
  <1>1. Booked(x, T, y)
    BY CoreBooks
  <1>2. PageSound(c, inv, page, out)
    BY BatchOutSound
  <1>3. EntriesOfPage(page, out) /\ PlanSound(c, p, plan)
    BY <1>2, PlansOfPage, PlansSound
  <1>4. p \in Opt(InventoryEntry) /\ m \in Opt(StagedPayloads) /\ StagedSound(inv, f, m)
    BY DEF MarketInventory, BatchSound
  <1>5. ASSUME NEW i \in DOMAIN page, page[i].id = f
        PROVE  /\ page[i] \in Evidence /\ pre[i] \in Verdicts
               /\ CheckedSound(c, row, inv, page[i], m, pre[i])
               /\ out[i] = OutOf(c, row, o, inv, acc, page[i], pre[i])
               /\ pre[i].verdict # "Admitted" =>
                    /\ out[i].inventory = pre[i].inventory
                    /\ pre[i].inventory = "Ingested" => out[i].entry.owner = None
                    /\ pre[i].inventory = "Upgraded" => out[i].entry.owner = p.owner
               /\ out[i].inventory = "Ingested" => Opens(pre[i])
    <2>1. page[i] \in Evidence /\ pre[i] \in Verdicts
      BY DEF BatchSound
    <2>2. CheckedSound(c, row, inv, page[i], m, pre[i])
      BY <1>5 DEF BatchSound
    <2>3. out[i] = OutOf(c, row, o, inv, acc, page[i], pre[i])
      BY DEF BatchOut
    <2> HIDE DEF out
    <2> QED BY <1>4, <1>5, <2>1, <2>2, <2>3, OutcomeSound
  <1>6. c # None
    BY RowAssumption
  <1>7. CASE \E i \in DOMAIN page : page[i].id = f /\ pre[i].verdict = "Admitted"
    <2>1. PICK i \in DOMAIN page : page[i].id = f /\ pre[i].verdict = "Admitted"
      BY <1>7
    <2> DEFINE e == page[i]
    <2>2. /\ e \in Evidence /\ e.id = f /\ CheckedSound(c, row, inv, e, m, pre[i])
          /\ out[i] = AdmittedOutcome(c, row, o, inv, acc, e)
      BY <1>5, <2>1 DEF OutOf
    <2>3. /\ c \notin ForeignRows /\ e.side = side_of[c]
          /\ m # None /\ m.side = e.side /\ m.qty = e.qty /\ m.price = e.price
          /\ p = None /\ x = None => m.ts = e.ts
          /\ p # None => p.owner \in {None, c}
      BY <2>1, <2>2 DEF CheckedSound
    <2>4. m \in StagedPayloads
      BY <1>4, <2>3 DEF Opt
    <2>5. T \in SUBSET {FillOf(f, m)}
      <3>1. \A j \in DOMAIN page : FillOf(page[j].id, acc.staging[page[j].id]).id = page[j].id
        BY DEF FillOf
      <3> QED BY <3>1 DEF Admitted
    <2>6. ASSUME NEW j \in DOMAIN page, j # i, page[j].id = f
          PROVE  out[j].inventory \notin {"Ingested", "Upgraded"}
      <3>1. ~ Opens(pre[j])
        BY <2>1, <2>6 DEF BatchSound, Opens
      <3>2. CheckedSound(c, row, inv, page[j], m, pre[j])
        BY <1>5, <2>6
      <3>3. out[j].inventory = pre[j].inventory
        BY <1>5, <2>6, <3>1 DEF Opens
      <3>4. pre[j].inventory # "Upgraded"
        BY <2>3, <3>2 DEF CheckedSound
      <3> QED BY <3>1, <3>3, <3>4 DEF Opens
    <2>7. n = Left(p, out[i])
      <3>1. CASE out[i].inventory \in {"Ingested", "Upgraded"}
        <4>1. plan # None /\ plan = out[i].entry
          BY <1>3, <2>1, <2>6, <3>1 DEF EntriesOfPage
        <4> QED BY <3>1, <4>1 DEF OrElse, Left
      <3>2. CASE out[i].inventory \notin {"Ingested", "Upgraded"}
        <4>1. plan = None
          BY <1>3, <2>1, <2>6, <3>2 DEF EntriesOfPage
        <4> QED BY <3>2, <4>1 DEF OrElse, Left
      <3> QED BY <3>1, <3>2
    <2> DEFINE owner == IF y # None THEN c ELSE None
    <2>8. /\ n # None
          /\ p = None => /\ n.owner = owner /\ n.side = m.side
                         /\ n.qty = m.qty /\ n.price = m.price /\ n.ts = e.ts
                         /\ n.venue = m.venue /\ n.fee = m.fee
          /\ p # None => /\ Raised(p, n) /\ n.owner = OrElse(p.owner, owner)
                         /\ n.venue = OrElse(p.venue, m.venue)
                         /\ n.fee = OrElse(p.fee, m.fee)
      <3> HIDE DEF n, out, e
      <3> QED BY <2>2, <2>4, <2>7, AdmittedLeft
    <2>9. p # None => /\ p.owner \in {None, c}
                      /\ m.side = p.side /\ m.qty = p.qty /\ m.price = p.price /\ m.ts = p.ts
                      /\ p.venue # None => m.venue = p.venue
                      /\ p.fee # None => m.fee = p.fee
      BY <1>4, <2>3 DEF StagedSound
    <2>10. T \in SUBSET {FillOf(e.id, m)}
      BY <2>2, <2>5
    <2> HIDE DEF n, out, e, T, m, p, x, y, P
    <2>11. m.side = side_of[c]
      BY <2>3
    <2>12. Owns(c, x, p)
      BY DEF x, p
    <2>13. Owns(c, y, n)
      BY <1>1, <1>4, <2>2, <2>3, <2>4, <2>8, <2>9, <2>10, <2>11, <2>12, AdmittedOwns
    <2> QED BY <2>13 DEF y, n, p, out
  <1>8. CASE ~ \E i \in DOMAIN page : page[i].id = f /\ pre[i].verdict = "Admitted"
    <2>1. T = {}
      <3>1. \A j \in DOMAIN page : FillOf(page[j].id, acc.staging[page[j].id]).id = page[j].id
        BY DEF FillOf
      <3> QED BY <1>8, <3>1 DEF Admitted
    <2>2. /\ x = None <=> y = None
          /\ x # None => /\ y.qty = x.qty /\ y.price = x.price /\ y.ts = x.ts
                         /\ y.venue = x.venue /\ y.fee = x.fee
      <3> HIDE DEF T, x, y
      <3> QED BY <1>1, <2>1, UntoldFill
    <2>3. plan # None =>
            \E i \in DOMAIN page :
              /\ page[i].id = f /\ pre[i].verdict # "Admitted"
              /\ pre[i].inventory \in {"Ingested", "Upgraded"}
              /\ plan = out[i].entry /\ plan.owner = IF pre[i].inventory = "Ingested"
                                                     THEN None ELSE p.owner
      BY <1>3, <1>5, <1>8 DEF EntriesOfPage
    <2>4. plan # None => plan.owner = IF p = None THEN None ELSE p.owner
      BY <1>5, <2>3 DEF CheckedSound
    <2>5. /\ p # None => n # None /\ Raised(p, n)
          /\ n # None => IF p = None THEN n.owner # c ELSE n.owner = p.owner \/ n.owner # c
      <3>1. CASE plan = None
        BY <3>1 DEF OrElse, Raised
      <3>2. CASE plan # None
        BY <1>3, <1>6, <2>4, <3>2 DEF OrElse, PlanSound
      <3> QED BY <3>1, <3>2
    <2> HIDE DEF n, p, x, y
    <2>6. Owns(c, x, p)
      BY DEF x, p
    <2>7. Owns(c, y, n)
      BY <2>2, <2>5, <2>6, RaisedOwns
    <2> QED BY <2>7 DEF y, n, p
  <1> QED BY <1>7, <1>8

-----------------------------------------------------------------------------
(* A transaction                                                           *)

\* An input of the shell, see ShellAssumption.
ValidInput(i) ==
    /\ i.kind \in {"order", "norow", "batch"} /\ i.event \in OrderEvent
    /\ i.page \in Seq(Evidence) /\ Len(i.page) <= MaxPage
    /\ i.kind # "norow" => i.cid \in Cids
    /\ i.kind = "norow" \/ (i.kind = "batch" /\ i.event.type = "Fill") => Len(i.page) = 1
    /\ i.kind = "order" => i.page = <<>> /\ i.event.type # "Fill"

\* The order an input may give an execution to.
Beneficiary(input) == IF input.kind = "norow" THEN None ELSE input.cid

\* What the order part of a record tells the registry, as CoreTells says it.
OrderTells(row, o) ==
    LET marks == Marks(o.core)
        ends == \E r \in marks : r.rec = "OrderTerminal"
    IN /\ IsLog(o.core) /\ o.halted \in BOOLEAN
       /\ {r \in marks : r.rec = "VenueBoundCid"} = BindMarks(row.ctx, o.row.ctx)
       /\ ends \/ o.halted => Ended(o.row.state)
       /\ Ended(o.row.state) =>
            \/ Ended(row.state) /\ o.row.ctx.venue_order_id = row.ctx.venue_order_id
            \/ o.halted \/ ends
       /\ row.ctx.venue_order_id # None =>
            /\ o.row.ctx.venue_order_id = row.ctx.venue_order_id
            /\ Ended(row.state) => Ended(o.row.state)
       /\ o.event # "OwnAction" => \A r \in marks : r.rec # "OwnActionCid"

\* The record says of the inventory what the transaction changes; what it
\* ingests is new, once each.
RecordSound(t, inv, r) ==
    LET x == r.executions
        ingests == {i \in DOMAIN x : x[i].inventory = "Ingested"}
    IN /\ DOMAIN x = DOMAIN t.input.page /\ Len(x) = Len(t.input.page)
       /\ \A i \in DOMAIN x : x[i].id = t.input.page[i].id
       /\ t.changed => OrderTells(t.row, r.order)
       /\ r.order.cid = t.input.cid /\ r.order.changed = t.changed /\ r.order.row = t.after
       /\ PlannedEntries(x, x) = t.entries /\ PlannedConflicts(x, x) = t.conflicts
       /\ \A i \in ingests : x[i].id \in FillIds /\ inv.entries[x[i].id] = None
                             /\ t.entries[x[i].id] # None
       /\ \A i, j \in ingests : i # j => x[i].id # x[j].id
       /\ \A f \in FillIds : t.entries[f] # None /\ inv.entries[f] = None
                               => \E i \in ingests : x[i].id = f

\* What every transaction promises.
TransactionSound(t, input, row, inv) ==
    /\ t.input = input /\ t.row = row /\ t.generation = inv.generation
    /\ t.changed \in BOOLEAN
    /\ t.changed => /\ input.kind # "norow"
                    /\ RowSound(t.after) /\ t.after.seq = row.seq + 1
    /\ t.entries \in [FillIds -> Opt(InventoryEntry)]
    /\ t.conflicts \in [FillIds -> Opt(ConflictClass)]
    /\ \A f \in FillIds : PlanSound(Beneficiary(input), inv.entries[f], t.entries[f])
    /\ \A f \in FillIds : t.entries[f] # None /\ inv.entries[f] = None
         => \E i \in DOMAIN input.page : t.entries[f].qty = input.page[i].qty
    /\ LET n == Cardinality(Planned(t.entries)) + Cardinality(Planned(t.conflicts))
       IN /\ n \in Nat /\ n <= Len(input.page)
          /\ n = 0 => Planned(t.entries) = {} /\ Planned(t.conflicts) = {}
    /\ IsFiniteSet(Planned(t.entries))
    /\ t.record # None => RecordSound(t, inv, t.record)

\* The outcomes as the record carries them.
Executions(page, out) == [i \in DOMAIN out |-> Outcome(page[i], out[i])]

RecordsPage(page, out, x) ==
    /\ DOMAIN x = DOMAIN page /\ Len(x) = Len(page)
    /\ \A i \in DOMAIN page : x[i].id = page[i].id /\ x[i].inventory = out[i].inventory
    /\ PlannedEntries(x, x) = PlannedEntries(page, out)
    /\ PlannedConflicts(x, x) = PlannedConflicts(page, out)

\* They plan the same.
LEMMA RecordedPlans ==
  ASSUME NEW own, NEW inv, NEW page \in Seq(Evidence), Len(page) <= MaxPage,
         NEW out, PageSound(own, inv, page, out)
  PROVE  RecordsPage(page, out, Executions(page, out))
  <1> DEFINE x == Executions(page, out)
             E(f) == {i \in DOMAIN out : page[i].id = f
                                         /\ out[i].inventory \in {"Ingested", "Upgraded"}}
             C(f) == {i \in DOMAIN out : page[i].id = f /\ out[i].conflict # None}
  <1>1. DOMAIN page \in SUBSET {1, 2} /\ DOMAIN out = DOMAIN page
    BY PageLength DEF PageSound
  <1>2. /\ DOMAIN x = DOMAIN out
        /\ \A i \in DOMAIN out : /\ x[i].id = page[i].id /\ x[i].inventory = out[i].inventory
                                 /\ x[i].entry = out[i].entry
                                 /\ x[i].conflict = out[i].conflict
    BY DEF Outcome, Executions
  <1>5. Len(x) = Len(page)
    <2> DEFINE R == {x[i] : i \in DOMAIN out}
               n == Len(page)
    <2>1. n \in Nat /\ DOMAIN out = 1..n
      BY <1>1
    <2>2. x \in [1..n -> R]
      BY <1>2, <2>1 DEF Executions
    <2> HIDE DEF x, R, n
    <2>3. x \in Seq(R) /\ DOMAIN x = 1..n
      BY <2>1, <2>2, SeqDef
    <2>4. Len(x) \in Nat /\ DOMAIN x = 1..Len(x)
      BY <2>3
    <2> QED BY <2>1, <2>3, <2>4 DEF n
  <1> HIDE DEF x
  <1>3. PlannedEntries(x, x) = PlannedEntries(page, out)
    <2>1. ASSUME NEW f \in FillIds
          PROVE  PlannedEntries(x, x)[f] = PlannedEntries(page, out)[f]
      <3>1. {i \in DOMAIN x : x[i].id = f /\ x[i].inventory \in {"Ingested", "Upgraded"}} = E(f)
        BY <1>2
      <3>2. PlannedEntries(x, x)[f] = IF E(f) = {} THEN None ELSE x[Last(E(f))].entry
        BY <3>1 DEF PlannedEntries
      <3>3. PlannedEntries(page, out)[f] = IF E(f) = {} THEN None ELSE out[Last(E(f))].entry
        BY DEF PlannedEntries
      <3>4. E(f) # {} => Last(E(f)) \in DOMAIN out
        BY <1>1, LastIn
      <3> QED BY <1>2, <3>2, <3>3, <3>4
    <2> QED BY <2>1 DEF PlannedEntries
  <1>4. PlannedConflicts(x, x) = PlannedConflicts(page, out)
    <2>1. ASSUME NEW f \in FillIds
          PROVE  PlannedConflicts(x, x)[f] = PlannedConflicts(page, out)[f]
      <3>1. {i \in DOMAIN x : x[i].id = f /\ x[i].conflict # None} = C(f)
        BY <1>2
      <3>2. PlannedConflicts(x, x)[f] = IF C(f) = {} THEN None ELSE x[Last(C(f))].conflict
        BY <3>1 DEF PlannedConflicts
      <3>3. PlannedConflicts(page, out)[f]
              = IF C(f) = {} THEN None ELSE out[Last(C(f))].conflict
        BY DEF PlannedConflicts
      <3>4. C(f) # {} => Last(C(f)) \in DOMAIN out
        BY <1>1, LastIn
      <3> QED BY <1>2, <3>2, <3>3, <3>4
    <2> QED BY <2>1 DEF PlannedConflicts
  <1> QED BY <1>1, <1>2, <1>3, <1>4, <1>5 DEF x, RecordsPage

\* A transaction made of sound outcomes and a sound core call is sound.
LEMMA TransactionIsSound ==
  ASSUME NEW input, ValidInput(input), NEW inv \in MarketInventory, NEW row, NEW core,
         NEW out, PageSound(Beneficiary(input), inv, input.page, out),
         input.kind # "norow" => RowSound(row) /\ \E g : CoreSound(g, row, core),
         input.kind # "norow" /\ input.event.type # "OwnAction" => Unowned(core)
  PROVE  TransactionSound(Transaction(input, row, core, inv, input.page, out),
                          input, row, inv)
  <1> DEFINE page == input.page
             own == Beneficiary(input)
             t == Transaction(input, row, core, inv, page, out)
             x == Executions(page, out)
             E == PlannedEntries(page, out)
             C == PlannedConflicts(page, out)
             changed == input.kind # "norow" /\ OrderChanged(row, core)
             after == IF changed THEN RowAfter(row, core) ELSE None
             order == [cid |-> input.cid, changed |-> changed, row |-> after,
                       event |-> input.event.type,
                       core |-> IF changed THEN core.work.log ELSE <<>>,
                       halted |-> changed /\ core.outcome = "Halt"]
  <1>1. page \in Seq(Evidence) /\ Len(page) <= MaxPage
    BY DEF ValidInput
  <1>2. /\ t.input = input /\ t.row = row /\ t.generation = inv.generation
        /\ t.changed = changed /\ t.after = after /\ t.entries = E /\ t.conflicts = C
        /\ t.record \in {None, [order |-> order, executions |-> x]}
    BY DEF Transaction, Executions
  <1>3. changed => RowSound(after) /\ after.seq = row.seq + 1
    <2> SUFFICES ASSUME changed
                 PROVE  RowSound(RowAfter(row, core)) /\ RowAfter(row, core).seq = row.seq + 1
      OBVIOUS
    <2>1. RowSound(row) /\ CtxInv(core.work.ctx) /\ StateInv(core.state, core.work.ctx)
      BY DEF CoreSound
    <2>2. /\ RowAfter(row, core).state = core.state /\ RowAfter(row, core).ctx = core.work.ctx
          /\ RowAfter(row, core).seq = row.seq + 1
      BY DEF RowAfter, Row
    <2> HIDE DEF changed
    <2> QED BY <2>1, <2>2 DEF RowSound, RowAfter
  <1>4. /\ order.cid = input.cid /\ order.changed = changed /\ order.row = after
    OBVIOUS
  <1>13. changed => OrderTells(row, order)
    <2> SUFFICES ASSUME changed
                 PROVE  OrderTells(row, order)
      OBVIOUS
    <2>1. /\ order.core = core.work.log /\ order.halted = (core.outcome = "Halt")
          /\ order.row.state = core.state /\ order.row.ctx = core.work.ctx
      BY DEF RowAfter, Row
    <2>2. CoreTells(row, core)
      BY DEF CoreSound
    <2>3. order.event # "OwnAction" => Unowned(core)
      OBVIOUS
    <2> HIDE DEF order, changed, after
    <2> QED BY <2>1, <2>2, <2>3 DEF CoreTells, OrderTells, Ended, Unowned
  <1> HIDE DEF after, order, t
  <1>5. changed \in BOOLEAN /\ (changed => input.kind # "norow")
    OBVIOUS
  <1> HIDE DEF changed
  <1>6. /\ E \in [FillIds -> Opt(InventoryEntry)] /\ C \in [FillIds -> Opt(ConflictClass)]
        /\ \A f \in FillIds : PlanSound(own, inv.entries[f], E[f])
    BY <1>1, PlansSound
  <1>7. LET n == Cardinality(Planned(E)) + Cardinality(Planned(C))
        IN /\ n \in Nat /\ n <= Len(page)
           /\ n = 0 => Planned(E) = {} /\ Planned(C) = {}
           /\ IsFiniteSet(Planned(E))
    BY <1>1, PlanCount
  <1>8. /\ DOMAIN x = DOMAIN page /\ Len(x) = Len(page)
        /\ \A i \in DOMAIN page : x[i].id = page[i].id /\ x[i].inventory = out[i].inventory
        /\ PlannedEntries(x, x) = E /\ PlannedConflicts(x, x) = C
    <2>1. RecordsPage(page, out, x)
      BY <1>1, RecordedPlans
    <2> HIDE DEF x
    <2> QED BY <2>1 DEF RecordsPage
  <1>9. EntriesOfPage(page, out)
    BY <1>1, PlansOfPage
  <1> HIDE DEF x
  <1>10. t.record # None => RecordSound(t, inv, t.record)
    <2> SUFFICES ASSUME t.record # None
                 PROVE  RecordSound(t, inv, t.record)
      OBVIOUS
    <2> DEFINE ingests == {i \in DOMAIN x : x[i].inventory = "Ingested"}
    <2>1. t.record.order = order /\ t.record.executions = x
      BY <1>2
    <2>2. ASSUME NEW i \in ingests
          PROVE  x[i].id \in FillIds /\ inv.entries[x[i].id] = None /\ E[x[i].id] # None
      <3>1. i \in DOMAIN page /\ out[i].inventory = "Ingested" /\ x[i].id = page[i].id
        BY <1>8
      <3>2. page[i] \in Evidence
        BY <1>1, <3>1
      <3>3. page[i].id \in FillIds
        BY <3>2 DEF Evidence
      <3>4. inv.entries[page[i].id] = None
        BY <3>1 DEF PageSound, OutSound
      <3> HIDE DEF E
      <3>5. E[page[i].id] # None
        BY <1>9, <3>1, <3>3 DEF EntriesOfPage, E
      <3> QED BY <3>1, <3>3, <3>4, <3>5
    <2>3. ASSUME NEW i \in ingests, NEW j \in ingests, i # j
          PROVE  x[i].id # x[j].id
      BY <1>8, <2>3 DEF PageSound
    <2>4. ASSUME NEW f \in FillIds, E[f] # None, inv.entries[f] = None
          PROVE  \E i \in ingests : x[i].id = f
      <3>1. PICK i \in DOMAIN page :
              page[i].id = f /\ out[i].inventory \in {"Ingested", "Upgraded"}
        BY <1>9, <2>4 DEF EntriesOfPage
      <3>2. out[i].inventory # "Upgraded"
        BY <2>4, <3>1 DEF PageSound, OutSound
      <3> QED BY <1>8, <3>1, <3>2
    <2> HIDE DEF ingests, E, C
    <2>5. t.entries = E /\ t.conflicts = C
      BY <1>2
    <2>6. /\ t.changed => OrderTells(t.row, t.record.order)
          /\ DOMAIN x = DOMAIN t.input.page /\ Len(x) = Len(t.input.page)
          /\ \A i \in DOMAIN x : x[i].id = t.input.page[i].id
      BY <1>2, <1>8, <1>13, <2>1
    <2> QED BY <1>2, <1>4, <1>8, <2>1, <2>2, <2>3, <2>4, <2>5, <2>6 DEF RecordSound, ingests
  <1>14. ASSUME NEW f \in FillIds, E[f] # None, inv.entries[f] = None
         PROVE  \E i \in DOMAIN page : E[f].qty = page[i].qty
    <2>1. PICK i \in DOMAIN page :
            /\ page[i].id = f /\ out[i].inventory \in {"Ingested", "Upgraded"}
            /\ E[f] = out[i].entry
      BY <1>9, <1>14 DEF EntriesOfPage
    <2>2. out[i].inventory = "Ingested"
      BY <1>14, <2>1 DEF PageSound, OutSound
    <2> QED BY <2>1, <2>2 DEF PageSound
  <1> HIDE DEF E, C, page, own
  <1>11. Beneficiary(input) = own /\ input.page = page
    BY DEF own, page
  <1>12. TransactionSound(t, input, row, inv)
    BY <1>2, <1>3, <1>5, <1>6, <1>7, <1>10, <1>11, <1>14 DEF TransactionSound
  <1> QED BY <1>12 DEF t, page

-----------------------------------------------------------------------------
(* What prepare returns                                                    *)

\* Prepared, of one row.
PreparedFrom(input, row, inv) ==
    CASE input.kind = "order" -> prepare_order_event(input, row, inv)
      [] input.kind = "norow" -> prepare_execution_norow(input, inv)
      [] input.kind = "batch" -> prepare_execution_batch(input, row, inv)
RowFor(input, rows) == IF input.kind = "norow" THEN None ELSE rows[input.cid]

\* Only the row the input names is read.
LEMMA PreparedOfRow ==
  ASSUME NEW input, ValidInput(input), NEW rows, NEW inv
  PROVE  Prepared(input, rows, inv) = PreparedFrom(input, RowFor(input, rows), inv)
  BY DEF Prepared, PreparedFrom, RowFor, ValidInput

\* The row after a transaction.
After(t, row) == IF t.changed THEN t.after ELSE row

\* It has the context the core left.
LEMMA ContextAfter ==
  ASSUME NEW input, input.kind # "norow", NEW row, NEW core, NEW g, CoreSound(g, row, core),
         NEW inv, NEW page, NEW out
  PROVE  After(Transaction(input, row, core, inv, page, out), row).ctx = core.work.ctx
  <1> DEFINE t == Transaction(input, row, core, inv, page, out)
  <1>1. /\ t.changed <=> OrderChanged(row, core)
        /\ t.changed => t.after = RowAfter(row, core)
    BY DEF Transaction
  <1>2. CASE OrderChanged(row, core)
    <2>1. t.changed /\ t.after.ctx = core.work.ctx
      BY <1>1, <1>2 DEF RowAfter, Row
    <2> QED BY <2>1 DEF After
  <1>3. CASE ~ OrderChanged(row, core)
    <2>1. core.work.ctx = row.ctx
      BY <1>3 DEF OrderChanged, CoreSound
    <2> QED BY <1>1, <1>3, <2>1 DEF After
  <1> QED BY <1>2, <1>3

\* The transaction keeps the books of the row and the inventory in agreement.
KeepsOwned(t, c, row, inv) ==
    \A f \in FillIds :
      Owns(c, row.ctx.applied_fills[f], inv.entries[f])
        => Owns(c, After(t, row).ctx.applied_fills[f], OrElse(t.entries[f], inv.entries[f]))

\* An order event: no execution, so nothing of the inventory.
LEMMA OrderPrepared ==
  ASSUME NEW input, ValidInput(input), input.kind = "order", NEW row, RowSound(row),
         NEW inv \in MarketInventory
  PROVE  /\ TransactionSound(prepare_order_event(input, row, inv), input, row, inv)
         /\ KeepsOwned(prepare_order_event(input, row, inv), input.cid, row, inv)
  <1> DEFINE core == apply_event(row, input.event, <<>>)
             t == Transaction(input, row, core, inv, input.page, <<>>)
  <1>1. /\ input.event \in OrderEvent /\ input.page = <<>> /\ input.event.type # "Fill"
        /\ input.cid \in Cids
    BY DEF ValidInput
  <1>2. prepare_order_event(input, row, inv) = t
    BY <1>1 DEF prepare_order_event
  <1>3. CoreSound(From(row, {}), row, core)
        /\ (input.event.type # "OwnAction" => Unowned(core))
    <2>1. {} \in SUBSET FillRecord /\ <<>> \in Seq({})
      OBVIOUS
    <2> QED BY <1>1, <2>1, ApplyEventSound
  <1> HIDE DEF core
  <1>4. PageSound(Beneficiary(input), inv, input.page, <<>>)
    BY <1>1 DEF PageSound
  <1>5. TransactionSound(t, input, row, inv)
    BY <1>3, <1>4, TransactionIsSound
  <1>6. After(t, row).ctx = core.work.ctx
    BY <1>3, ContextAfter
  <1>7. ASSUME NEW f \in FillIds
        PROVE  t.entries[f] = None
    BY <1>1 DEF Transaction, PlannedEntries
  <1> HIDE DEF t
  <1>8. ASSUME NEW f \in FillIds, Owns(input.cid, row.ctx.applied_fills[f], inv.entries[f])
        PROVE  Owns(input.cid, After(t, row).ctx.applied_fills[f],
                    OrElse(t.entries[f], inv.entries[f]))
    <2> DEFINE x == row.ctx.applied_fills[f]
               y == core.work.ctx.applied_fills[f]
               p == inv.entries[f]
    <2>1. Booked(x, {}, y)
      <3>1. {z \in {} : z.id = f} = {}
        OBVIOUS
      <3> QED BY <1>3, <3>1, CoreBooks
    <2>2. Raised(p, p)
      BY DEF Raised
    <2>3. Owns(input.cid, x, p)
      BY <1>8
    <2> HIDE DEF x, y, p
    <2>4. /\ x = None <=> y = None
          /\ x # None => /\ y.qty = x.qty /\ y.price = x.price /\ y.ts = x.ts
                         /\ y.venue = x.venue /\ y.fee = x.fee
      BY <2>1, UntoldFill
    <2>5. Owns(input.cid, y, p)
      BY <1>1, <2>2, <2>3, <2>4, RaisedOwns
    <2>6. OrElse(t.entries[f], p) = p
      BY <1>7 DEF OrElse
    <2> QED BY <1>6, <2>5, <2>6 DEF y, p
  <1> QED BY <1>2, <1>5, <1>8 DEF KeepsOwned

\* Evidence without a row.
LEMMA NoRowPrepared ==
  ASSUME NEW input, ValidInput(input), input.kind = "norow", NEW inv \in MarketInventory
  PROVE  TransactionSound(prepare_execution_norow(input, inv), input, None, inv)
  <1> DEFINE e == input.page[1]
             p == inv.entries[e.id]
             n == ToEntry(e, None, "NoRow")
             u == WithClaim(WithVenueAndFee(p, e), e)
             v == IF e.qty = 0 THEN IgnoredZero
                  ELSE IF p = None THEN Verdict("NoRow", "Ingested", n, None)
                  ELSE IF CoreHit({e, p}, {e, p}) THEN Conflict("Core", p)
                  ELSE IF fee_conflict(e, p) THEN Conflict("Fee", p)
                  ELSE Present(p, u)
  <1>1. /\ input.page \in Seq(Evidence) /\ Len(input.page) = 1
    BY DEF ValidInput
  <1>2. DOMAIN input.page = {1} /\ e \in Evidence
    <2>1. DOMAIN input.page = 1..1
      BY <1>1
    <2> QED BY <1>1, <2>1
  <1>3. p \in Opt(InventoryEntry)
    BY <1>2 DEF Evidence, MarketInventory
  <1>4. prepare_execution_norow(input, inv)
          = Transaction(input, None, None, inv, input.page, <<v>>)
    BY DEF prepare_execution_norow
  <1>5. n \in InventoryEntry /\ n.owner = None /\ n.qty = e.qty
    BY <1>2 DEF ToEntry, InventoryEntry, Evidence, Opt, InventoryProvenance
  <1>6. p # None => u \in InventoryEntry /\ u.owner = p.owner /\ Raised(p, u)
    BY <1>2, <1>3, EntryUpgrade DEF Evidence, Opt
  <1> HIDE DEF n, u
  <1>10. v.inventory = "Ingested" => v.entry.qty = e.qty
    BY <1>5 DEF IgnoredZero, Conflict, Present, Verdict
  <1>7. OutSound(None, p, v)
    <2>1. None \in Opt(ConflictClass) /\ \A k \in {"Core", "Fee"} :
            k \in Opt(ConflictClass) /\ k # None
      BY EntryAssumption DEF Opt, ConflictClass
    <2>2. OutSound(None, p, IgnoredZero)
      BY <2>1 DEF OutSound, IgnoredZero, Verdict
    <2>3. p = None => OutSound(None, p, Verdict("NoRow", "Ingested", n, None))
      BY <1>5, <2>1 DEF OutSound, Verdict
    <2>4. \A k \in {"Core", "Fee"} : OutSound(None, p, Conflict(k, p))
      BY <2>1 DEF OutSound, Conflict, Verdict
    <2>5. p # None => OutSound(None, p, Present(p, u))
      BY <1>6, <2>1 DEF OutSound, Present, Verdict
    <2> QED BY <2>2, <2>3, <2>4, <2>5
  <1> HIDE DEF v
  <1>8. PageSound(None, inv, input.page, <<v>>)
    <2>1. DOMAIN <<v>> = {1} /\ <<v>>[1] = v
      OBVIOUS
    <2> QED BY <1>2, <1>7, <1>10, <2>1 DEF PageSound
  <1>9. Beneficiary(input) = None
    BY DEF Beneficiary
  <1> QED BY <1>4, <1>8, <1>9, TransactionIsSound

\* A batch of evidence for a row.
LEMMA BatchPrepared ==
  ASSUME NEW input, ValidInput(input), input.kind = "batch", NEW row, RowSound(row),
         NEW inv \in MarketInventory
  PROVE  /\ TransactionSound(prepare_execution_batch(input, row, inv), input, row, inv)
         /\ KeepsOwned(prepare_execution_batch(input, row, inv), input.cid, row, inv)
  <1> DEFINE c == input.cid
             page == input.page
             acc == AdjudicateBatch(c, row, inv, page)
             pre == Judged(c, inv, acc, page)
             fills == rebuild_event_with_fills(page, pre, acc)
             core == CoreCall(c, row, input.event, pre, fills)
             P == Admitted(page, acc.staging, pre)
             out == BatchOut(c, row, core, inv, acc, page, pre)
             t == Transaction(input, row, core, inv, page, out)
  <1>1. /\ c \in Cids /\ page \in Seq(Evidence) /\ Len(page) <= MaxPage
        /\ input.event \in OrderEvent
    BY DEF ValidInput
  <1>2. prepare_execution_batch(input, row, inv) = t
    BY DEF prepare_execution_batch, CompleteBatch, Judged, BatchOut, OutOf
  <1>3. Adjudicated(c, row, inv, page, acc, Len(page))
    BY <1>1, AdjudicateAll
  <1> HIDE DEF acc
  <1>4. BatchSound(c, row, inv, page, acc.staging, pre)
    BY <1>1, <1>3, JudgedSound
  <1> HIDE DEF pre
  <1>5. P \in SUBSET FillRecord /\ fills \in Seq(P)
    BY <1>1, <1>4, AdmittedFills
  <1> HIDE DEF fills, P
  <1>6. CoreSound(From(row, P), row, core)
        /\ (input.event.type # "OwnAction" => Unowned(core))
    BY <1>1, <1>5, CoreCallSound
  <1> HIDE DEF core
  <1>7. PageSound(c, inv, page, out)
    BY <1>1, <1>4, BatchOutSound
  <1>8. Beneficiary(input) = c
    BY DEF Beneficiary
  <1>9. ASSUME NEW f \in FillIds, Owns(c, row.ctx.applied_fills[f], inv.entries[f])
        PROVE  Owns(c, core.work.ctx.applied_fills[f],
                    OrElse(PlannedEntries(page, out)[f], inv.entries[f]))
    BY <1>1, <1>4, <1>6, <1>9, BatchOwns DEF P
  <1>10. t.entries = PlannedEntries(page, out)
    BY DEF Transaction
  <1>11. After(t, row).ctx = core.work.ctx
    BY <1>6, ContextAfter
  <1> HIDE DEF out
  <1>12. TransactionSound(t, input, row, inv)
    BY <1>6, <1>7, <1>8, TransactionIsSound
  <1> HIDE DEF t
  <1>13. KeepsOwned(t, c, row, inv)
    BY <1>9, <1>10, <1>11 DEF KeepsOwned
  <1> QED BY <1>2, <1>12, <1>13

\* What is prepared is sound and keeps the books of its row.
LEMMA PreparedSound ==
  ASSUME NEW input, ValidInput(input), NEW row, input.kind # "norow" => RowSound(row),
         input.kind = "norow" => row = None, NEW inv \in MarketInventory
  PROVE  /\ TransactionSound(PreparedFrom(input, row, inv), input, row, inv)
         /\ input.kind # "norow"
              => KeepsOwned(PreparedFrom(input, row, inv), input.cid, row, inv)
  <1>1. CASE input.kind = "order"
    <2>1. PreparedFrom(input, row, inv) = prepare_order_event(input, row, inv)
      BY <1>1 DEF PreparedFrom
    <2> QED BY <1>1, <2>1, OrderPrepared
  <1>2. CASE input.kind = "norow"
    <2>1. PreparedFrom(input, row, inv) = prepare_execution_norow(input, inv)
      BY <1>2 DEF PreparedFrom
    <2> QED BY <1>2, <2>1, NoRowPrepared
  <1>3. CASE input.kind = "batch"
    <2>1. PreparedFrom(input, row, inv) = prepare_execution_batch(input, row, inv)
      BY <1>3 DEF PreparedFrom
    <2> QED BY <1>3, <2>1, BatchPrepared
  <1> QED BY <1>1, <1>2, <1>3 DEF ValidInput

-----------------------------------------------------------------------------
(* Applying and recording it                                               *)

\* Nothing known of an execution is lost.
EntryKept(old, new) == old # None => new # None /\ Raised(old, new)
InventoryKept(inv, inv2) ==
    \A f \in FillIds : /\ EntryKept(inv.entries[f], inv2.entries[f])
                       /\ inv.conflicts[f] # None => inv2.conflicts[f] # None

\* The inventory after a transaction: typed, counted, nothing lost; the same
\* generation is the same inventory.
LEMMA InventoryApplied ==
  ASSUME NEW t, NEW input, ValidInput(input), NEW row, NEW inv \in MarketInventory,
         NEW G \in Nat, G < U64Max,
         TransactionSound(t, input, row, inv),
         inv.generation + Len(input.page) <= G
  PROVE  /\ InventoryAfter(t, inv) \in MarketInventory
         /\ InventoryAfter(t, inv).generation <= G
         /\ InventoryAfter(t, inv).generation >= inv.generation
         /\ InventoryAfter(t, inv).generation = inv.generation
              => InventoryAfter(t, inv) = inv
         /\ InventoryKept(inv, InventoryAfter(t, inv))
         /\ \A f \in FillIds : InventoryAfter(t, inv).entries[f]
                                 = OrElse(t.entries[f], inv.entries[f])
  <1> DEFINE n == Cardinality(Planned(t.entries)) + Cardinality(Planned(t.conflicts))
             g == inv.generation
             entries == Overwritten(inv.entries, t.entries)
             conflicts == Overwritten(inv.conflicts, t.conflicts)
             inv2 == InventoryAfter(t, inv)
  <1>1. /\ n \in Nat /\ n <= Len(input.page)
        /\ n = 0 => Planned(t.entries) = {} /\ Planned(t.conflicts) = {}
    BY DEF TransactionSound
  <1>2. /\ g \in 0..U64Max /\ inv.entries \in [FillIds -> Opt(InventoryEntry)]
        /\ inv.conflicts \in [FillIds -> Opt(ConflictClass)]
        /\ inv = [generation |-> g, entries |-> inv.entries, conflicts |-> inv.conflicts]
    BY DEF MarketInventory
  <1>3. /\ inv2 = [generation |-> SaturatingAdd(g, n), entries |-> entries,
                   conflicts |-> conflicts]
    BY DEF InventoryAfter
  <1>4. Len(input.page) \in Nat /\ G \in Nat /\ G < U64Max
        /\ U64Max \in Nat
    BY QtyAssumption DEF ValidInput
  <1> HIDE DEF n, inv2
  <1>5. SaturatingAdd(g, n) = g + n /\ g + n \in 0..U64Max /\ g + n <= G
    BY <1>1, <1>2, <1>4 DEF SaturatingAdd
  <1>6. \A f \in FillIds :
          /\ entries[f] = OrElse(t.entries[f], inv.entries[f])
          /\ conflicts[f] = OrElse(t.conflicts[f], inv.conflicts[f])
    BY DEF Overwritten
  <1>7. entries \in [FillIds -> Opt(InventoryEntry)]
        /\ conflicts \in [FillIds -> Opt(ConflictClass)]
    BY <1>2 DEF Overwritten, OrElse, TransactionSound
  <1>8. n = 0 => entries = inv.entries /\ conflicts = inv.conflicts
    <2> SUFFICES ASSUME n = 0
                 PROVE  entries = inv.entries /\ conflicts = inv.conflicts
      OBVIOUS
    <2>1. \A f \in FillIds : t.entries[f] = None /\ t.conflicts[f] = None
      BY <1>1 DEF Planned
    <2>2. \A f \in FillIds : entries[f] = inv.entries[f] /\ conflicts[f] = inv.conflicts[f]
      BY <1>6, <2>1 DEF OrElse
    <2> HIDE DEF entries, conflicts
    <2> QED BY <1>2, <1>7, <2>2
  <1>9. \A f \in FillIds : /\ EntryKept(inv.entries[f], entries[f])
                           /\ inv.conflicts[f] # None => conflicts[f] # None
    <2> SUFFICES ASSUME NEW f \in FillIds
                 PROVE  /\ EntryKept(inv.entries[f], entries[f])
                        /\ inv.conflicts[f] # None => conflicts[f] # None
      OBVIOUS
    <2>1. PlanSound(Beneficiary(input), inv.entries[f], t.entries[f])
      BY DEF TransactionSound
    <2>2. Raised(inv.entries[f], inv.entries[f])
      BY DEF Raised
    <2> QED BY <1>6, <2>1, <2>2 DEF EntryKept, PlanSound, OrElse
  <1> HIDE DEF entries, conflicts, g
  <1>10. inv2.generation = g + n /\ inv2.entries = entries /\ inv2.conflicts = conflicts
    BY <1>3, <1>5
  <1>11. inv2 \in MarketInventory
    BY <1>3, <1>5, <1>7 DEF MarketInventory
  <1>12. g + n = g => inv2 = inv
    <2>1. g + n = g => n = 0
      BY <1>1, <1>2
    <2> QED BY <1>2, <1>3, <1>5, <1>8, <2>1
  <1>13. g + n >= g
    BY <1>1, <1>2
  <1> QED BY <1>5, <1>6, <1>9, <1>10, <1>11, <1>12, <1>13 DEF InventoryKept, inv2, g

\* An order event leaves the inventory as it is.
LEMMA OrderKeepsInventory ==
  ASSUME NEW t, NEW input, ValidInput(input), input.kind = "order", NEW row,
         NEW inv \in MarketInventory, TransactionSound(t, input, row, inv)
  PROVE  InventoryAfter(t, inv) = inv
  <1>1. Planned(t.entries) = {} /\ Planned(t.conflicts) = {}
    <2>1. Len(input.page) = 0
      BY DEF ValidInput
    <2> QED BY <2>1 DEF TransactionSound
  <1>2. \A f \in FillIds : t.entries[f] = None /\ t.conflicts[f] = None
    BY <1>1 DEF Planned
  <1>3. /\ inv = [generation |-> inv.generation, entries |-> inv.entries,
                  conflicts |-> inv.conflicts]
        /\ inv.generation \in 0..U64Max /\ U64Max \in Nat
        /\ inv.entries \in [FillIds -> Opt(InventoryEntry)]
        /\ inv.conflicts \in [FillIds -> Opt(ConflictClass)]
    BY QtyAssumption DEF MarketInventory
  <1>4. /\ Overwritten(inv.entries, t.entries) = inv.entries
        /\ Overwritten(inv.conflicts, t.conflicts) = inv.conflicts
    BY <1>2, <1>3 DEF Overwritten, OrElse
  <1>5. SaturatingAdd(inv.generation, 0 + 0) = inv.generation /\ Cardinality({}) = 0
    BY <1>3, FS_EmptySet DEF SaturatingAdd
  <1> QED BY <1>1, <1>3, <1>4, <1>5 DEF InventoryAfter

\* What the rebuilds return for the records of all that led to this memory.
InventoryRebuilt(inv) == [ok |-> TRUE, ingested |-> KnownIds(inv), inventory |-> inv]
RowRebuilt(row) == [ok |-> TRUE, row |-> row]

\* A record restores the inventory its transaction leaves: what it ingests was
\* unknown, and what becomes known it ingests.
LEMMA InventoryRecorded ==
  ASSUME NEW t, NEW input, NEW row, NEW inv \in MarketInventory,
         TransactionSound(t, input, row, inv), t.record # None
  PROVE  RebuildInventory(InventoryRebuilt(inv), t.record)
           = InventoryRebuilt(InventoryAfter(t, inv))
  <1> DEFINE x == t.record.executions
             d == InventoryRebuilt(inv)
             ingests == {i \in DOMAIN x : x[i].inventory = "Ingested"}
             ids == {x[i].id : i \in ingests}
             inv2 == InventoryAfter(t, inv)
  <1>1. /\ PlannedEntries(x, x) = t.entries /\ PlannedConflicts(x, x) = t.conflicts
        /\ \A i \in ingests : x[i].id \in FillIds /\ inv.entries[x[i].id] = None
                              /\ t.entries[x[i].id] # None
        /\ \A i, j \in ingests : i # j => x[i].id # x[j].id
        /\ \A f \in FillIds : t.entries[f] # None /\ inv.entries[f] = None
                                => \E i \in ingests : x[i].id = f
    BY DEF TransactionSound, RecordSound
  <1>2. d.ok = TRUE /\ d.ingested = KnownIds(inv) /\ d.inventory = inv
    BY DEF InventoryRebuilt
  <1>3. /\ inv2.entries = Overwritten(inv.entries, t.entries)
        /\ inv2 = [generation |-> SaturatingAdd(inv.generation,
                                    Cardinality(Planned(t.entries))
                                    + Cardinality(Planned(t.conflicts))),
                   entries |-> Overwritten(inv.entries, t.entries),
                   conflicts |-> Overwritten(inv.conflicts, t.conflicts)]
    BY DEF InventoryAfter
  <1>4. \A i \in ingests : x[i].id \notin KnownIds(inv)
    BY <1>1 DEF KnownIds
  <1>5. KnownIds(inv) \cup ids = KnownIds(inv2)
    <2>1. \A f \in FillIds : f \in KnownIds(inv2)
                               <=> t.entries[f] # None \/ inv.entries[f] # None
      BY <1>3 DEF KnownIds, Overwritten, OrElse
    <2>2. \A f \in FillIds : f \in ids <=> \E i \in ingests : x[i].id = f
      OBVIOUS
    <2>3. ids \subseteq FillIds
      BY <1>1
    <2>4. \A f \in FillIds : f \in KnownIds(inv) \cup ids <=> f \in KnownIds(inv2)
      BY <1>1, <2>1, <2>2 DEF KnownIds
    <2> QED BY <2>3, <2>4 DEF KnownIds
  <1> HIDE DEF d, inv2
  <1>6. RebuildInventory(d, t.record)
          = [ok |-> d.ok, ingested |-> d.ingested \cup ids,
             inventory |-> [generation |-> SaturatingAdd(d.inventory.generation,
                                             Cardinality(Planned(t.entries))
                                             + Cardinality(Planned(t.conflicts))),
                            entries |-> Overwritten(d.inventory.entries, t.entries),
                            conflicts |-> Overwritten(d.inventory.conflicts, t.conflicts)]]
    <2>1. /\ ~ \E i \in ingests : x[i].id \in d.ingested
          /\ ~ \E i, j \in ingests : i # j /\ x[i].id = x[j].id
      BY <1>1, <1>2, <1>4
    <2> QED BY <1>1, <2>1 DEF RebuildInventory
  <1>7. RebuildInventory(d, t.record)
          = [ok |-> TRUE, ingested |-> KnownIds(inv2), inventory |-> inv2]
    BY <1>2, <1>3, <1>5, <1>6
  <1> QED BY <1>7 DEF InventoryRebuilt, d, inv2

\* The next snapshot of a row is taken.
LEMMA RowRecorded ==
  ASSUME NEW row, NEW o, o.row.seq = row.seq + 1
  PROVE  RebuildOrder(RowRebuilt(row), o) = RowRebuilt(o.row)
  BY DEF RebuildOrder, RowRebuilt
=============================================================================
