---------------------------- MODULE Transactions ----------------------------
(***************************************************************************)
(* execution.rs: preparing a transaction against an order row and the      *)
(* market inventory, and what its application and its journal record do.   *)
(*                                                                         *)
(* The inventory counts every execution of the market once, by fill_id,    *)
(* with the order that owns it.  Preparing is a function of the rows, the  *)
(* inventory and an input; it changes nothing.  An evidence is checked     *)
(* against S (staged earlier in the batch), P (the inventory entry) and Q  *)
(* (the payload the order applied).  An input that prepare refuses with an *)
(* error (foreign or mixed ledgers, fills that do not match the evidence)  *)
(* gives no transaction and is not represented; nor are labels that no     *)
(* transition reads (source, event name, conflict witness).                *)
(***************************************************************************)
EXTENDS OrderMachine

CONSTANTS
    Cids,           \* client order ids of the rows
    ForeignRows,    \* the rows of another ledger than the inventory's
    side_of         \* ctx.side of each row

ASSUME RowAssumption ==
    /\ IsFiniteSet(Cids)
    /\ ForeignRows \subseteq Cids
    /\ side_of \in [Cids -> {"BuyYes", "SellYes"}]
    /\ None \notin Cids

Sides == {"BuyYes", "SellYes"}
ConflictClass == {"Core", "Ownership", "Fee"}

Evidence == [id : FillIds, qty : Nat, price : Nat, ts : Int, venue : Opt(Venues),
             fee : Opt(0..U64Max), side : Sides, claimed : Opt(Cids)]

InventoryProvenance == {"Attributed", "Recovered", "LateBooked", "NotAttributedByOrder",
                        "Refused", "NoRow", "RowForeign"}
InventoryEntry ==
    [side : Sides, qty : Nat, price : Nat, ts : Int, venue : Opt(Venues),
     claimed : Opt(Cids), owner : Opt(Cids), fee : Opt(0..U64Max),
     provenance : InventoryProvenance]

\* What is known of an execution while its batch is adjudicated.
StagedPayloads == [side : Sides, qty : Nat, price : Nat, ts : Int, venue : Opt(Venues),
                   fee : Opt(0..U64Max), claimed : Opt(Cids)]

ASSUME EntryAssumption ==
    None \notin Evidence \cup InventoryEntry \cup StagedPayloads \cup ConflictClass

MarketInventory == [generation : 0..U64Max,
                    entries : [FillIds -> Opt(InventoryEntry)],
                    conflicts : [FillIds -> Opt(ConflictClass)]]

EmptyInventory == [generation |-> 0, entries |-> [f \in FillIds |-> None],
                   conflicts |-> [f \in FillIds |-> None]]

KnownIds(inv) == {f \in FillIds : inv.entries[f] # None}

\* OrderEvent: the events used here, with the data of each.  The fills of a
\* structured event, and the one of a Fill, come as the page of the input.
TerminalClaim == [venue : Venues, filled : Nat, executed : BOOLEAN]
OrderEvent ==
    [type : {"SubmitResponse"}, arg : Response]
    \cup [type : {"CancelOutcome"}, arg : CancelOutcomes]
    \cup [type : {"UnknownBackfillResult"}, arg : {r \in Report : r.venue # None}]
    \cup [type : {"ReconcileResult"}, arg : Report]
    \cup [type : {"UserOrderTerminalClaim"}, arg : TerminalClaim]
    \cup [type : {"Fill", "SubmitTimeout", "CancelRequested", "BackfillNoMatch",
                  "BackfillContinues", "ImmediateFillBackfillResult", "OwnAction",
                  "CloseSubmission"}, arg : {None}]

Row(s, c, seq) == [state |-> s, ctx |-> c, seq |-> seq]

-----------------------------------------------------------------------------
(* The core call                                                           *)

\* UserOrderTerminalClaim: arg is [venue, filled, executed] of a terminal frame.
terminal_claim(s, w, claim) ==
    LET noted == [w EXCEPT !.ctx = note_venue_remaining(@, 0)] IN
    IF \/ w.ctx.venue_order_id # claim.venue
       \/ w.ctx.attributed_fill_qty # claim.filled
       \/ IF claim.executed THEN claim.filled # Qty ELSE claim.filled > Qty
    THEN reject(s, w)
    ELSE try_finalize_terminal(note_authority_complete(noted, TRUE),
           IF claim.executed THEN Proposed("Filled", claim.filled, 0) ELSE ProposedCanceled,
           claim.venue, IF claim.executed THEN "Filled" ELSE "Canceled")

\* The dispatch of apply_event on the events used here (Lifecycle has them all);
\* page holds the fills of a structured event.
LiveEvent(s, w, ev, page) ==
    CASE ev.type = "SubmitResponse" /\ s.kind = "SubmitStarted" ->
           apply_submit_response(w, ev.arg)
      [] ev.type = "SubmitTimeout" /\ s.kind = "SubmitStarted" ->
           accept(Plain("SubmitUnknown"), Ask(w, {"BackfillUnknown"}))
      [] ev.type = "CancelRequested"
         /\ s.kind \in LiveKinds \cup {"ImmediateFillUnattributed"} ->
           request_cancel(s, w)
      [] ev.type = "CancelRequested" /\ s.kind \in PendingKinds -> accept(s, w)
      [] ev.type = "CancelOutcome" /\ s.kind = "CancelPending" ->
           apply_cancel_outcome(s, w, ev.arg)
      [] ev.type = "ImmediateFillBackfillResult" /\ s.kind = "ImmediateFillUnattributed" ->
           apply_immediate_fill_backfill(s, w, page)
      [] ev.type = "UnknownBackfillResult" /\ s.kind = "SubmitUnknown" ->
           MatchedBackfill(w, TRUE, ev.arg, page)
      [] ev.type = "BackfillNoMatch" /\ s.kind = "SubmitUnknown" ->
           halt_with_reason_state(Plain("UnknownNoMatch"), w)
      [] ev.type = "BackfillContinues" /\ s.kind = "SubmitUnknown" ->
           accept(s, Ask(w, {"BackfillUnknown"}))
      [] ev.type = "ReconcileResult" /\ s.kind \in PendingKinds ->
           ReconcileReport(s, w, ev.arg, page, TRUE)
      [] ev.type = "OwnAction"
         /\ s.kind \in LiveKinds \cup PendingKinds \cup {"ImmediateFillUnattributed"} ->
           accept(s, AppendFsync(w, OwnActionRecord))
      [] ev.type = "UserOrderTerminalClaim" /\ s.kind \in LiveKinds \cup PendingKinds ->
           terminal_claim(s, w, ev.arg)
      [] ev.type = "CloseSubmission" /\ s.kind = "SubmitUnknown" ->
           try_close_submission(s, w, "ExhaustiveAbsent")
      [] OTHER -> reject(s, w)

\* The records of the core travel inside the transaction; the legacy fold never
\* sees them.
apply_event(row, ev, page) ==
    LET w == NoWork(row.ctx) IN
    IF ev.type = "Fill"
    THEN IF row.state.kind \in {"New", "SubmitPrepared"} THEN reject(row.state, w)
         ELSE on_fill(row.state, w, page[1])
    ELSE IF ev.type = "CloseSubmission" /\ row.state.kind = "UnknownNoMatch"
    THEN try_close_submission(row.state, w, "ExhaustiveAbsent")
    ELSE IF is_restart_frozen(row.state) THEN reject(row.state, w)
    ELSE LiveEvent(row.state, w, ev, page)

\* An outcome that changed nothing and had no effect leaves the row out of the
\* transaction.
OrderChanged(row, o) ==
    /\ o.outcome # "Reject"
    /\ \/ o.state # row.state
       \/ o.work.ctx # row.ctx
       \/ o.work.log # <<>>
       \/ o.work.asks # {}
       \/ o.work.hold # "Keep"
RowAfter(row, o) == Row(o.state, o.work.ctx, row.seq + 1)

-----------------------------------------------------------------------------
(* Adjudicating one evidence                                               *)

core_disagree_qty_price_venue(a, b) ==
    \/ a.qty # b.qty \/ a.price # b.price
    \/ a.venue # None /\ b.venue # None /\ a.venue # b.venue

fee_conflict(a, b) == a.fee # None /\ b.fee # None /\ a.fee # b.fee

Verdict(verdict, disposition, entry, conflict) ==
    [verdict |-> verdict, inventory |-> disposition, entry |-> entry,
     conflict |-> conflict]
IgnoredZero == Verdict("IgnoredZero", "Unchanged", None, None)
Conflict(class, p) == Verdict("Refused", "Conflict", p, class)

StagedPayload(e, p, q) ==
    LET prior == IF p # None THEN p ELSE IF q # None THEN q ELSE e
        pv == IF p # None THEN p.venue ELSE None
        pf == IF p # None THEN p.fee ELSE None
        qv == IF q # None THEN q.venue ELSE None
        qf == IF q # None THEN q.fee ELSE None
    IN [side |-> e.side, qty |-> e.qty, price |-> e.price, ts |-> prior.ts,
        venue |-> OrElse(pv, OrElse(qv, e.venue)),
        fee |-> OrElse(pf, OrElse(qf, e.fee)),
        claimed |-> e.claimed]

\* Mutant: the latest evidence wins.
LatestVenueAndFee(x, y) == [x EXCEPT !.venue = y.venue, !.fee = y.fee]

\* None -> Some upgrades, never the other way.
WithVenueAndFee(x, y) ==
    [x EXCEPT !.venue = OrElse(@, y.venue), !.fee = OrElse(@, y.fee)]
WithClaim(x, y) == [x EXCEPT !.claimed = OrElse(@, y.claimed)]

ToEntry(x, owner, provenance) ==
    [side |-> x.side, qty |-> x.qty, price |-> x.price, ts |-> x.ts,
     venue |-> x.venue, claimed |-> x.claimed, owner |-> owner, fee |-> x.fee,
     provenance |-> provenance]

\* A present entry, with what the new evidence adds to it.
Present(p, q) ==
    Verdict("Refused", IF q # p THEN "Upgraded" ELSE "Duplicate", q, None)

CoreHit(sided, seen) ==
    \/ \E a, b \in sided : a.side # b.side
    \/ \E a, b \in seen : core_disagree_qty_price_venue(a, b)

\* Mutant: an execution that another order owns is adjudicated as any other.
NoOwnerHit(c, p) == FALSE

OwnerHit(c, p) == p # None /\ p.owner \notin {None, c}

Pushed(acc, v) == [acc EXCEPT !.pre = Append(@, v)]
Staged(acc, id, x) == [acc EXCEPT !.staging[id] = x]

\* One evidence of a batch for row c.  A foreign row is adjudicated without its
\* payloads, is never fed to the core, and owns nothing here.
Adjudicate(c, row, inv, acc, e) ==
    LET foreign == c \in ForeignRows
        p == inv.entries[e.id]
        q == IF foreign THEN None ELSE row.ctx.applied_fills[e.id]
        s == acc.staging[e.id]
        sided == {e, s, p} \ {None}
        seen == (sided \cup {q}) \ {None}
        merged == WithClaim(WithVenueAndFee(s, e), e)
        fresh == StagedPayload(e, p, q)
    IN IF e.qty = 0 THEN Pushed(acc, IgnoredZero)
       ELSE IF CoreHit(sided, seen) THEN Pushed(acc, Conflict("Core", p))
       ELSE IF ~ foreign /\ OwnerHit(c, p)
       THEN Pushed(acc, Conflict("Ownership", p))
       ELSE IF \E a, b \in seen : fee_conflict(a, b) THEN Pushed(acc, Conflict("Fee", p))
       ELSE IF s # None
       THEN Pushed(Staged(acc, e.id, merged), Verdict("Refused", "Duplicate", p, None))
       ELSE IF ~ foreign
       THEN Pushed(Staged(acc, e.id, fresh), Verdict("Admitted", "Unchanged", None, None))
       ELSE IF p # None THEN Pushed(acc, Present(p, WithVenueAndFee(p, e)))
       ELSE Pushed(Staged(acc, e.id, fresh),
                   Verdict("Refused", "Ingested", ToEntry(e, None, "RowForeign"), None))

AdjudicateBatch(c, row, inv, page) ==
    LET start == [staging |-> [f \in FillIds |-> None], pre |-> <<>>]
        one == IF Len(page) >= 1 THEN Adjudicate(c, row, inv, start, page[1]) ELSE start
    IN IF Len(page) >= 2 THEN Adjudicate(c, row, inv, one, page[2]) ELSE one

\* Mutant: the side of the evidence is not compared with the order's.
AnySide(c, inv, acc, e, v) == v

\* An admitted evidence on the wrong side of the order is kept from the core
\* but enters the inventory.
SideChecked(c, inv, acc, e, v) ==
    LET p == inv.entries[e.id] IN
    IF v.verdict # "Admitted" \/ e.side = side_of[c] THEN v
    ELSE IF p # None THEN Verdict("SideMismatch", "Duplicate", p, None)
    ELSE Verdict("SideMismatch", "Ingested", ToEntry(acc.staging[e.id], None, "Refused"), None)

-----------------------------------------------------------------------------
(* Preparing: what the transaction expects to find and what it will change *)

Last(S) == CHOOSE i \in S : \A j \in S : j <= i

\* planned_entries and planned_conflicts: the last of a batch wins.
PlannedEntries(page, out) ==
    [f \in FillIds |->
       LET hits == {i \in DOMAIN out : page[i].id = f
                                       /\ out[i].inventory \in {"Ingested", "Upgraded"}}
       IN IF hits = {} THEN None ELSE out[Last(hits)].entry]
PlannedConflicts(page, out) ==
    [f \in FillIds |->
       LET hits == {i \in DOMAIN out : page[i].id = f /\ out[i].conflict # None}
       IN IF hits = {} THEN None ELSE out[Last(hits)].conflict]

Outcome(e, v) == [id |-> e.id, inventory |-> v.inventory, entry |-> v.entry,
                  conflict |-> v.conflict]

\* The record is written iff the row or the inventory changes.
\* The order part names the event and carries the records of the core, with a
\* Halted record after them when the core halted; it is there iff changed.
Transaction(input, row, core, inv, page, out) ==
    LET changed == input.kind # "norow" /\ OrderChanged(row, core)
        after == IF changed THEN RowAfter(row, core) ELSE None
        executions == [i \in DOMAIN out |-> Outcome(page[i], out[i])]
        mutating == \E i \in DOMAIN out :
                      out[i].inventory \in {"Ingested", "Upgraded", "Conflict"}
        order == [cid |-> input.cid, changed |-> changed, row |-> after,
                  event |-> input.event.type,
                  core |-> IF changed THEN core.work.log ELSE <<>>,
                  halted |-> changed /\ core.outcome = "Halt"]
    IN [input |-> input, row |-> row, generation |-> inv.generation,
        changed |-> changed, after |-> after,
        executions |-> executions,
        entries |-> PlannedEntries(page, out),
        conflicts |-> PlannedConflicts(page, out),
        record |-> IF changed \/ mutating
                   THEN [order |-> order, executions |-> executions] ELSE None]

prepare_order_event(input, row, inv) ==
    Transaction(input, row, apply_event(row, input.event, <<>>), inv, <<>>, <<>>)

\* Evidence for which the shell found no row.
prepare_execution_norow(input, inv) ==
    LET e == input.page[1]
        p == inv.entries[e.id]
        v == IF e.qty = 0 THEN IgnoredZero
             ELSE IF p = None
             THEN Verdict("NoRow", "Ingested", ToEntry(e, None, "NoRow"), None)
             ELSE IF CoreHit({e, p}, {e, p}) THEN Conflict("Core", p)
             ELSE IF fee_conflict(e, p) THEN Conflict("Fee", p)
             ELSE Present(p, WithClaim(WithVenueAndFee(p, e), e))
    IN Transaction(input, None, None, inv, input.page, <<v>>)

\* The inventory part of an admitted evidence, once the core has run: it is
\* owned by the row if the row has it applied.
AdmittedOutcome(c, row, o, inv, acc, e) ==
    LET p == inv.entries[e.id]
        staged == acc.staging[e.id]
        in_before == row.ctx.applied_fills[e.id] # None
        in_after == o.work.ctx.applied_fills[e.id] # None
        owner == IF in_after THEN c ELSE None
        provenance == IF ~ in_after THEN "NotAttributedByOrder"
                      ELSE IF in_before THEN "Recovered"
                      ELSE IF o.outcome = "Halt" /\ o.state.reason = "PostTerminalFill"
                      THEN "LateBooked" ELSE "Attributed"
        entry == [ToEntry(staged, owner, provenance) EXCEPT
                    !.ts = e.ts, !.claimed = e.claimed]
    IN IF p = None THEN Verdict("Admitted", "Ingested", entry, None)
       ELSE Present(p, [WithVenueAndFee(p, staged) EXCEPT !.owner = OrElse(@, owner)])

\* A row-foreign ingest publishes what later evidence of the batch added.
FinalOutcome(c, acc, e, v) ==
    IF c \in ForeignRows /\ v.inventory = "Ingested"
    THEN [v EXCEPT !.entry = WithClaim(WithVenueAndFee(@, acc.staging[e.id]),
                                       acc.staging[e.id])]
    ELSE v

FillOf(id, x) == [id |-> id, qty |-> x.qty, price |-> x.price, fee |-> x.fee,
                  venue |-> x.venue, ts |-> x.ts]

\* The event is rebuilt with the admitted fills only, each id once, with its
\* final staged payload.
rebuild_event_with_fills(page, pre, acc) ==
    LET pick(i) == IF i <= Len(page) /\ pre[i].verdict = "Admitted"
                   THEN <<FillOf(page[i].id, acc.staging[page[i].id])>> ELSE <<>>
    IN pick(1) \o pick(2)

\* Evidence that is all on the wrong side halts a live order; a bare fill with
\* nothing admitted is not sent to the core, a structured event always is.
CoreCall(c, row, ev, pre, admitted) ==
    LET w == NoWork(row.ctx)
        idle == reject(row.state, w)
        all_side_mismatch ==
          /\ \E i \in DOMAIN pre : pre[i].verdict = "SideMismatch"
          /\ \A i \in DOMAIN pre : pre[i].verdict \in {"SideMismatch", "IgnoredZero"}
    IN IF c \in ForeignRows THEN idle
       ELSE IF all_side_mismatch
       THEN IF is_restart_frozen(row.state) THEN idle
            ELSE halt_with_reason("CrossCheckMismatch", w)
       ELSE IF admitted # <<>> \/ ev.type # "Fill" THEN apply_event(row, ev, admitted)
       ELSE idle

\* The inventory part of the batch, and the transaction, once the core has run.
CompleteBatch(input, row, inv, acc, pre, core) ==
    LET page == input.page
        out == [i \in DOMAIN page |->
                  IF pre[i].verdict = "Admitted"
                  THEN AdmittedOutcome(input.cid, row, core, inv, acc, page[i])
                  ELSE FinalOutcome(input.cid, acc, page[i], pre[i])]
    IN Transaction(input, row, core, inv, page, out)

\* A batch of evidence for a row: adjudicate, check sides, feed what was
\* admitted to the core, and book in the inventory what the row did with it.
prepare_execution_batch(input, row, inv) ==
    LET c == input.cid
        page == input.page
        acc == AdjudicateBatch(c, row, inv, page)
        pre == [i \in DOMAIN page |->
                  IF c \in ForeignRows THEN acc.pre[i]
                  ELSE SideChecked(c, inv, acc, page[i], acc.pre[i])]
    IN CompleteBatch(input, row, inv, acc, pre,
         CoreCall(c, row, input.event, pre, rebuild_event_with_fills(page, pre, acc)))

\* What prepare returns for an input, as a function of the memory it reads.
Prepared(input, rows, inv) ==
    CASE input.kind = "order" -> prepare_order_event(input, rows[input.cid], inv)
      [] input.kind = "norow" -> prepare_execution_norow(input, inv)
      [] input.kind = "batch" -> prepare_execution_batch(input, rows[input.cid], inv)

-----------------------------------------------------------------------------
(* Applying, and rebuilding from the records                               *)

\* Mutant: the inventory may have moved since the transaction was prepared.
RowMatches(t, rows, inv) == t.input.kind # "norow" => rows[t.input.cid] = t.row

\* The checks of apply: the row and, for an execution, the inventory version.
ApplyMatches(t, rows, inv) ==
    /\ t.input.kind # "order" => inv.generation = t.generation
    /\ t.input.kind # "norow" => rows[t.input.cid] = t.row

RowsAfter(t, rows) ==
    IF t.changed THEN [rows EXCEPT ![t.input.cid] = t.after] ELSE rows

Planned(plan) == {f \in FillIds : plan[f] # None}
Overwritten(old, plan) == [f \in FillIds |-> OrElse(plan[f], old[f])]

\* Mutant: a conflict is counted as a change of its entry too.
CountConflictTwice(t, inv) ==
    [generation |-> SaturatingAdd(inv.generation, Cardinality(Planned(t.entries))
                                                  + 2 * Cardinality(Planned(t.conflicts))),
     entries |-> Overwritten(inv.entries, t.entries),
     conflicts |-> Overwritten(inv.conflicts, t.conflicts)]

InventoryAfter(t, inv) ==
    [generation |-> SaturatingAdd(inv.generation, Cardinality(Planned(t.entries))
                                                  + Cardinality(Planned(t.conflicts))),
     entries |-> Overwritten(inv.entries, t.entries),
     conflicts |-> Overwritten(inv.conflicts, t.conflicts)]

\* Mutant: conflicts are restored but not counted in the generation.
RebuildEntriesOnly(d, r) ==
    LET entries == PlannedEntries(r.executions, r.executions)
        conflicts == PlannedConflicts(r.executions, r.executions)
    IN [ok |-> d.ok, ingested |-> d.ingested,
        inventory |-> [generation |-> d.inventory.generation + Cardinality(Planned(entries)),
                       entries |-> Overwritten(d.inventory.entries, entries),
                       conflicts |-> Overwritten(d.inventory.conflicts, conflicts)]]

\* MarketInventory::rebuild, advanced by one record: a second ingest of an id
\* is an error, generations count distinct ids per transaction.
RebuildInventory(d, r) ==
    LET entries == PlannedEntries(r.executions, r.executions)
        conflicts == PlannedConflicts(r.executions, r.executions)
        ingests == {i \in DOMAIN r.executions : r.executions[i].inventory = "Ingested"}
    IN IF \/ \E i \in ingests : r.executions[i].id \in d.ingested
          \/ \E i, j \in ingests : i # j /\ r.executions[i].id = r.executions[j].id
       THEN [d EXCEPT !.ok = FALSE]
       ELSE [ok |-> d.ok,
             ingested |-> d.ingested \cup {r.executions[i].id : i \in ingests},
             inventory |->
               [generation |-> SaturatingAdd(d.inventory.generation,
                                 Cardinality(Planned(entries))
                                 + Cardinality(Planned(conflicts))),
                entries |-> Overwritten(d.inventory.entries, entries),
                conflicts |-> Overwritten(d.inventory.conflicts, conflicts)]]

\* rebuild_order, advanced by one snapshot: the next seq, or an equal duplicate
\* of the last one.  Records are appended in order, so anything else is a gap
\* or a divergence.
RebuildOrder(d, o) ==
    IF o.row.seq = d.row.seq + 1 THEN [d EXCEPT !.row = o.row]
    ELSE IF o.row = d.row THEN d ELSE [d EXCEPT !.ok = FALSE]
=============================================================================
