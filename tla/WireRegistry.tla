---------------------------- MODULE WireRegistry ----------------------------
(***************************************************************************)
(* observation.rs: the wire registry, its fold over the journal, the order *)
(* frames and amend proofs, and the observation round.                     *)
(*                                                                         *)
(* A wire is a venue order id; the orders (client ids) that were bound to  *)
(* it are its members.  The registry is kept per ledger and one ledger is  *)
(* modelled.  Of a frame the fields are kept that decide anything between  *)
(* frames of one wire: market, exchange index, side, price and transport   *)
(* identity are constant per wire.  A position of the journal is kept for  *)
(* what dates frames and holds, so pos counts those records only; bind_pos *)
(* and id_index are written and never read.                                *)
(***************************************************************************)
EXTENDS Transactions

Roles == {"Current", "Superseded", "Terminal"}
RowStatus == {"Open", "Partial", "Filled", "Canceled"}
\* ObservationOutcome; Fresh and Stale are Consistent with remaining_fresh or not.
Consistents == {"Fresh", "Stale"}
ObservationOutcome == {"Conflict", "Incomplete", "NotCovered", "RowInconsistent"}
                      \cup Consistents

Member(c, role) == [cid |-> c, role |-> role]
Memberships == [cid : Cids, role : Roles]

UserOrderEvidence ==
    [cid : Cids, status : {"Resting", "Canceled", "Executed", "Unknown"}, initial : Nat,
     filled : Nat, remaining : Nat, updated_ts : Nat]
AmendPhase == {"HttpPending", "AppliedNeedsObservation", "Unknown", "RestDue"}
AmendLineage ==
    [old_cid : Cids, new_cid : Cids, pre_generation : 0..U64Max, phase : AmendPhase,
     declared_remaining : Nat]
RemainingObservation ==
    [remaining : Nat, covered : SUBSET FillIds, generation : 0..U64Max]

WireState ==
    [members : Seq(Memberships), kind : {"VenueOnly", "Scoped"},
     held : SUBSET FillIds, filled_hw : Nat, status : RowStatus, generation : 0..U64Max,
     tracked : BOOLEAN, last : Opt(ObservationOutcome), resolved : BOOLEAN,
     remaining_observation : Opt(RemainingObservation),
     amend_lineage : Opt(AmendLineage), latest_user_order : Opt(UserOrderEvidence),
     latest_user_order_revision : Nat, proved_current_cid : Opt(Cids),
     authority_hold : BOOLEAN, authority_hold_revision : Nat]

ASSUME WireAssumption ==
    None \notin WireState \cup AmendLineage \cup UserOrderEvidence \cup RemainingObservation

venue_only ==
    [members |-> <<>>, kind |-> "VenueOnly", held |-> {}, filled_hw |-> 0,
     status |-> "Open", generation |-> 0, tracked |-> FALSE, last |-> None,
     resolved |-> FALSE, remaining_observation |-> None, amend_lineage |-> None,
     latest_user_order |-> None, latest_user_order_revision |-> 0,
     proved_current_cid |-> None, authority_hold |-> FALSE,
     authority_hold_revision |-> 0]

\* wires[v] is None until the wire is ensured.
Wire(wires, v) == OrElse(wires[v], venue_only)
marker(wires, v) == Wire(wires, v).generation

MembersIn(ws, roles) == {i \in DOMAIN ws.members : ws.members[i].role \in roles}
MemberCids(ws) == {ws.members[i].cid : i \in DOMAIN ws.members}
current(ws) ==
    LET S == MembersIn(ws, {"Current"})
    IN IF S = {} THEN None ELSE ws.members[CHOOSE i \in S : \A j \in S : i <= j].cid
non_terminal_cids(ws) == {ws.members[i].cid : i \in MembersIn(ws, Roles \ {"Terminal"})}

WithRole(ws, cids, role) ==
    [ws EXCEPT !.members = [i \in DOMAIN @ |->
        IF @[i].cid \in cids THEN Member(@[i].cid, role) ELSE @[i]]]

SumHeld(ws, inv) ==
    SumOver([f \in ws.held |-> IF inv.entries[f] = None THEN 0 ELSE inv.entries[f].qty])

\* Mutant: a halted order is not ended.
EndsUnhalted(s) == s.kind \in Terminals \cup {"ImmediateFillUnresolved", "UnknownNoMatch"}

is_terminal_state(s) ==
    s.kind \in Terminals \cup {"Halted", "ImmediateFillUnresolved", "UnknownNoMatch"}

-----------------------------------------------------------------------------
(* Folding an order record                                                 *)

\* Mutant: the first member does not inherit unresolved executions.
NeverInherits(ws) == FALSE

\* The first member of a wire inherits executions that were never resolved.
InheritsTracking(ws) == ws.held # {} /\ ~ ws.resolved

bind_member(ws, c) ==
    LET demoted == [i \in DOMAIN ws.members |->
                      IF ws.members[i].role = "Terminal" THEN ws.members[i]
                      ELSE Member(ws.members[i].cid, "Superseded")]
    IN IF c \in MemberCids(ws) THEN ws
       ELSE [ws EXCEPT !.kind = "Scoped",
                       !.tracked = IF ws.members = <<>> THEN InheritsTracking(ws) ELSE @,
                       !.members = Append(demoted, Member(c, "Current"))]

ForMember(wires, c, op(_)) ==
    [v \in Venues |-> IF wires[v] # None /\ c \in MemberCids(wires[v]) THEN op(wires[v])
                      ELSE wires[v]]

terminalize_cid(wires, c) ==
    LET retire(ws) == WithRole(ws, {c}, "Terminal") IN ForMember(wires, c, retire)

\* An own action changes the remaining quantity: what was proved is void.
bump_generation(wires, c) ==
    LET bump(ws) == [ws EXCEPT !.generation = SaturatingAdd(@, 1),
                               !.remaining_observation = None,
                               !.proved_current_cid = None]
    IN ForMember(wires, c, bump)

\* A terminal frame newer than the hold, and the terminal order it proves, may
\* discharge the hold of the wire.
DischargesHold(ws, v, o) ==
    LET e == ws.latest_user_order IN
    /\ \/ o.event = "UserOrderTerminalClaim"
       \/ o.event = "Fill" /\ o.row.state.kind = "Filled"
    /\ o.row.state.kind \in Terminals
    /\ o.row.ctx.venue_order_id = v
    /\ ws.authority_hold /\ ws.generation > 0 /\ ws.amend_lineage = None
    /\ ws.latest_user_order_revision > ws.authority_hold_revision
    /\ current(ws) = o.cid /\ ws.proved_current_cid = o.cid
    /\ e # None
    /\ e.cid = o.cid
    /\ e.status \in {"Canceled", "Executed"}
    /\ o.event = "Fill" => e.status = "Executed"
    /\ e.filled = o.row.ctx.attributed_fill_qty

\* The core records that touch the registry: a bind comes before a terminal or
\* Halted record, an own action comes alone.
FoldCore(wires, o) ==
    LET has(rec) == \E i \in DOMAIN o.core : o.core[i].rec = rec
        venue == o.core[CHOOSE i \in DOMAIN o.core : o.core[i].rec = "VenueBoundCid"].venue
        bound == IF has("VenueBoundCid")
                 THEN [wires EXCEPT ![venue] = bind_member(Wire(wires, venue), o.cid)]
                 ELSE wires
        retired == IF has("OrderTerminal") \/ o.halted THEN terminalize_cid(bound, o.cid)
                   ELSE bound
    IN IF has("OwnActionCid") THEN bump_generation(retired, o.cid) ELSE retired

FoldOrder(wires, o) ==
    LET folded == FoldCore(wires, o)
        freed(v) == /\ wires[v] # None
                    /\ DischargesHold(wires[v], v, o)
                    /\ o.cid \in MemberCids(folded[v])
                    /\ o.cid \notin non_terminal_cids(folded[v])
                    /\ current(folded[v]) = None
    IN [v \in Venues |-> IF freed(v) THEN [folded[v] EXCEPT !.authority_hold = FALSE]
                         ELSE folded[v]]

\* seen_order: records come in the order of their seq, so the last record of
\* each order is enough.
Seen(seen, o) == [c \in DOMAIN seen \cup {o.cid} |-> IF c = o.cid THEN o ELSE seen[c]]

\* Mutant: a duplicate of an order record is folded again.
FoldEveryOrder(reg, o) ==
    [reg EXCEPT !.wires = FoldOrder(@, o), !.seen = Seen(@, o)]

fold_order_part(reg, o) ==
    IF o.cid \in DOMAIN reg.seen /\ reg.seen[o.cid].row.seq = o.row.seq
    THEN [reg EXCEPT !.ok = @ /\ reg.seen[o.cid] = o]
    ELSE [reg EXCEPT !.wires = FoldOrder(@, o), !.seen = Seen(@, o)]

-----------------------------------------------------------------------------
(* Folding executions and the records of this module                       *)

\* Mutant: only a first ingest puts an execution on its wire.
HoldsIngested(x, v) ==
    x.inventory = "Ingested" /\ x.entry # None /\ x.entry.venue = v

Holds(x, v) ==
    x.inventory \in {"Ingested", "Upgraded"} /\ x.entry # None /\ x.entry.venue = v

FoldExecution(ws, x) ==
    LET newly == x.id \notin ws.held /\ x.entry.owner = None IN
    [ws EXCEPT !.held = @ \cup {x.id},
               !.resolved = @ /\ ~ (newly /\ ws.kind = "VenueOnly"),
               !.tracked = @ \/ (newly /\ ws.kind = "Scoped")]

FoldOne(wires, x) ==
    [v \in Venues |-> IF Holds(x, v) THEN FoldExecution(Wire(wires, v), x) ELSE wires[v]]
fold_executions(wires, xs) ==
    LET one == IF Len(xs) >= 1 THEN FoldOne(wires, xs[1]) ELSE wires
    IN IF Len(xs) >= 2 THEN FoldOne(one, xs[2]) ELSE one

\* A transaction of Transactions: its order part, then its executions.
FoldTransaction(reg, r) ==
    LET ordered == IF r.order.changed THEN fold_order_part(reg, r.order) ELSE reg
    IN [ordered EXCEPT !.wires = fold_executions(@, r.executions)]

\* An ObservationTxn replaces the wire and retires the members that ended.
FoldObservation(reg, r) ==
    LET ended == {m.cid : m \in {x \in r.members_after : is_terminal_state(x.row.state)}}
    IN [reg EXCEPT !.wires[r.wire] = WithRole(r.wire_after, ended, "Terminal")]

FoldLineage(reg, v, lineage) ==
    [reg EXCEPT !.wires[v] = [Wire(reg.wires, v) EXCEPT !.amend_lineage = lineage]]
FoldFrame(reg, v, pos, e) ==
    [reg EXCEPT !.wires[v] = [Wire(reg.wires, v) EXCEPT
        !.latest_user_order = e, !.latest_user_order_revision = pos + 1]]
FoldHold(reg, v, pos) ==
    [reg EXCEPT !.wires[v] = [Wire(reg.wires, v) EXCEPT
        !.authority_hold = TRUE, !.authority_hold_revision = pos + 1]]
\* OrderStateTxn and RestOrderProofTxn.
FoldProof(reg, v, wire_after) == [reg EXCEPT !.wires[v] = wire_after]

-----------------------------------------------------------------------------
(* Amend lineage, order frames and what they prove                         *)

Lineage(old, new, pre, phase, declared) ==
    [old_cid |-> old, new_cid |-> new, pre_generation |-> pre, phase |-> phase,
     declared_remaining |-> declared]

\* prepare_amend_lineage returns Ok.
LineageAdmitted(ws, l) ==
    IF l.phase = "HttpPending"
    THEN /\ ws.amend_lineage = None /\ ws.generation = l.pre_generation
         /\ current(ws) = l.old_cid /\ l.old_cid # l.new_cid
    ELSE /\ ws.amend_lineage # None
         /\ [ws.amend_lineage EXCEPT !.phase = l.phase] = l
         /\ l.phase = "AppliedNeedsObservation" =>
              ws.generation = l.pre_generation + 1 /\ current(ws) = l.new_cid

quantity_valid(e) ==
    CASE e.status \in {"Resting", "Unknown"} ->
           e.filled <= e.initial /\ e.remaining = e.initial - e.filled
      [] e.status = "Canceled" -> e.remaining = 0 /\ e.filled <= e.initial
      [] e.status = "Executed" -> e.remaining = 0 /\ e.filled = e.initial

\* prepare_user_order_received returns Ok(Some): a frame of the current order or
\* of the amend's successor, newer than the last one and no retreat from it.
FrameAdmitted(ws, e) ==
    LET prev == ws.latest_user_order IN
    /\ \/ current(ws) = e.cid
       \/ ws.amend_lineage # None /\ ws.amend_lineage.new_cid = e.cid
    /\ quantity_valid(e)
    /\ prev # None /\ prev.cid = e.cid =>
         /\ e # prev
         /\ e.updated_ts > prev.updated_ts
         /\ e.filled >= prev.filled
         /\ prev.status # "Resting" => e.status # "Resting"

\* What a proof of the current generation's remaining writes.
Proved(ws, c, remaining) ==
    [ws EXCEPT !.last = "Fresh",
               !.remaining_observation = [remaining |-> remaining, covered |-> ws.held,
                                          generation |-> ws.generation],
               !.proved_current_cid = c,
               !.amend_lineage = None]

\* A frame proves generation 0, the applied amend, or a generation already
\* proved for the same order.
FrameProvesGeneration(ws, e) ==
    LET l == ws.amend_lineage IN
    IF l # None
    THEN /\ l.phase = "AppliedNeedsObservation" /\ e.cid = l.new_cid
         /\ ws.generation = l.pre_generation + 1
         /\ e.initial = l.declared_remaining
    ELSE ws.generation = 0 \/ ws.proved_current_cid = e.cid

\* prepare_order_state_resting: the wire after it, None where it fails.
prepare_order_state_resting(ws, inv) ==
    LET e == ws.latest_user_order IN
    IF /\ ~ ws.authority_hold
       /\ e # None
       /\ e.status = "Resting"
       /\ current(ws) = e.cid
       /\ FrameProvesGeneration(ws, e)
       /\ e.filled = SumHeld(ws, inv)
    THEN Proved(ws, e.cid, e.remaining) ELSE None

\* prepare_rest_order_proof of an order page for client id c.
prepare_rest_order_proof(ws, inv, c, filled, remaining, initial) ==
    LET l == ws.amend_lineage IN
    IF /\ l # None
       /\ l.phase \in {"AppliedNeedsObservation", "RestDue"}
       /\ current(ws) = c /\ l.new_cid = c
       /\ ws.generation = l.pre_generation + 1
       /\ initial = l.declared_remaining
       /\ filled + remaining = initial
       /\ ws.last = "Stale"
       /\ filled = SumHeld(ws, inv)
    THEN [Proved(ws, c, remaining) EXCEPT !.authority_hold = FALSE] ELSE None

-----------------------------------------------------------------------------
(* The observation round                                                   *)

\* page is None or exhaustive without parse failures.
begin(ws) == [marker |-> ws.generation, ids |-> {}, conflict |-> FALSE, page |-> None]

\* record, with page_ids: a zero quantity does not count.
record(rnd, x) ==
    LET counts == x.entry # None \/ x.inventory = "Conflict"
    IN [rnd EXCEPT !.ids = IF counts THEN @ \cup {x.id} ELSE @,
                   !.conflict = @ \/ x.inventory = "Conflict" \/ x.conflict # None]

venue_from_state(s) == s.venue

live_with_remaining(s, c, rem) ==
    LET v == OrElse(venue_from_state(s), c.venue_order_id) IN
    IF v = None THEN s
    ELSE IF c.attributed_fill_qty = 0 /\ rem = Qty THEN Accepted(v)
    ELSE Partial(v, c.attributed_fill_qty, rem)

\* Mutant: freshness from marker equality instead of generation = 0.
FreshByMarker(ws, rnd, row, sigma) == row.filled = sigma /\ rnd.marker = ws.generation

remaining_fresh(ws, rnd, row, sigma) ==
    row.filled = sigma /\ ws.generation = 0 /\ rnd.marker = 0

\* Mutant: the row may report more than the executions held.
NeverShort(fw, sigma) == FALSE
ReportsMore(fw, sigma) == fw > sigma

RoundOutcome(ws, rnd, row, sigma, fw) ==
    IF rnd.conflict THEN "Conflict"
    ELSE IF rnd.page # TRUE THEN "Incomplete"
    ELSE IF rnd.ids # ws.held THEN "NotCovered"
    ELSE IF ReportsMore(fw, sigma) THEN "RowInconsistent"
    ELSE IF remaining_fresh(ws, rnd, row, sigma) THEN "Fresh" ELSE "Stale"

\* An outcome that is not Consistent raises the obligation of a sole member.
MemberLags(r, single, fw) ==
    IF ~ single THEN r
    ELSE IF RaiseFails(fw)
    THEN [r EXCEPT !.state = halt_with_reason("ObligationExceedsOrderQty", NoWork(r.ctx)).state]
    ELSE [r EXCEPT !.ctx = raise_fill_obligation(@, fw)]

\* What the row proposes for a member; None while the current member lives.  An
\* older member ends as Terminal.  The fallback is the proposal's terminal.
ProposedByRow(row, is_current, filled) ==
    CASE row.status = "Canceled" /\ is_current -> ProposedCanceled
      [] row.status = "Filled" /\ filled -> Proposed("Filled", Qty, 0)
      [] row.status \in {"Open", "Partial"} /\ is_current -> None
      [] OTHER -> ProposedTerminal

\* A live row refreshes the remaining of the current member, if it is fresh.
MemberLives(r, fresh, single, row) ==
    IF ~ fresh THEN r
    ELSE IF single /\ row.remaining > MaxOf(Qty - r.ctx.attributed_fill_qty, 0)
    THEN [r EXCEPT !.state = Halted("CrossCheckMismatch")]
    ELSE [r EXCEPT !.state = live_with_remaining(@, r.ctx, row.remaining),
                   !.ctx = note_venue_remaining(@, row.remaining)]

\* Consistent: the authority is latched, then the status of the row decides.
MemberSettles(r, v, p, fresh, single, row) ==
    LET latched == [r EXCEPT !.ctx = latch_authority_complete(@)]
        venue == OrElse(r.ctx.venue_order_id, OrElse(venue_from_state(r.state), v))
    IN IF p = None THEN MemberLives(latched, fresh, single, row)
       ELSE [latched EXCEPT !.state =
               try_finalize_terminal(NoWork(latched.ctx), p, venue, p.terminal).state]

MemberObserved(r, c, ws, v, outcome, fw, row) ==
    LET single == Len(ws.members) = 1 IN
    IF is_restart_frozen(r.state) \/ outcome = "Conflict" THEN r
    ELSE IF outcome \in Consistents
    THEN MemberSettles(r, v, ProposedByRow(row, current(ws) = c,
                               single /\ fw = Qty /\ row.remaining = 0),
                       outcome = "Fresh", single, row)
    ELSE MemberLags(r, single, fw)

\* Mutant: the status of the last row wins.
LatestStatus(old, new) == new

sticky_status(old, new) == IF old \in {"Filled", "Canceled"} THEN old ELSE new

\* The wire once the members are known: after is the set of changed members,
\* pending whether a member waits in ReconcilePending.
WireAfter(ws, outcome, fw, row, after, pending) ==
    LET ended == {m.cid : m \in {x \in after : is_terminal_state(x.row.state)}}
        retired == WithRole(ws, ended, "Terminal")
        status == sticky_status(ws.status, row.status)
        consistent == outcome \in Consistents
        settled == /\ consistent /\ ~ pending
                   /\ row.status \in {"Filled", "Canceled"}
                   /\ ws.members # <<>>
                   /\ non_terminal_cids(retired) = {}
    IN [retired EXCEPT
          !.filled_hw = fw, !.status = status,
          !.tracked = ~ consistent \/ pending,
          !.last = outcome,
          !.authority_hold = @ /\ outcome # "Fresh" /\ ~ settled,
          !.remaining_observation =
             IF outcome = "Fresh"
             THEN [remaining |-> row.remaining, covered |-> ws.held,
                   generation |-> ws.generation]
             ELSE None,
          !.resolved = IF ws.kind = "VenueOnly"
                       THEN status \in {"Filled", "Canceled"} /\ consistent ELSE @]

\* finish, with the rows of exactly the non-terminal members (any other list is
\* refused with MembersInvalid): the record, or None if nothing changed.
FinishWith(v, ws, rows, row, outcome, fw) ==
    LET cids == non_terminal_cids(ws)
        now == [c \in cids |-> MemberObserved(rows[c], c, ws, v, outcome, fw, row)]
        after == {[cid |-> c, row |-> [now[c] EXCEPT !.seq = @ + 1]] :
                    c \in {x \in cids : now[x] # rows[x]}}
        pending == \E c \in cids : now[c].state.kind = "ReconcilePending"
        wire_after == WireAfter(ws, outcome, fw, row, after, pending)
    IN IF after = {} /\ wire_after = ws THEN None
       ELSE [wire |-> v, outcome |-> outcome, members_after |-> after,
             wire_after |-> wire_after]
finish(v, ws, inv, rows, rnd, row) ==
    LET sigma == SumHeld(ws, inv)
        fw == MaxOf(ws.filled_hw, row.filled)
    IN FinishWith(v, ws, rows, row, RoundOutcome(ws, rnd, row, sigma, fw), fw)

\* ObservationTransaction::apply, on the memory that finish read: its checks
\* (targets, cursors, states, generations) compare that memory with itself.
apply_rows(t, rows) ==
    [c \in Cids |-> LET m == {x \in t.members_after : x.cid = c}
                    IN IF m = {} THEN rows[c] ELSE (CHOOSE x \in m : TRUE).row]

-----------------------------------------------------------------------------
(* Queries                                                                 *)

\* The order an execution reported for a wire is offered to, None if it is
\* ingested without a row (VenueOnly and the ambiguous routes).
route(wires, v, f, inv) ==
    LET ms == Wire(wires, v).members
        e == inv.entries[f]
    IN IF e # None /\ e.owner # None THEN e.owner
       ELSE IF Len(ms) = 1 THEN ms[1].cid ELSE None

\* Known(remaining), or None for Unresolved.
working_view(ws) ==
    LET obs == ws.remaining_observation IN
    IF /\ ~ ws.authority_hold
       /\ obs # None
       /\ ws.last = "Fresh"
       /\ obs.covered = ws.held
       /\ obs.generation = ws.generation
       /\ ws.generation = 0 \/ ws.proved_current_cid = current(ws)
    THEN obs.remaining ELSE None

member_working_view(wires, c) ==
    LET S == {v \in Venues : wires[v] # None /\ c \in MemberCids(wires[v])}
        ws == wires[CHOOSE v \in S : TRUE]
    IN IF S = {} \/ current(ws) # c THEN None ELSE working_view(ws)

\* "Ready", "Unresolved" or "Conflict" (the debts reported beside Unresolved are
\* diagnostics).
readiness(wires, inv) ==
    IF \E f \in FillIds : inv.conflicts[f] # None THEN "Conflict"
    ELSE IF \E v \in Venues : /\ wires[v] # None
                              /\ IF wires[v].kind = "VenueOnly" THEN ~ wires[v].resolved
                                 ELSE wires[v].tracked
    THEN "Unresolved" ELSE "Ready"
=============================================================================
