----------------------------- MODULE Observation -----------------------------
(***************************************************************************)
(* One wire observed: the venue's order, the evidence of it that reaches   *)
(* the shell late, twice or out of order, and the shell that keeps rows,   *)
(* inventory and wire registry (observation.rs).                           *)
(*                                                                         *)
(* The venue is external.  Its order has a client id, a size and fills;    *)
(* every version of it may be reported at any later time, by an order      *)
(* frame or by a REST row (a lagging replica), and so may every fill.  The *)
(* shell sends own actions (a decrease, an amend to a new client id), one  *)
(* at a time, and learns that the venue applied one only later.            *)
(*                                                                         *)
(* The shell keeps the contract of execution.rs:3: it prepares, appends    *)
(* the record and applies in one critical section, so a crash finds the    *)
(* journal equal to the memory or one record ahead of it.  A round is not  *)
(* one critical section: it spans the pages it fetches.                    *)
(***************************************************************************)
EXTENDS WireRegistry

CONSTANTS
    wire,             \* the venue order id
    first,            \* the client id the venue's order was created with
    Decreases,        \* sizes a decrease may ask for
    Amends,           \* sizes an amend may declare
    Deliveries,       \* the venue ids an execution is delivered with
    MaxSeq,           \* bound on the cursor of a row
    MaxGeneration,    \* bound on the generation of the inventory
    MaxVersion,       \* bound on the versions of the venue's order
    MaxPos,           \* bound on journalled frames and holds
    MaxRounds         \* bound on observation rounds

ASSUME ObservationAssumption ==
    /\ wire \in Venues /\ first \in Cids
    /\ Decreases \cup Amends \subseteq Nat \ {0}
    /\ Deliveries \subseteq {wire, None}
    /\ MaxGeneration \in Nat /\ MaxGeneration < U64Max
    /\ MaxVersion \in Nat /\ MaxVersion < U64Max

\* A decrease (new is None) or an amend in flight: bound tells that the successor
\* is bound to the wire (a decrease has none), observed that the order's own
\* action was recorded; rests is what the venue left resting.
OwnActions == [old : Cids, new : Opt(Cids), size : Nat \ {0}, applied : BOOLEAN,
               rests : Nat, bound : BOOLEAN, observed : BOOLEAN]

ASSUME ActionAssumption == None \notin OwnActions

VARIABLES
    orders,       \* the rows: state, context and cursor of every order
    inventory,    \* MarketInventory
    reg,          \* WireRegistry: wires, seen_order
    durable,      \* what the rebuilds return for the records written so far
    pos,          \* dated records (frames and holds) in the journal
    round,        \* the open ObservationRound
    venue,        \* the venue's order and its versions so far
    action,       \* the own action that is not yet acknowledged
    ghost         \* history the properties refer to

vars == <<orders, inventory, reg, durable, pos, round, venue, action, ghost>>
local == <<orders, inventory, reg, durable, pos, round, ghost>>
remote == <<venue, action>>

-----------------------------------------------------------------------------
(* The venue                                                               *)

Remaining(vn) == IF vn.status = "Resting" THEN vn.size - Cardinality(vn.fills) ELSE 0

\* What a report says of a version of the order.
Snapshot(vn) ==
    [cid |-> vn.cid, status |-> vn.status, initial |-> vn.size,
     filled |-> Cardinality(vn.fills), remaining |-> Remaining(vn),
     updated_ts |-> Cardinality(vn.versions)]

\* The order after a change, with its new version.
Versioned(vn) == [vn EXCEPT !.versions = @ \cup {Snapshot(vn)}]

VenueChanges(vn) ==
    /\ Cardinality(venue.versions) < MaxVersion
    /\ venue' = Versioned(vn)
    /\ UNCHANGED local

VenueFill(f) ==
    /\ venue.status = "Resting" /\ f \notin venue.fills
    /\ LET filled == [venue EXCEPT !.fills = @ \cup {f}]
       IN VenueChanges([filled EXCEPT !.status =
            IF Cardinality(filled.fills) = venue.size THEN "Executed" ELSE "Resting"])
    /\ UNCHANGED action

VenueCancel ==
    /\ venue.status = "Resting"
    /\ VenueChanges([venue EXCEPT !.status = "Canceled"])
    /\ UNCHANGED action

\* A size at or below what is filled is refused.
VenueApply ==
    /\ action # None /\ ~ action.applied
    /\ venue.status = "Resting" /\ action.size > Cardinality(venue.fills)
    /\ VenueChanges([venue EXCEPT !.size = action.size,
                                  !.cid = OrElse(action.new, @)])
    /\ action' = [action EXCEPT !.applied = TRUE,
                                !.rests = action.size - Cardinality(venue.fills)]

-----------------------------------------------------------------------------
(* The shell: journal and memory                                           *)

Ws == Wire(reg.wires, wire)

E(f, v) == [id |-> f, qty |-> 1, price |-> 1, ts |-> 0, venue |-> v, fee |-> None,
            side |-> "BuyYes", claimed |-> None]
Response0(n) == [venue |-> wire, fill_count |-> 0, remaining_count |-> n, avg |-> None,
                 fee |-> None, boundary |-> None]
OrderInput(c, type, arg) ==
    [kind |-> "order", cid |-> c, event |-> [type |-> type, arg |-> arg], page |-> <<>>]
FillInput(c, e) ==
    [kind |-> IF c = None THEN "norow" ELSE "batch", cid |-> c,
     event |-> [type |-> "Fill", arg |-> None], page |-> <<e>>]

\* Orders whose submission was prepared and started; the venue has the first.
Init ==
    /\ orders = [c \in Cids |-> Row(Plain("SubmitStarted"), new_ctx, 2)]
    /\ inventory = EmptyInventory
    /\ reg = [ok |-> TRUE, wires |-> [v \in Venues |-> None], seen |-> [c \in {} |-> None]]
    /\ durable = [inventory |-> [ok |-> TRUE, ingested |-> {}, inventory |-> inventory],
                  orders |-> [c \in Cids |-> [ok |-> TRUE, row |-> orders[c]]],
                  reg |-> reg]
    /\ pos = 0
    /\ round = None
    /\ venue = Versioned([cid |-> first, size |-> Qty, fills |-> {},
                          status |-> "Resting", versions |-> {}])
    /\ action = None
    /\ ghost = [audited |-> {}, gapped |-> {}, rounds |-> 0]

Recorded(d, r) ==
    [inventory |-> RebuildInventory(d.inventory, r),
     orders |-> IF r.order.changed
                THEN [d.orders EXCEPT ![r.order.cid] = RebuildOrder(@, r.order)]
                ELSE d.orders,
     reg |-> FoldTransaction(d.reg, r)]

\* A record of observation.rs that only the registry folds.
CommitFold(op(_)) ==
    /\ reg' = op(reg)
    /\ durable' = [durable EXCEPT !.reg = op(@)]
    /\ UNCHANGED <<orders, inventory>>

-----------------------------------------------------------------------------
(* The shell: own actions                                                  *)

SendDecrease(n) ==
    /\ action = None
    /\ current(Ws) # None /\ n < venue.size
    /\ action' = [old |-> current(Ws), new |-> None, size |-> n,
                  applied |-> FALSE, rests |-> 0, bound |-> TRUE, observed |-> FALSE]
    /\ UNCHANGED <<local, venue>>

\* The lineage is durable before the amend is sent.
SendAmend(c, n) ==
    LET l == Lineage(current(Ws), c, Ws.generation, "HttpPending", n)
        fold(r) == FoldLineage(r, wire, l)
    IN /\ action = None
       /\ orders[c].ctx.venue_order_id = None /\ current(Ws) # None
       /\ LineageAdmitted(Ws, l)
       /\ CommitFold(fold)
       /\ action' = [old |-> current(Ws), new |-> c, size |-> n,
                     applied |-> FALSE, rests |-> 0, bound |-> FALSE, observed |-> FALSE]
       /\ UNCHANGED <<pos, round, ghost, venue>>

\* The venue refuses, definitely: the lineage is withdrawn.
ActionRefused ==
    LET fold(r) == IF action.new = None THEN r ELSE FoldLineage(r, wire, None)
    IN /\ action # None /\ ~ action.applied
       /\ CommitFold(fold)
       /\ action' = None
       /\ UNCHANGED <<pos, round, ghost, venue>>

\* The phases after HttpPending: the answer came, was lost, or REST is asked.
LineagePhase ==
    \E phase \in {"AppliedNeedsObservation", "Unknown", "RestDue"} :
      LET l == [Ws.amend_lineage EXCEPT !.phase = phase]
          fold(r) == FoldLineage(r, wire, l)
      IN /\ Ws.amend_lineage # None /\ Ws.amend_lineage.phase # phase
         /\ LineageAdmitted(Ws, l)
         /\ CommitFold(fold)
         /\ UNCHANGED <<pos, round, ghost, remote>>

-----------------------------------------------------------------------------
(* The shell: frames, holds and proofs                                     *)

UserOrderReceived ==
    \E e \in venue.versions :
      LET fold(r) == FoldFrame(r, wire, pos, e)
      IN /\ pos < MaxPos
         /\ reg.wires[wire] # None
         /\ FrameAdmitted(Ws, e)
         /\ CommitFold(fold)
         /\ pos' = pos + 1
         /\ UNCHANGED <<round, ghost, remote>>

\* A channel gap or a conflicting version withdraws the working authority.
OrderAuthorityHold ==
    LET fold(r) == FoldHold(r, wire, pos)
    IN /\ pos < MaxPos
       /\ CommitFold(fold)
       /\ pos' = pos + 1
       /\ ghost' = IF Ws.generation > 0 /\ Ws.amend_lineage = None
                   THEN [ghost EXCEPT !.gapped = @ \cup {Ws.generation}] ELSE ghost
       /\ UNCHANGED <<round, remote>>

ProofCommitted(after) ==
    LET fold(r) == FoldProof(r, wire, after)
    IN /\ after # None /\ after # Ws
       /\ CommitFold(fold)
       /\ UNCHANGED <<pos, round, ghost, remote>>

apply_order_state_resting == ProofCommitted(prepare_order_state_resting(Ws, inventory))

apply_rest_order_proof ==
    \E s \in venue.versions :
      ProofCommitted(prepare_rest_order_proof(Ws, inventory, s.cid, s.filled,
                                              s.remaining, s.initial))

-----------------------------------------------------------------------------
(* The shell: observation rounds                                           *)

RoundBegin ==
    /\ round = None /\ ghost.rounds < MaxRounds
    /\ round' = [data |-> begin(Ws), since |-> pos]
    /\ ghost' = [ghost EXCEPT !.rounds = @ + 1]
    /\ UNCHANGED <<orders, inventory, reg, durable, pos, remote>>

RoundPage(complete) ==
    /\ round # None /\ round.data.page = None
    /\ round' = [round EXCEPT !.data.page = complete]
    /\ UNCHANGED <<orders, inventory, reg, durable, pos, ghost, remote>>

\* A REST row of some version of the order.
RowOf(s) ==
    [filled |-> s.filled, remaining |-> s.remaining,
     status |-> CASE s.status = "Canceled" -> "Canceled"
                  [] s.status = "Executed" -> "Filled"
                  [] OTHER -> IF s.filled = 0 THEN "Open" ELSE "Partial"]

\* finish and apply; the record is also what the rebuilds read.
Finished(t) ==
    LET rebuilt(c, d) == LET m == {x \in t.members_after : x.cid = c}
                         IN IF m = {} THEN d ELSE RebuildOrder(d, CHOOSE x \in m : TRUE)
    IN /\ orders' = apply_rows(t, orders)
       /\ reg' = [reg EXCEPT !.wires[wire] = t.wire_after]
       /\ durable' = [durable EXCEPT
                        !.orders = [c \in Cids |-> rebuilt(c, @[c])],
                        !.reg = FoldObservation(@, t)]
       /\ ghost' = IF t.outcome \in Consistents
                   THEN [ghost EXCEPT !.audited = Ws.held] ELSE ghost

RoundFinish ==
    /\ round # None
    /\ \A c \in non_terminal_cids(Ws) : orders[c].seq < MaxSeq
    /\ \E s \in venue.versions :
         \E t \in {finish(wire, Ws, inventory, orders, round.data, RowOf(s))} :
            IF t # None THEN Finished(t)
            ELSE UNCHANGED <<orders, reg, durable, ghost>>
    /\ round' = None
    /\ UNCHANGED <<inventory, pos, remote>>

-----------------------------------------------------------------------------
(* The shell: transactions of execution.rs                                 *)

\* An input the shell may process now; a is the own action left in flight, and
\* paged says that the outcome goes to the open round.
Offer(input, a, paged) == [input |-> input, action |-> a, paged |-> paged]

CreateAnswered == {Offer(OrderInput(first, "SubmitResponse", Response0(Qty)), action, FALSE)}

\* An execution is delivered with its wire, and routed by it, or without.
Delivered(f, v) ==
    FillInput(IF v = None THEN None ELSE route(reg.wires, wire, f, inventory), E(f, v))
FillDelivered ==
    UNION {{Offer(Delivered(f, v), action, FALSE) : f \in venue.fills} : v \in Deliveries}

\* A fill of the page is ingested, and its outcome recorded.
FillPaged ==
    IF round = None \/ round.data.page # None THEN {}
    ELSE {Offer(Delivered(f, wire), action, TRUE) : f \in venue.fills \ round.data.ids}

\* Once both parts of the answer are in, nothing is in flight.
InFlight(a) == IF a.bound /\ a.observed THEN None ELSE a

\* The successor is bound to the wire by the amend's answer.
AmendBound ==
    IF action = None \/ ~ action.applied \/ action.bound THEN {}
    ELSE {Offer(OrderInput(action.new, "SubmitResponse", Response0(action.rests)),
                InFlight([action EXCEPT !.bound = TRUE]), FALSE)}

\* DecreaseObserved / AmendObserved, before or after the bind.
ActionObserved ==
    IF action = None \/ ~ action.applied \/ action.observed THEN {}
    ELSE {Offer(OrderInput(c, "OwnAction", None),
                InFlight([action EXCEPT !.observed = TRUE]), FALSE) :
            c \in {action.old, action.new} \ {None}}

\* The terminal frame is claimed for its order.
TerminalClaimed ==
    LET e == Ws.latest_user_order IN
    IF e = None \/ e.status \notin {"Canceled", "Executed"} THEN {}
    ELSE {Offer(OrderInput(e.cid, "UserOrderTerminalClaim",
                  [venue |-> wire, filled |-> e.filled, executed |-> e.status = "Executed"]),
                action, FALSE)}

Offers == CreateAnswered \cup FillDelivered \cup FillPaged \cup AmendBound
          \cup ActionObserved \cup TerminalClaimed

\* The record may be written again when the acknowledgement of the append was
\* lost, if it is an order record.
Commit(t) ==
    /\ orders' = RowsAfter(t, orders)
    /\ inventory' = InventoryAfter(t, inventory)
    /\ reg' = FoldTransaction(reg, t.record)
    /\ \E once \in {Recorded(durable, t.record)} :
         \/ durable' = once
         \/ t.input.kind = "order" /\ durable' = Recorded(once, t.record)

\* A transaction without a record changes nothing; in a round its outcome counts.
Transact ==
    \E o \in Offers : \E t \in {Prepared(o.input, orders, inventory)} :
      /\ t.changed => t.after.seq <= MaxSeq
      /\ o.input.page # <<>> => inventory.generation < MaxGeneration
      /\ IF t.record # None THEN Commit(t)
         ELSE o.paged /\ UNCHANGED <<orders, inventory, reg, durable>>
      /\ round' = IF o.paged THEN [round EXCEPT !.data = record(@, t.executions[1])]
                  ELSE round
      /\ action' = o.action
      /\ UNCHANGED <<pos, ghost, venue>>

-----------------------------------------------------------------------------
\* A crash loses the memory and the open round.
Restart ==
    /\ durable.inventory.ok /\ durable.reg.ok /\ \A c \in Cids : durable.orders[c].ok
    /\ orders' = [c \in Cids |-> durable.orders[c].row]
    /\ inventory' = durable.inventory.inventory
    /\ reg' = durable.reg
    /\ round' = None
    /\ UNCHANGED <<durable, pos, ghost, remote>>

Next ==
    \/ \E f \in FillIds : VenueFill(f)
    \/ VenueCancel \/ VenueApply
    \/ Transact
    \/ \E n \in Decreases : SendDecrease(n)
    \/ \E n \in Amends, c \in Cids : SendAmend(c, n)
    \/ ActionRefused \/ LineagePhase
    \/ UserOrderReceived \/ OrderAuthorityHold
    \/ apply_order_state_resting \/ apply_rest_order_proof
    \/ RoundBegin \/ RoundFinish \/ \E complete \in BOOLEAN : RoundPage(complete)
    \/ Restart

Spec == Init /\ [][Next]_vars

-----------------------------------------------------------------------------
(* Properties                                                              *)

\* The working remaining that a strategy reads (member_working_view) is the
\* venue's remaining, once the executions held are all of the venue's, no own
\* action is in flight and the order still rests: however late, repeated or out
\* of order its frames, rows, pages and answers came, across amends and
\* decreases.
KnownIsTrue ==
    \A c \in Cids :
      LET k == member_working_view(reg.wires, c) IN
      (k # None /\ action = None /\ Ws.held = venue.fills /\ venue.status = "Resting")
        => k = Remaining(venue)

\* The orders of a wire all end (their reservations are released) only after the
\* venue's order has ended and every execution of it has been ingested.
SettledIsComplete ==
    (/\ Ws.members # <<>> /\ action = None
     /\ \A c \in MemberCids(Ws) : orders[c].state.kind \in Terminals)
    => venue.status # "Resting" /\ Ws.held = venue.fills

\* The registry and the rows agree: an order is a member of the wire it is bound
\* to and of no other, a member is Terminal exactly when its row has ended, and
\* of the others the last one bound is Current.
RolesMirrorRows ==
    /\ \A c \in Cids : c \in MemberCids(Ws) <=> orders[c].ctx.venue_order_id = wire
    /\ \A i \in DOMAIN Ws.members :
         LET m == Ws.members[i] IN
         m.role = IF is_terminal_state(orders[m.cid].state) THEN "Terminal"
                  ELSE IF i = Len(Ws.members) THEN "Current" ELSE "Superseded"

\* A wire holds exactly the executions the inventory has under its venue id,
\* whether the id came with the first report or with a later one.
HeldIsInventory ==
    Ws.held = {f \in FillIds : inventory.entries[f] # None
                               /\ inventory.entries[f].venue = wire}

\* Ready means explained: every execution that no order owns was covered by a
\* consistent round after it was ingested.
ReadyIsAudited ==
    readiness(reg.wires, inventory) = "Ready" =>
      \A f \in Ws.held : inventory.entries[f].owner = None => f \in ghost.audited

\* "An amended generation is never re-proved resting after a gap"
\* (observation.rs:1460): once authority is withdrawn from a generation whose
\* lineage was settled, no frame, round or proof makes it Known again.
GapNeverReproved == working_view(Ws) # None => Ws.generation \notin ghost.gapped

\* A restart at any point gives the rows, the inventory and the registry of the
\* memory, although order records may have been written twice.
RebuildIsMemory ==
    /\ durable.inventory.ok /\ durable.reg.ok
    /\ durable.reg = reg
    /\ durable.inventory.inventory = inventory
    /\ \A c \in Cids : durable.orders[c].ok /\ durable.orders[c].row = orders[c]

\* What a wire has learnt is never unlearnt: its generation, its executions, the
\* filled high-water mark, a terminal status and a Terminal role stay.
WireKept ==
    [][LET new == Wire(reg'.wires, wire) IN
       /\ new.generation >= Ws.generation
       /\ Ws.held \subseteq new.held
       /\ new.filled_hw >= Ws.filled_hw
       /\ Ws.status \in {"Filled", "Canceled"} => new.status = Ws.status
       /\ \A i \in DOMAIN Ws.members :
            /\ new.members[i].cid = Ws.members[i].cid
            /\ Ws.members[i].role = "Terminal" => new.members[i].role = "Terminal"]_vars

\* "A REST round captured before another hold must not clear that newer
\* obligation" (observation.rs:71): a round that was begun before the hold was
\* journalled leaves it in place.
OldRoundKeepsHold ==
    [][(RoundFinish /\ Ws.authority_hold /\ round.since < Ws.authority_hold_revision)
         => Wire(reg'.wires, wire).authority_hold]_vars
=============================================================================
