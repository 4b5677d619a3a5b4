-------------------------- MODULE ObservationProofs --------------------------
(***************************************************************************)
(* The wire of Observation, for any orders, executions and venue ids.      *)
(*                                                                         *)
(* Every operation on the state of a wire keeps what is true of a wire     *)
(* alone (WireInv); what relates it to the rows, to the inventory and to   *)
(* the rounds and holds of the past is kept by each action of the shell.   *)
(* The memory and what the journal restores stay equal, so a restart       *)
(* changes nothing but the open round.                                     *)
(***************************************************************************)
EXTENDS Observation, TransactionsProofs

-----------------------------------------------------------------------------
(* A wire alone                                                            *)

\* Each order is a member once, and only the last one may be Current.
MembersInv(ms) ==
    /\ ms \in Seq(Memberships)
    /\ \A i, j \in DOMAIN ms : ms[i].cid = ms[j].cid => i = j
    /\ \A i \in DOMAIN ms : ms[i].role = "Current" <=> ms[i].role # "Terminal" /\ i = Len(ms)

\* What is true of a wire alone: a wire with members is Scoped.
WireInv(ws) ==
    /\ ws \in WireState
    /\ MembersInv(ws.members)
    /\ ws.members = <<>> <=> ws.kind = "VenueOnly"

\* What a wire has learnt stays, see WireKept.
Learns(ws, new) ==
    /\ new.generation >= ws.generation
    /\ ws.held \subseteq new.held
    /\ new.filled_hw >= ws.filled_hw
    /\ ws.status \in {"Filled", "Canceled"} => new.status = ws.status
    /\ \A i \in DOMAIN ws.members :
         /\ i \in DOMAIN new.members
         /\ new.members[i].cid = ws.members[i].cid
         /\ ws.members[i].role = "Terminal" => new.members[i].role = "Terminal"

\* The fields of a wire have their types.
LEMMA WireFields ==
  ASSUME NEW ws, WireInv(ws)
  PROVE  /\ MembersInv(ws.members)
         /\ ws.held \subseteq FillIds /\ ws.filled_hw \in Nat
         /\ ws.generation \in 0..U64Max /\ ws.generation \in Nat /\ U64Max \in Nat
         /\ ws.tracked \in BOOLEAN /\ ws.resolved \in BOOLEAN /\ ws.authority_hold \in BOOLEAN
         /\ ws.status \in RowStatus /\ ws.kind \in {"VenueOnly", "Scoped"}
         /\ ws.proved_current_cid \in Opt(Cids)
         /\ ws.amend_lineage \in Opt(AmendLineage)
         /\ ws.latest_user_order \in Opt(UserOrderEvidence)
  BY QtyAssumption DEF WireInv, WireState

\* The members as a sequence.
LEMMA MembersSeq ==
  ASSUME NEW ms, MembersInv(ms)
  PROVE  /\ Len(ms) \in Nat /\ DOMAIN ms = 1..Len(ms)
         /\ \A i \in DOMAIN ms : /\ ms[i] = [cid |-> ms[i].cid, role |-> ms[i].role]
                                 /\ ms[i].cid \in Cids /\ ms[i].role \in Roles
         /\ ms = <<>> <=> Len(ms) = 0
  <1>1. /\ Len(ms) \in Nat /\ DOMAIN ms = 1..Len(ms) /\ ms \in Seq(Memberships)
    BY DEF MembersInv
  <1>2. ASSUME NEW i \in DOMAIN ms
        PROVE  /\ ms[i] = [cid |-> ms[i].cid, role |-> ms[i].role]
               /\ ms[i].cid \in Cids /\ ms[i].role \in Roles
    <2>1. ms[i] \in Memberships
      BY <1>1
    <2> QED BY <2>1 DEF Memberships
  <1>3. ms = <<>> <=> Len(ms) = 0
    BY <1>1
  <1> QED BY <1>1, <1>2, <1>3

\* The wire before anything is known of it.
LEMMA VenueOnlyInv == WireInv(venue_only) /\ MemberCids(venue_only) = {}
  <1>1. venue_only.members = <<>> /\ venue_only.kind = "VenueOnly"
    BY DEF venue_only
  <1>2. venue_only \in WireState
    BY QtyAssumption DEF venue_only, WireState, Roles, RowStatus, Opt
  <1> QED BY <1>1, <1>2 DEF WireInv, MembersInv, MemberCids

\* Members that keep their places, some of them retired.
Retires(ms, new, S) ==
    /\ DOMAIN new = DOMAIN ms /\ Len(new) = Len(ms)
    /\ \A i \in DOMAIN ms :
         /\ new[i].cid = ms[i].cid
         /\ new[i].role = IF ms[i].cid \in S THEN "Terminal" ELSE ms[i].role

\* WithRole retires members and touches nothing else.
LEMMA WithRoleInv ==
  ASSUME NEW ws, WireInv(ws), NEW S
  PROVE  LET new == WithRole(ws, S, "Terminal")
         IN /\ WireInv(new) /\ Retires(ws.members, new.members, S)
            /\ new = [ws EXCEPT !.members = new.members]
  <1> DEFINE ms == ws.members
             new == [i \in DOMAIN ms |-> IF ms[i].cid \in S THEN Member(ms[i].cid, "Terminal")
                                         ELSE ms[i]]
             x == WithRole(ws, S, "Terminal")
  <1>1. MembersInv(ms) /\ ws \in WireState
    BY DEF WireInv
  <1>2. /\ Len(ms) \in Nat /\ DOMAIN ms = 1..Len(ms)
        /\ \A i \in DOMAIN ms : /\ ms[i] = [cid |-> ms[i].cid, role |-> ms[i].role]
                                /\ ms[i].cid \in Cids /\ ms[i].role \in Roles
        /\ ms = <<>> <=> Len(ms) = 0
    BY <1>1, MembersSeq
  <1>3. x = [ws EXCEPT !.members = new]
    BY DEF WithRole
  <1> HIDE DEF ms
  <1>4. /\ DOMAIN new = 1..Len(ms)
        /\ \A i \in DOMAIN ms :
             /\ new[i] \in Memberships
             /\ new[i].cid = ms[i].cid
             /\ new[i].role = IF ms[i].cid \in S THEN "Terminal" ELSE ms[i].role
    BY <1>2 DEF Member, Roles, Memberships
  <1> HIDE DEF new
  <1>5. new \in Seq(Memberships) /\ Len(new) = Len(ms)
    <2>1. new = [i \in 1..Len(ms) |-> new[i]]
      BY <1>4 DEF new
    <2>2. new \in [1..Len(ms) -> Memberships]
      BY <1>2, <1>4, <2>1
    <2>3. new \in Seq(Memberships)
      BY <1>2, <2>2, SeqDef
    <2>4. Len(new) \in Nat /\ DOMAIN new = 1..Len(new)
      BY <2>3
    <2> QED BY <1>2, <1>4, <2>3, <2>4
  <1>6. Retires(ms, new, S)
    BY <1>2, <1>4, <1>5 DEF Retires
  <1>7. MembersInv(new)
    BY <1>1, <1>2, <1>4, <1>5 DEF MembersInv
  <1>8. x.members = new /\ x.kind = ws.kind /\ x \in WireState
    BY <1>1, <1>3, <1>5 DEF WireState
  <1>9. new = <<>> <=> ms = <<>>
    BY <1>2, <1>5, <1>7, MembersSeq
  <1>10. WireInv(x)
    BY <1>7, <1>8, <1>9 DEF WireInv, ms
  <1> QED BY <1>3, <1>6, <1>8, <1>10 DEF ms

\* The current order is a member that has not ended.
LEMMA CurrentMember ==
  ASSUME NEW ws, WireInv(ws), current(ws) # None
  PROVE  /\ current(ws) \in non_terminal_cids(ws) /\ current(ws) \in Cids
         /\ current(ws) \in MemberCids(ws)
  <1> DEFINE S == MembersIn(ws, {"Current"})
             n == Len(ws.members)
  <1>1. /\ n \in Nat /\ DOMAIN ws.members = 1..n
        /\ \A i \in DOMAIN ws.members : ws.members[i].cid \in Cids /\ ws.members[i].role \in Roles
        /\ \A i \in DOMAIN ws.members : ws.members[i].role = "Current" => i = n
    BY MembersSeq DEF WireInv, MembersInv
  <1>2. S # {} /\ current(ws) = ws.members[CHOOSE i \in S : \A j \in S : i <= j].cid
    BY DEF current
  <1>3. S = {n}
    BY <1>1, <1>2 DEF MembersIn
  <1>4. (CHOOSE i \in S : \A j \in S : i <= j) = n
    BY <1>1, <1>3
  <1>5. n \in DOMAIN ws.members /\ ws.members[n].role = "Current"
    BY <1>3 DEF MembersIn
  <1> HIDE DEF S
  <1>6. current(ws) = ws.members[n].cid
    BY <1>2, <1>4
  <1> HIDE DEF n
  <1>7. n \in MembersIn(ws, Roles \ {"Terminal"})
    BY <1>5 DEF MembersIn, Roles
  <1> QED BY <1>1, <1>5, <1>6, <1>7 DEF non_terminal_cids, MemberCids

\* The members that have not ended, and the current one, depend on the members.
LEMMA SameMembers ==
  ASSUME NEW ws, NEW new, new.members = ws.members
  PROVE  /\ MemberCids(new) = MemberCids(ws) /\ current(new) = current(ws)
         /\ non_terminal_cids(new) = non_terminal_cids(ws)
  BY DEF MemberCids, current, non_terminal_cids, MembersIn

\* Retiring takes no member away and lets none come back.
LEMMA RetiredMembers ==
  ASSUME NEW ws, NEW new, NEW S, Retires(ws.members, new.members, S)
  PROVE  /\ MemberCids(new) = MemberCids(ws)
         /\ non_terminal_cids(new) = non_terminal_cids(ws) \ S
  <1>1. MemberCids(new) = MemberCids(ws)
    BY DEF MemberCids, Retires
  <1>2. \A i \in DOMAIN ws.members :
          i \in MembersIn(new, Roles \ {"Terminal"})
            <=> i \in MembersIn(ws, Roles \ {"Terminal"}) /\ ws.members[i].cid \notin S
    BY DEF Retires, MembersIn
  <1>3. \A c : c \in non_terminal_cids(new) <=> c \in non_terminal_cids(ws) \ S
    <2>1. /\ \A i \in MembersIn(new, Roles \ {"Terminal"}) :
               i \in DOMAIN ws.members /\ new.members[i].cid = ws.members[i].cid
          /\ \A i \in MembersIn(ws, Roles \ {"Terminal"}) :
               i \in DOMAIN ws.members /\ new.members[i].cid = ws.members[i].cid
      BY DEF Retires, MembersIn
    <2> QED BY <1>2, <2>1 DEF non_terminal_cids
  <1> QED BY <1>1, <1>3

\* A wire that keeps its members and learns nothing new about them.
LEMMA LearnsSame ==
  ASSUME NEW ws, WireInv(ws), NEW new, new.members = ws.members,
         new.generation = ws.generation, new.held = ws.held,
         new.filled_hw = ws.filled_hw, new.status = ws.status
  PROVE  Learns(ws, new)
  <1>1. ws.generation \in Nat /\ ws.filled_hw \in Nat
    BY WireFields
  <1> QED BY <1>1 DEF Learns
-----------------------------------------------------------------------------
(* The operations on a wire that an order record stands for                *)

\* Nothing on the wire waits for a round to explain it.
Explained(ws) == IF ws.kind = "VenueOnly" THEN ws.resolved ELSE ~ ws.tracked

\* Of the generations that lost their authority: a lineage that is open began
\* after them, and only an order that has ended may still be proved in one
\* without a hold.
GapInv(ws, gapped) ==
    /\ \A g \in gapped : g \in Nat /\ 1 <= g /\ g <= ws.generation
    /\ ws.amend_lineage # None => \A g \in gapped : g <= ws.amend_lineage.pre_generation
    /\ ws.remaining_observation # None /\ ws.generation > 0 => ws.proved_current_cid # None
    /\ ws.proved_current_cid # None =>
         /\ ws.proved_current_cid \in MemberCids(ws)
         /\ ws.generation \in gapped /\ ~ ws.authority_hold
              => ws.proved_current_cid \notin non_terminal_cids(ws)

\* A change of the wire that no execution made.
Moves(ws, new) ==
    /\ WireInv(new) /\ Learns(ws, new) /\ new.held = ws.held
    /\ \A gapped : GapInv(ws, gapped) => GapInv(new, gapped)
    /\ Explained(new) => Explained(ws) \/ ws.held = {}

\* No change is one, and two make one.
LEMMA MovesReflexive ==
  ASSUME NEW ws, WireInv(ws)
  PROVE  Moves(ws, ws)
  BY LearnsSame DEF Moves

LEMMA LearnsTransitive ==
  ASSUME NEW a, WireInv(a), NEW b, WireInv(b), NEW c, WireInv(c), Learns(a, b), Learns(b, c)
  PROVE  Learns(a, c)
  <1>1. /\ a.generation \in Nat /\ b.generation \in Nat /\ c.generation \in Nat
        /\ a.filled_hw \in Nat /\ b.filled_hw \in Nat /\ c.filled_hw \in Nat
    BY WireFields
  <1>2. /\ c.generation >= a.generation /\ c.filled_hw >= a.filled_hw
        /\ a.held \subseteq c.held
        /\ a.status \in {"Filled", "Canceled"} => c.status = a.status
    BY <1>1 DEF Learns
  <1>3. \A i \in DOMAIN a.members :
          /\ i \in DOMAIN c.members
          /\ c.members[i].cid = a.members[i].cid
          /\ a.members[i].role = "Terminal" => c.members[i].role = "Terminal"
    BY DEF Learns
  <1> QED BY <1>2, <1>3 DEF Learns

LEMMA MovesTransitive ==
  ASSUME NEW a, WireInv(a), NEW b, NEW c, Moves(a, b), Moves(b, c)
  PROVE  Moves(a, c)
  <1>1. Learns(a, c)
    BY LearnsTransitive DEF Moves
  <1> QED BY <1>1 DEF Moves

\* Retiring members.
LEMMA RetireMoves ==
  ASSUME NEW ws, WireInv(ws), NEW S
  PROVE  Moves(ws, WithRole(ws, S, "Terminal"))
  <1> DEFINE new == WithRole(ws, S, "Terminal")
  <1>1. /\ WireInv(new) /\ Retires(ws.members, new.members, S)
        /\ new = [ws EXCEPT !.members = new.members]
    BY WithRoleInv
  <1> HIDE DEF new
  <1>2. /\ new.generation = ws.generation /\ new.held = ws.held
        /\ new.filled_hw = ws.filled_hw /\ new.status = ws.status
        /\ new.amend_lineage = ws.amend_lineage
        /\ new.remaining_observation = ws.remaining_observation
        /\ new.proved_current_cid = ws.proved_current_cid
        /\ new.authority_hold = ws.authority_hold
        /\ new.kind = ws.kind /\ new.tracked = ws.tracked /\ new.resolved = ws.resolved
    BY <1>1 DEF WireInv, WireState
  <1>3. Learns(ws, new)
    <2>1. ws.generation \in Nat /\ ws.filled_hw \in Nat
      BY WireFields
    <2> QED BY <1>1, <1>2, <2>1 DEF Learns, Retires
  <1>4. /\ MemberCids(new) = MemberCids(ws)
        /\ non_terminal_cids(new) = non_terminal_cids(ws) \ S
    BY <1>1, RetiredMembers
  <1>5. ASSUME NEW gapped, GapInv(ws, gapped)
        PROVE  GapInv(new, gapped)
    BY <1>2, <1>4, <1>5 DEF GapInv
  <1> QED BY <1>1, <1>2, <1>3, <1>5 DEF Moves, Explained, new

\* The members with a new one, the only one that may be Current.
Joins(ms, new, c) ==
    /\ Len(new) = Len(ms) + 1 /\ DOMAIN new = 1..(Len(ms) + 1)
    /\ \A i \in DOMAIN ms : /\ i \in DOMAIN new /\ i # Len(ms) + 1
                            /\ new[i].cid = ms[i].cid
                            /\ new[i].role = IF ms[i].role = "Terminal" THEN "Terminal"
                                             ELSE "Superseded"
    /\ new[Len(ms) + 1].cid = c /\ new[Len(ms) + 1].role = "Current"

\* A new member is appended; the others are demoted.
LEMMA BindJoins ==
  ASSUME NEW ws, WireInv(ws), NEW c \in Cids, c \notin MemberCids(ws)
  PROVE  LET new == bind_member(ws, c)
         IN /\ MembersInv(new.members) /\ new.members # <<>>
            /\ Joins(ws.members, new.members, c)
            /\ new = [ws EXCEPT !.kind = "Scoped", !.members = new.members,
                                !.tracked = IF ws.members = <<>> THEN InheritsTracking(ws)
                                            ELSE ws.tracked]
  <1> DEFINE ms == ws.members
             demoted == [i \in DOMAIN ms |-> IF ms[i].role = "Terminal" THEN ms[i]
                                             ELSE Member(ms[i].cid, "Superseded")]
             more == Append(demoted, Member(c, "Current"))
             n == Len(ms)
  <1>1. /\ n \in Nat /\ DOMAIN ms = 1..n
        /\ \A i \in DOMAIN ms : /\ ms[i] = [cid |-> ms[i].cid, role |-> ms[i].role]
                                /\ ms[i].cid \in Cids /\ ms[i].role \in Roles
    BY MembersSeq DEF WireInv
  <1>2. /\ \A i, j \in DOMAIN ms : ms[i].cid = ms[j].cid => i = j
        /\ \A i \in DOMAIN ms : ms[i].cid # c
    BY DEF WireInv, MembersInv, MemberCids
  <1>3. bind_member(ws, c) = [ws EXCEPT !.kind = "Scoped", !.members = more,
                                        !.tracked = IF ws.members = <<>> THEN InheritsTracking(ws)
                                                    ELSE ws.tracked]
    BY DEF bind_member
  <1> HIDE DEF ms, n
  <1>4. /\ DOMAIN demoted = 1..n
        /\ \A i \in DOMAIN ms :
             /\ demoted[i] \in Memberships /\ demoted[i].cid = ms[i].cid
             /\ demoted[i].role = IF ms[i].role = "Terminal" THEN "Terminal" ELSE "Superseded"
    BY <1>1 DEF Member, Roles, Memberships
  <1>5. demoted \in Seq(Memberships)
    <2>1. demoted \in [1..n -> Memberships]
      BY <1>1, <1>4
    <2> HIDE DEF demoted
    <2> QED BY <1>1, <2>1, SeqDef
  <1>6. Member(c, "Current") \in Memberships /\ Member(c, "Current").cid = c
        /\ Member(c, "Current").role = "Current"
    BY DEF Member, Memberships, Roles
  <1> HIDE DEF demoted
  <1>7. Len(demoted) = n
    <2>1. Len(demoted) \in Nat /\ DOMAIN demoted = 1..Len(demoted)
      BY <1>5
    <2> QED BY <1>1, <1>4, <2>1
  <1>8. /\ more \in Seq(Memberships) /\ Len(more) = n + 1 /\ DOMAIN more = 1..(n + 1)
        /\ more[n + 1] = Member(c, "Current")
        /\ \A i \in 1..n : more[i] = demoted[i]
    BY <1>1, <1>5, <1>6, <1>7
  <1> HIDE DEF more
  <1>9. Joins(ms, more, c)
    <2>1. ASSUME NEW i \in DOMAIN ms
          PROVE  i \in DOMAIN more /\ i # n + 1 /\ more[i] = demoted[i]
      BY <1>1, <1>8
    <2> QED BY <1>4, <1>6, <1>8, <2>1 DEF Joins, n
  <1>10. MembersInv(more)
    <2>1. \A i \in 1..(n + 1) : i = n + 1 \/ i \in 1..n
      BY <1>1
    <2>2. ASSUME NEW i \in DOMAIN more, NEW j \in DOMAIN more, more[i].cid = more[j].cid
          PROVE  i = j
      <3>1. \A k \in 1..n : more[k].cid = ms[k].cid /\ more[k].cid # c
        BY <1>1, <1>2, <1>4, <1>8
      <3>2. more[n + 1].cid = c
        BY <1>6, <1>8
      <3> QED BY <1>1, <1>2, <1>8, <2>1, <2>2, <3>1, <3>2
    <2>3. ASSUME NEW i \in DOMAIN more
          PROVE  more[i].role = "Current" <=> more[i].role # "Terminal" /\ i = n + 1
      <3>1. \A k \in 1..n : more[k].role # "Current" /\ k # n + 1
        BY <1>1, <1>4, <1>8
      <3>2. more[n + 1].role = "Current"
        BY <1>6, <1>8
      <3> QED BY <1>1, <1>8, <2>1, <3>1, <3>2
    <2> QED BY <1>8, <2>2, <2>3 DEF MembersInv
  <1>11. more # <<>>
    BY <1>1, <1>8, <1>10, MembersSeq
  <1>12. bind_member(ws, c).members = more
    BY <1>3 DEF WireInv, WireState
  <1> QED BY <1>3, <1>9, <1>10, <1>11, <1>12 DEF ms

\* The wire after an order record that binds B and retires D.
Refolds(ws, new, B, D) ==
    /\ Moves(ws, new)
    /\ MemberCids(new) = MemberCids(ws) \cup B
    /\ non_terminal_cids(new) = (non_terminal_cids(ws) \cup B) \ D
    /\ new.proved_current_cid \in {ws.proved_current_cid, None}

LEMMA RefoldsReflexive ==
  ASSUME NEW ws, WireInv(ws)
  PROVE  Refolds(ws, ws, {}, {})
  BY MovesReflexive DEF Refolds

LEMMA RefoldsTransitive ==
  ASSUME NEW a, WireInv(a), NEW b, NEW c, NEW B, NEW D, NEW F,
         Refolds(a, b, B, D), Refolds(b, c, {}, F)
  PROVE  Refolds(a, c, B, D \cup F)
  <1>1. Moves(a, c)
    BY MovesTransitive DEF Refolds
  <1> QED BY <1>1 DEF Refolds

\* The members of a wire that c has joined.
LEMMA JoinedMembers ==
  ASSUME NEW ws, WireInv(ws), NEW new, NEW c, Joins(ws.members, new.members, c)
  PROVE  /\ MemberCids(new) = MemberCids(ws) \cup {c}
         /\ non_terminal_cids(new) = non_terminal_cids(ws) \cup {c}
  <1> DEFINE ms == ws.members
             n == Len(ms)
  <1>1. n \in Nat /\ DOMAIN ms = 1..n /\ \A i \in DOMAIN ms : ms[i].role \in Roles
    BY MembersSeq DEF WireInv
  <1>2. /\ DOMAIN new.members = 1..(n + 1)
        /\ \A i \in 1..n : /\ i \in DOMAIN new.members /\ i # n + 1
                           /\ new.members[i].cid = ms[i].cid
                           /\ new.members[i].role = IF ms[i].role = "Terminal" THEN "Terminal"
                                                    ELSE "Superseded"
        /\ new.members[n + 1].cid = c /\ new.members[n + 1].role = "Current"
    BY <1>1 DEF Joins
  <1>3. \A i \in 1..(n + 1) : i \in 1..n \/ i = n + 1
    BY <1>1
  <1>4. n + 1 \in 1..(n + 1)
    BY <1>1
  <1> DEFINE A == MembersIn(ws, Roles \ {"Terminal"})
             N == MembersIn(new, Roles \ {"Terminal"})
  <1>5. A = {i \in 1..n : ms[i].role \in Roles \ {"Terminal"}}
    BY <1>1 DEF MembersIn
  <1>6. N = {i \in 1..(n + 1) : new.members[i].role \in Roles \ {"Terminal"}}
    BY <1>2 DEF MembersIn
  <1>7. MemberCids(ws) = {ms[i].cid : i \in 1..n}
    BY <1>1 DEF MemberCids
  <1>8. MemberCids(new) = {new.members[i].cid : i \in 1..(n + 1)}
    BY <1>2 DEF MemberCids
  <1>9. /\ non_terminal_cids(ws) = {ms[i].cid : i \in A}
        /\ non_terminal_cids(new) = {new.members[i].cid : i \in N}
    BY DEF non_terminal_cids
  <1>10. /\ \A i \in 1..n : i \in N <=> i \in A
         /\ n + 1 \in N
    BY <1>1, <1>2, <1>3, <1>4, <1>5, <1>6 DEF Roles
  <1> HIDE DEF n, ms, A, N
  <1>11. MemberCids(new) = MemberCids(ws) \cup {c}
    BY <1>2, <1>3, <1>4, <1>7, <1>8
  <1>12. A \subseteq 1..n /\ N \subseteq 1..(n + 1)
    BY <1>5, <1>6
  <1>13. non_terminal_cids(new) = non_terminal_cids(ws) \cup {c}
    <2>1. ASSUME NEW x, x \in non_terminal_cids(new)
          PROVE  x \in non_terminal_cids(ws) \cup {c}
      <3>1. PICK i \in N : x = new.members[i].cid
        BY <1>9, <2>1
      <3>2. i = n + 1 \/ i \in 1..n
        BY <1>3, <1>12
      <3>3. i \in 1..n => i \in A /\ x = ms[i].cid
        BY <1>2, <1>10, <3>1
      <3> QED BY <1>2, <1>9, <3>1, <3>2, <3>3
    <2>2. \A i \in A : ms[i].cid \in non_terminal_cids(new)
      <3> SUFFICES ASSUME NEW i \in A
                   PROVE  ms[i].cid \in non_terminal_cids(new)
        OBVIOUS
      <3>1. i \in N /\ new.members[i].cid = ms[i].cid
        BY <1>2, <1>10, <1>12
      <3> QED BY <1>9, <3>1
    <2>3. c \in non_terminal_cids(new)
      BY <1>2, <1>9, <1>10
    <2> QED BY <1>9, <2>1, <2>2, <2>3
  <1> QED BY <1>11, <1>13

\* Binding a new member: what was never explained still waits.
LEMMA BindMoves ==
  ASSUME NEW ws, WireInv(ws), NEW c \in Cids, c \notin MemberCids(ws)
  PROVE  Refolds(ws, bind_member(ws, c), {c}, {})
  <1> DEFINE new == bind_member(ws, c)
  <1>1. /\ MembersInv(new.members) /\ new.members # <<>>
        /\ Joins(ws.members, new.members, c)
        /\ new = [ws EXCEPT !.kind = "Scoped", !.members = new.members,
                            !.tracked = IF ws.members = <<>> THEN InheritsTracking(ws)
                                        ELSE ws.tracked]
    BY BindJoins
  <1> HIDE DEF new
  <1>2. /\ new.generation = ws.generation /\ new.held = ws.held
        /\ new.filled_hw = ws.filled_hw /\ new.status = ws.status
        /\ new.amend_lineage = ws.amend_lineage
        /\ new.remaining_observation = ws.remaining_observation
        /\ new.proved_current_cid = ws.proved_current_cid
        /\ new.authority_hold = ws.authority_hold
        /\ new.kind = "Scoped" /\ new.resolved = ws.resolved
        /\ new.tracked = IF ws.members = <<>> THEN InheritsTracking(ws) ELSE ws.tracked
    BY <1>1 DEF WireInv, WireState
  <1>3. WireInv(new)
    <2>1. InheritsTracking(ws) \in BOOLEAN /\ new.members \in Seq(Memberships)
      BY <1>1 DEF InheritsTracking, MembersInv
    <2>2. new \in WireState
      BY <1>1, <2>1 DEF WireInv, WireState
    <2> QED BY <1>1, <1>2, <2>2 DEF WireInv
  <1>4. Learns(ws, new)
    <2>1. ws.generation \in Nat /\ ws.filled_hw \in Nat
      BY WireFields
    <2>2. \A i \in DOMAIN ws.members :
            /\ i \in DOMAIN new.members
            /\ new.members[i].cid = ws.members[i].cid
            /\ ws.members[i].role = "Terminal" => new.members[i].role = "Terminal"
      BY <1>1 DEF Joins
    <2> QED BY <1>2, <2>1, <2>2 DEF Learns
  <1>5. /\ MemberCids(new) = MemberCids(ws) \cup {c}
        /\ non_terminal_cids(new) = non_terminal_cids(ws) \cup {c}
    BY <1>1, JoinedMembers
  <1>6. ASSUME NEW gapped, GapInv(ws, gapped)
        PROVE  GapInv(new, gapped)
    BY <1>2, <1>5, <1>6 DEF GapInv
  <1>7. Explained(new) => Explained(ws) \/ ws.held = {}
    <2>1. ws.members = <<>> <=> ws.kind = "VenueOnly"
      BY DEF WireInv
    <2> QED BY <1>2, <2>1 DEF Explained, InheritsTracking
  <1> QED BY <1>2, <1>3, <1>4, <1>5, <1>6, <1>7 DEF Moves, Refolds, new

\* The wire of an order that acted: the next generation, nothing proved.
Bumped(ws) == [ws EXCEPT !.generation = SaturatingAdd(ws.generation, 1),
                         !.remaining_observation = None,
                         !.proved_current_cid = None]
LEMMA BumpMoves ==
  ASSUME NEW ws, WireInv(ws)
  PROVE  Refolds(ws, Bumped(ws), {}, {})
  <1> DEFINE new == Bumped(ws)
             g == SaturatingAdd(ws.generation, 1)
  <1>1. g \in 0..U64Max /\ g >= ws.generation
    BY WireFields, SatAdd
  <1> HIDE DEF g
  <1>2. new = [ws EXCEPT !.generation = g, !.remaining_observation = None,
                         !.proved_current_cid = None]
    BY DEF Bumped, g
  <1> HIDE DEF new
  <1>3. /\ new.generation = g /\ new.held = ws.held
        /\ new.filled_hw = ws.filled_hw /\ new.status = ws.status
        /\ new.amend_lineage = ws.amend_lineage
        /\ new.remaining_observation = None
        /\ new.proved_current_cid = None
        /\ new.members = ws.members /\ new \in WireState
        /\ new.kind = ws.kind /\ new.tracked = ws.tracked /\ new.resolved = ws.resolved
    BY <1>1, <1>2 DEF WireInv, WireState, Opt
  <1>4. WireInv(new)
    BY <1>3 DEF WireInv
  <1>5. ws.generation \in Nat /\ ws.filled_hw \in Nat /\ g \in Nat
    BY <1>1, WireFields
  <1>6. Learns(ws, new)
    BY <1>1, <1>3, <1>5 DEF Learns
  <1>7. ASSUME NEW gapped, GapInv(ws, gapped)
        PROVE  GapInv(new, gapped)
    BY <1>1, <1>3, <1>5, <1>7 DEF GapInv
  <1>8. /\ MemberCids(new) = MemberCids(ws)
        /\ non_terminal_cids(new) = non_terminal_cids(ws)
    BY <1>3, SameMembers
  <1> QED BY <1>3, <1>4, <1>6, <1>7, <1>8 DEF Moves, Refolds, Explained, new

\* Retiring, as a record does it.
LEMMA RetireRefolds ==
  ASSUME NEW ws, WireInv(ws), NEW S
  PROVE  Refolds(ws, WithRole(ws, S, "Terminal"), {}, S)
  <1> DEFINE new == WithRole(ws, S, "Terminal")
  <1>1. Moves(ws, new)
    BY RetireMoves
  <1>2. /\ Retires(ws.members, new.members, S)
        /\ new = [ws EXCEPT !.members = new.members]
    BY WithRoleInv
  <1> HIDE DEF new
  <1>3. new.proved_current_cid = ws.proved_current_cid
    BY <1>2 DEF WireInv, WireState
  <1> QED BY <1>1, <1>2, <1>3, RetiredMembers DEF Refolds, new

\* A hold is discharged when the order that was proved has ended.
LEMMA FreedMoves ==
  ASSUME NEW ws, WireInv(ws), ws.proved_current_cid \notin non_terminal_cids(ws)
  PROVE  Refolds(ws, [ws EXCEPT !.authority_hold = FALSE], {}, {})
  <1> DEFINE new == [ws EXCEPT !.authority_hold = FALSE]
  <1>1. /\ new.generation = ws.generation /\ new.held = ws.held
        /\ new.filled_hw = ws.filled_hw /\ new.status = ws.status
        /\ new.amend_lineage = ws.amend_lineage
        /\ new.remaining_observation = ws.remaining_observation
        /\ new.proved_current_cid = ws.proved_current_cid
        /\ new.members = ws.members /\ new \in WireState
        /\ new.kind = ws.kind /\ new.tracked = ws.tracked /\ new.resolved = ws.resolved
    BY DEF WireInv, WireState
  <1> HIDE DEF new
  <1>2. WireInv(new) /\ Learns(ws, new)
    BY <1>1, LearnsSame DEF WireInv
  <1>3. /\ MemberCids(new) = MemberCids(ws)
        /\ non_terminal_cids(new) = non_terminal_cids(ws)
    BY <1>1, SameMembers
  <1>4. ASSUME NEW gapped, GapInv(ws, gapped)
        PROVE  GapInv(new, gapped)
    BY <1>1, <1>3, <1>4 DEF GapInv
  <1> QED BY <1>1, <1>2, <1>3, <1>4 DEF Moves, Refolds, Explained, new

-----------------------------------------------------------------------------
(* Folding an order record                                                 *)

WiresOk(wires) == DOMAIN wires = Venues /\ wires[wire] \in Opt(WireState)

\* The state of the wire, when it is replaced.
LEMMA WirePut ==
  ASSUME NEW wires, DOMAIN wires = Venues, NEW ws \in WireState
  PROVE  LET after == [wires EXCEPT ![wire] = ws] IN WiresOk(after) /\ Wire(after, wire) = ws
  <1>1. wire \in Venues /\ ws # None
    BY ObservationAssumption, WireAssumption
  <1> QED BY <1>1 DEF WiresOk, Wire, OrElse, Opt

\* The members that have not ended are members.
LEMMA LiveMembers ==
  ASSUME NEW ws
  PROVE  non_terminal_cids(ws) \subseteq MemberCids(ws)
  BY DEF non_terminal_cids, MemberCids, MembersIn

\* They are orders.
LEMMA MembersOrders ==
  ASSUME NEW ws, WireInv(ws)
  PROVE  MemberCids(ws) \subseteq Cids /\ None \notin MemberCids(ws)
  <1>1. \A i \in DOMAIN ws.members : ws.members[i].cid \in Cids
    BY MembersSeq DEF WireInv
  <1> QED BY <1>1, RowAssumption DEF MemberCids

\* Ending an order, on the wire.
LEMMA RetireFolds ==
  ASSUME NEW wires, WiresOk(wires), WireInv(Wire(wires, wire)), NEW c
  PROVE  LET after == terminalize_cid(wires, c)
         IN WiresOk(after) /\ Refolds(Wire(wires, wire), Wire(after, wire), {}, {c})
  <1> DEFINE ws == Wire(wires, wire)
             x == WithRole(ws, {c}, "Terminal")
             after == terminalize_cid(wires, c)
  <1>1. wire \in Venues /\ None \notin WireState
    BY ObservationAssumption, WireAssumption
  <1>2. /\ DOMAIN after = Venues
        /\ after[wire] = IF wires[wire] # None /\ c \in MemberCids(wires[wire])
                         THEN WithRole(wires[wire], {c}, "Terminal") ELSE wires[wire]
    BY <1>1 DEF terminalize_cid, ForMember
  <1>3. ws = IF wires[wire] = None THEN venue_only ELSE wires[wire]
    BY DEF Wire, OrElse
  <1>4. Wire(after, wire) = IF after[wire] = None THEN venue_only ELSE after[wire]
    BY DEF Wire, OrElse
  <1>5. Refolds(ws, x, {}, {c}) /\ x \in WireState
    BY RetireRefolds DEF Refolds, Moves, WireInv
  <1> HIDE DEF x, after
  <1>6. CASE wires[wire] # None /\ c \in MemberCids(wires[wire])
    <2>1. after[wire] = x
      BY <1>2, <1>3, <1>6 DEF x
    <2> HIDE DEF ws
    <2> QED BY <1>1, <1>2, <1>4, <1>5, <2>1 DEF WiresOk, Opt, after, ws
  <1>7. CASE ~ (wires[wire] # None /\ c \in MemberCids(wires[wire]))
    <2>1. after[wire] = wires[wire]
      BY <1>2, <1>7
    <2>2. Wire(after, wire) = ws
      BY <1>3, <1>4, <2>1
    <2>3. c \notin MemberCids(ws)
      BY <1>3, <1>7, VenueOnlyInv
    <2>4. c \notin non_terminal_cids(ws)
      BY <2>3, LiveMembers
    <2>5. Refolds(ws, ws, {}, {})
      BY RefoldsReflexive
    <2>6. Refolds(ws, ws, {}, {c})
      BY <2>4, <2>5 DEF Refolds
    <2>7. WiresOk(after)
      BY <1>2, <2>1 DEF WiresOk
    <2> QED BY <2>2, <2>6, <2>7 DEF after
  <1> QED BY <1>6, <1>7

\* An own action, on the wire.
LEMMA BumpFolds ==
  ASSUME NEW wires, WiresOk(wires), WireInv(Wire(wires, wire)), NEW c
  PROVE  LET after == bump_generation(wires, c)
         IN WiresOk(after) /\ Refolds(Wire(wires, wire), Wire(after, wire), {}, {})
  <1> DEFINE ws == Wire(wires, wire)
             x == Bumped(ws)
             after == bump_generation(wires, c)
  <1>1. wire \in Venues /\ None \notin WireState
    BY ObservationAssumption, WireAssumption
  <1>2. /\ DOMAIN after = Venues
        /\ after[wire] = IF wires[wire] # None /\ c \in MemberCids(wires[wire])
                         THEN Bumped(wires[wire]) ELSE wires[wire]
    BY <1>1 DEF bump_generation, ForMember, Bumped
  <1>3. ws = IF wires[wire] = None THEN venue_only ELSE wires[wire]
    BY DEF Wire, OrElse
  <1>4. Wire(after, wire) = IF after[wire] = None THEN venue_only ELSE after[wire]
    BY DEF Wire, OrElse
  <1>5. Refolds(ws, x, {}, {}) /\ x \in WireState
    BY BumpMoves DEF Refolds, Moves, WireInv
  <1> HIDE DEF x, after
  <1>6. CASE wires[wire] # None /\ c \in MemberCids(wires[wire])
    <2>1. after[wire] = x
      BY <1>2, <1>3, <1>6 DEF x
    <2> HIDE DEF ws
    <2> QED BY <1>1, <1>2, <1>4, <1>5, <2>1 DEF WiresOk, Opt, after, ws
  <1>7. CASE ~ (wires[wire] # None /\ c \in MemberCids(wires[wire]))
    <2>1. after[wire] = wires[wire]
      BY <1>2, <1>7
    <2>2. Wire(after, wire) = ws
      BY <1>3, <1>4, <2>1
    <2>3. Refolds(ws, ws, {}, {})
      BY RefoldsReflexive
    <2>4. WiresOk(after)
      BY <1>2, <2>1 DEF WiresOk
    <2> QED BY <2>2, <2>3, <2>4 DEF after
  <1> QED BY <1>6, <1>7

\* What an order record binds to the wire, and what it retires.
NewlyBound(row, o) ==
    IF o.row.ctx.venue_order_id = wire /\ row.ctx.venue_order_id # wire THEN {o.cid} ELSE {}
NewlyEnded(o) ==
    IF o.halted \/ \E r \in Marks(o.core) : r.rec = "OrderTerminal" THEN {o.cid} ELSE {}

\* The record that a core call journals for its binding.
LEMMA BoundRecord ==
  ASSUME NEW row, NEW o, OrderTells(row, o)
  PROVE  LET has == \E i \in DOMAIN o.core : o.core[i].rec = "VenueBoundCid"
             v == o.row.ctx.venue_order_id
         IN /\ has <=> v # row.ctx.venue_order_id
            /\ has => o.core[CHOOSE i \in DOMAIN o.core : o.core[i].rec = "VenueBoundCid"].venue = v
  <1> DEFINE S == {i \in DOMAIN o.core : o.core[i].rec = "VenueBoundCid"}
             v == o.row.ctx.venue_order_id
             M == {r \in Marks(o.core) : r.rec = "VenueBoundCid"}
             k == CHOOSE i \in DOMAIN o.core : o.core[i].rec = "VenueBoundCid"
  <1>1. M = IF v = row.ctx.venue_order_id THEN {} ELSE {VenueBoundRecord(v)}
    BY DEF OrderTells, BindMarks
  <1>2. VenueBoundRecord(v).venue = v /\ VenueBoundRecord(v).rec = "VenueBoundCid"
    BY DEF VenueBoundRecord
  <1>3. /\ \A i \in S : o.core[i] \in M
        /\ \A r \in M : \E i \in S : r = o.core[i]
    BY DEF Marks, Reserved
  <1>4. S # {} => k \in S
    OBVIOUS
  <1> HIDE DEF M, k
  <1>5. S # {} <=> v # row.ctx.venue_order_id
    BY <1>1, <1>3
  <1>6. S # {} => o.core[k].venue = v
    BY <1>1, <1>2, <1>3, <1>4, <1>5
  <1>7. S # {} <=> \E i \in DOMAIN o.core : o.core[i].rec = "VenueBoundCid"
    OBVIOUS
  <1> HIDE DEF S
  <1> QED BY <1>5, <1>6, <1>7 DEF k

\* What an order record makes of the wire before it may discharge the hold.
LEMMA CoreFolds ==
  ASSUME NEW wires, WiresOk(wires), WireInv(Wire(wires, wire)), NEW row, NEW o,
         o.cid \in Cids, OrderTells(row, o),
         o.cid \in MemberCids(Wire(wires, wire)) <=> row.ctx.venue_order_id = wire
  PROVE  LET after == FoldCore(wires, o)
         IN /\ WiresOk(after)
            /\ Refolds(Wire(wires, wire), Wire(after, wire), NewlyBound(row, o), NewlyEnded(o))
  <1> DEFINE has(rec) == \E i \in DOMAIN o.core : o.core[i].rec = rec
             k == CHOOSE i \in DOMAIN o.core : o.core[i].rec = "VenueBoundCid"
             v == o.core[k].venue
             bind == has("VenueBoundCid")
             put == [wires EXCEPT ![v] = bind_member(Wire(wires, v), o.cid)]
             bound == IF bind THEN put ELSE wires
             ends == has("OrderTerminal") \/ o.halted
             own == has("OwnActionCid")
             retired == IF ends THEN terminalize_cid(bound, o.cid) ELSE bound
             after == FoldCore(wires, o)
             ws == Wire(wires, wire)
             B == NewlyBound(row, o)
             D == NewlyEnded(o)
  <1>1. after = IF own THEN bump_generation(retired, o.cid) ELSE retired
    BY DEF FoldCore
  <1>2. /\ bind <=> o.row.ctx.venue_order_id # row.ctx.venue_order_id
        /\ bind => v = o.row.ctx.venue_order_id
    BY BoundRecord
  <1>3. D = IF ends THEN {o.cid} ELSE {}
    <2>1. (\E r \in Marks(o.core) : r.rec = "OrderTerminal") <=> has("OrderTerminal")
      BY DEF Marks, Reserved
    <2> QED BY <2>1 DEF NewlyEnded
  <1> HIDE DEF ends, own, bind, k, after, D
  <1>4. row.ctx.venue_order_id # None => o.row.ctx.venue_order_id = row.ctx.venue_order_id
    BY DEF OrderTells
  <1>5. wire \in Venues /\ wire # None
    BY ObservationAssumption, NoneAssumption
  <1>6. WiresOk(bound) /\ Refolds(ws, Wire(bound, wire), B, {})
    <2>1. CASE bind /\ v = wire
      <3>1. B = {o.cid} /\ o.cid \notin MemberCids(ws)
        BY <1>2, <1>4, <1>5, <2>1 DEF NewlyBound
      <3> DEFINE x == bind_member(ws, o.cid)
      <3>2. Refolds(ws, x, {o.cid}, {})
        BY <3>1, BindMoves
      <3>3. x \in WireState
        BY <3>2 DEF Refolds, Moves, WireInv
      <3>4. bound = [wires EXCEPT ![wire] = x]
        BY <2>1
      <3> HIDE DEF x
      <3>5. DOMAIN wires = Venues
        BY DEF WiresOk
      <3> HIDE DEF bound, ws
      <3>6. WiresOk(bound) /\ Wire(bound, wire) = x
        BY <3>3, <3>4, <3>5, WirePut
      <3> QED BY <3>1, <3>2, <3>6
    <2>2. CASE ~ (bind /\ v = wire)
      <3>1. B = {}
        BY <1>2, <2>2 DEF NewlyBound
      <3>2. bound[wire] = wires[wire] /\ DOMAIN bound = DOMAIN wires
        BY <2>2
      <3> HIDE DEF bound
      <3>3. WiresOk(bound) /\ Wire(bound, wire) = ws
        BY <3>2 DEF WiresOk, Wire
      <3> QED BY <3>1, <3>3, RefoldsReflexive
    <2> QED BY <2>1, <2>2
  <1> HIDE DEF bound, ws, B
  <1>7. WiresOk(retired) /\ Refolds(ws, Wire(retired, wire), B, D)
    <2>1. WireInv(Wire(bound, wire)) /\ WireInv(ws)
      BY <1>6 DEF Refolds, Moves, ws
    <2>2. CASE ends
      <3>1. WiresOk(retired) /\ Refolds(Wire(bound, wire), Wire(retired, wire), {}, {o.cid})
        BY <1>6, <2>1, <2>2, RetireFolds
      <3> HIDE DEF retired
      <3>2. Refolds(ws, Wire(retired, wire), B, {} \cup {o.cid})
        BY <1>6, <2>1, <3>1, RefoldsTransitive
      <3> QED BY <1>3, <2>2, <3>1, <3>2
    <2>3. CASE ~ ends
      BY <1>3, <1>6, <2>3
    <2> QED BY <2>2, <2>3
  <1> HIDE DEF retired
  <1>8. WiresOk(after) /\ Refolds(ws, Wire(after, wire), B, D)
    <2>1. WireInv(Wire(retired, wire)) /\ WireInv(ws)
      BY <1>7 DEF Refolds, Moves, ws
    <2>2. CASE own
      <3>1. WiresOk(after) /\ Refolds(Wire(retired, wire), Wire(after, wire), {}, {})
        BY <1>1, <1>7, <2>1, <2>2, BumpFolds
      <3>2. Refolds(ws, Wire(after, wire), B, D \cup {})
        BY <1>7, <2>1, <3>1, RefoldsTransitive
      <3> QED BY <3>1, <3>2
    <2>3. CASE ~ own
      BY <1>1, <1>7, <2>3
    <2> QED BY <2>2, <2>3
  <1> QED BY <1>8 DEF after, ws, B, D

\* What it makes of the wire: the hold goes only with the order it was about.
LEMMA OrderFolds ==
  ASSUME NEW wires, WiresOk(wires), WireInv(Wire(wires, wire)), NEW row, NEW o,
         o.cid \in Cids, OrderTells(row, o),
         o.cid \in MemberCids(Wire(wires, wire)) <=> row.ctx.venue_order_id = wire
  PROVE  LET after == FoldOrder(wires, o)
         IN /\ WiresOk(after)
            /\ Refolds(Wire(wires, wire), Wire(after, wire), NewlyBound(row, o), NewlyEnded(o))
  <1> DEFINE folded == FoldCore(wires, o)
             freed == /\ wires[wire] # None
                      /\ DischargesHold(wires[wire], wire, o)
                      /\ o.cid \in MemberCids(folded[wire])
                      /\ o.cid \notin non_terminal_cids(folded[wire])
                      /\ current(folded[wire]) = None
             after == FoldOrder(wires, o)
             ws == Wire(wires, wire)
             ms == Wire(folded, wire)
             x == [ms EXCEPT !.authority_hold = FALSE]
             B == NewlyBound(row, o)
             D == NewlyEnded(o)
  <1>1. WiresOk(folded) /\ Refolds(ws, ms, B, D)
    BY CoreFolds
  <1>2. wire \in Venues /\ None \notin WireState
    BY ObservationAssumption, WireAssumption
  <1>3. /\ DOMAIN after = Venues
        /\ after[wire] = IF freed THEN [folded[wire] EXCEPT !.authority_hold = FALSE]
                         ELSE folded[wire]
    BY <1>2 DEF FoldOrder
  <1>4. WireInv(ms) /\ WireInv(ws)
    BY <1>1 DEF Refolds, Moves
  <1>5. /\ ws = IF wires[wire] = None THEN venue_only ELSE wires[wire]
        /\ ms = IF folded[wire] = None THEN venue_only ELSE folded[wire]
        /\ Wire(after, wire) = IF after[wire] = None THEN venue_only ELSE after[wire]
    BY DEF Wire, OrElse
  <1>6. CASE ~ freed
    <2>1. after[wire] = folded[wire]
      BY <1>3, <1>6
    <2>2. Wire(after, wire) = ms
      BY <1>5, <2>1
    <2>3. WiresOk(after)
      BY <1>1, <1>3, <2>1 DEF WiresOk
    <2> HIDE DEF after, ms, ws, B, D
    <2> QED BY <1>1, <2>2, <2>3 DEF after, ws, B, D
  <1>7. CASE freed
    <2>1. /\ ws.proved_current_cid = o.cid /\ current(ws) = o.cid
          /\ o.cid \notin non_terminal_cids(folded[wire])
      BY <1>5, <1>7 DEF DischargesHold
    <2>2. o.cid # None /\ o.cid \in Cids
      BY RowAssumption
    <2> HIDE DEF freed, folded, ws
    <2>3. folded[wire] # None
      <3>1. o.cid \in MemberCids(ws)
        BY <1>4, <2>1, <2>2, CurrentMember
      <3>2. o.cid \in MemberCids(ms)
        BY <1>1, <3>1 DEF Refolds
      <3> QED BY <1>5, <3>2, VenueOnlyInv
    <2>4. ms = folded[wire]
      BY <1>5, <2>3
    <2>5. ms.proved_current_cid \notin non_terminal_cids(ms)
      <3>1. ms.proved_current_cid \in {o.cid, None}
        BY <1>1, <2>1 DEF Refolds
      <3>2. None \notin non_terminal_cids(ms)
        BY <1>4, MembersOrders, LiveMembers
      <3> QED BY <2>1, <2>4, <3>1, <3>2
    <2> HIDE DEF ms
    <2>6. Refolds(ms, x, {}, {})
      BY <1>4, <2>5, FreedMoves
    <2>7. after[wire] = x /\ x \in WireState
      BY <1>3, <1>7, <2>4, <2>6 DEF Refolds, Moves, WireInv
    <2> HIDE DEF x
    <2>8. Wire(after, wire) = x
      BY <1>2, <1>5, <2>7
    <2>9. Refolds(ws, x, B, D \cup {})
      BY <1>1, <1>4, <2>6, RefoldsTransitive
    <2>10. WiresOk(after)
      BY <1>3, <2>7 DEF WiresOk, Opt
    <2> HIDE DEF after, B, D
    <2> QED BY <2>8, <2>9, <2>10 DEF after, ws, B, D
  <1> QED BY <1>6, <1>7

-----------------------------------------------------------------------------
(* Folding executions                                                      *)

\* The wire with one more execution held; if it is new and no order owns it,
\* it waits for a round.
Holding(ws, new, id, owner) ==
    /\ WireInv(new) /\ Learns(ws, new) /\ new.held = ws.held \cup {id}
    /\ new.members = ws.members
    /\ \A gapped : GapInv(ws, gapped) => GapInv(new, gapped)
    /\ Explained(new) => Explained(ws) /\ (id \in ws.held \/ owner # None)

LEMMA ExecutionHeld ==
  ASSUME NEW ws, WireInv(ws), NEW x, x.id \in FillIds
  PROVE  Holding(ws, FoldExecution(ws, x), x.id, x.entry.owner)
  <1> DEFINE newly == x.id \notin ws.held /\ x.entry.owner = None
             new == FoldExecution(ws, x)
             r == ws.resolved /\ ~ (newly /\ ws.kind = "VenueOnly")
             k == ws.tracked \/ (newly /\ ws.kind = "Scoped")
  <1>1. new = [ws EXCEPT !.held = ws.held \cup {x.id}, !.resolved = r, !.tracked = k]
    BY DEF FoldExecution
  <1>2. r \in BOOLEAN /\ k \in BOOLEAN /\ ws.held \cup {x.id} \in SUBSET FillIds
    BY WireFields
  <1>3. /\ (r <=> ws.resolved /\ ~ (newly /\ ws.kind = "VenueOnly"))
        /\ (k <=> ws.tracked \/ (newly /\ ws.kind = "Scoped"))
    BY WireFields
  <1> HIDE DEF newly, new, r, k
  <1>4. /\ new.generation = ws.generation /\ new.held = ws.held \cup {x.id}
        /\ new.filled_hw = ws.filled_hw /\ new.status = ws.status
        /\ new.amend_lineage = ws.amend_lineage
        /\ new.remaining_observation = ws.remaining_observation
        /\ new.proved_current_cid = ws.proved_current_cid
        /\ new.authority_hold = ws.authority_hold
        /\ new.members = ws.members /\ new \in WireState
        /\ new.kind = ws.kind /\ new.tracked = k /\ new.resolved = r
    BY <1>1, <1>2 DEF WireInv, WireState
  <1>5. WireInv(new)
    BY <1>4 DEF WireInv
  <1>6. Learns(ws, new)
    <2>1. ws.generation \in Nat /\ ws.filled_hw \in Nat
      BY WireFields
    <2> QED BY <1>4, <2>1 DEF Learns
  <1>7. /\ MemberCids(new) = MemberCids(ws)
        /\ non_terminal_cids(new) = non_terminal_cids(ws)
    BY <1>4, SameMembers
  <1>8. ASSUME NEW gapped, GapInv(ws, gapped)
        PROVE  GapInv(new, gapped)
    BY <1>4, <1>7, <1>8 DEF GapInv
  <1>9. Explained(new) => Explained(ws) /\ (x.id \in ws.held \/ x.entry.owner # None)
    <2>1. ws.kind \in {"VenueOnly", "Scoped"}
      BY WireFields
    <2>2. Explained(new) => Explained(ws) /\ ~ newly
      BY <1>3, <1>4, <2>1 DEF Explained
    <2> QED BY <2>2 DEF newly
  <1> QED BY <1>4, <1>5, <1>6, <1>8, <1>9 DEF Holding, new

\* An execution that is not reported for the wire leaves it; one that is is held.
LEMMA ExecutionFolds ==
  ASSUME NEW wires, WiresOk(wires), WireInv(Wire(wires, wire)), NEW xs, Len(xs) = 1,
         xs[1].id \in FillIds
  PROVE  LET after == fold_executions(wires, xs)
             ws == Wire(wires, wire)
         IN /\ WiresOk(after)
            /\ IF Holds(xs[1], wire)
               THEN Holding(ws, Wire(after, wire), xs[1].id, xs[1].entry.owner)
               ELSE Wire(after, wire) = ws
  <1> DEFINE after == fold_executions(wires, xs)
             ws == Wire(wires, wire)
             x == FoldExecution(ws, xs[1])
  <1>1. after = FoldOne(wires, xs[1])
    BY DEF fold_executions
  <1>2. wire \in Venues /\ None \notin WireState
    BY ObservationAssumption, WireAssumption
  <1>3. /\ DOMAIN after = Venues
        /\ after[wire] = IF Holds(xs[1], wire) THEN x ELSE wires[wire]
    BY <1>1, <1>2 DEF FoldOne
  <1>4. Holding(ws, x, xs[1].id, xs[1].entry.owner) /\ x \in WireState
    BY ExecutionHeld DEF Holding, WireInv
  <1> HIDE DEF x, after
  <1>5. /\ ws = IF wires[wire] = None THEN venue_only ELSE wires[wire]
        /\ Wire(after, wire) = IF after[wire] = None THEN venue_only ELSE after[wire]
    BY DEF Wire, OrElse
  <1> HIDE DEF ws
  <1>6. WiresOk(after)
    BY <1>3, <1>4 DEF WiresOk, Opt
  <1>7. CASE Holds(xs[1], wire)
    <2>1. Wire(after, wire) = x
      BY <1>2, <1>3, <1>4, <1>5, <1>7
    <2> QED BY <1>4, <1>6, <1>7, <2>1 DEF after, ws
  <1>8. CASE ~ Holds(xs[1], wire)
    <2>1. Wire(after, wire) = ws
      BY <1>3, <1>5, <1>8
    <2> QED BY <1>6, <1>8, <2>1 DEF after, ws
  <1> QED BY <1>7, <1>8

-----------------------------------------------------------------------------
(* The wire, the rows and the inventory                                    *)

\* The members are the orders bound to the wire, those that live are the ones
\* whose row has not ended.
RolesInv(ws, rows) ==
    \A c \in Cids :
      /\ c \in MemberCids(ws) <=> rows[c].ctx.venue_order_id = wire
      /\ c \in non_terminal_cids(ws)
           <=> rows[c].ctx.venue_order_id = wire /\ ~ Ended(rows[c].state)

\* The executions that the inventory has under the wire.
OfWire(inv) == {f \in FillIds : inv.entries[f] # None /\ inv.entries[f].venue = wire}

\* What is explained without an owner was covered by a round.
AuditInv(ws, inv, audited) ==
    Explained(ws) => \A f \in ws.held : inv.entries[f].owner = None => f \in audited

WireSound(ws, rows, inv, audited, gapped) ==
    /\ WireInv(ws) /\ RolesInv(ws, rows)
    /\ ws.held = OfWire(inv)
    /\ AuditInv(ws, inv, audited)
    /\ GapInv(ws, gapped)

MemorySound(rows, inv) ==
    /\ DOMAIN rows = Cids
    /\ \A c \in Cids : RowSound(rows[c])
    /\ inv \in MarketInventory /\ inv.generation <= MaxGeneration

\* The registry: no order record is newer than its row.
IsReg(r) == r = [ok |-> r.ok, wires |-> r.wires, seen |-> r.seen] /\ r.ok = TRUE
RegSound(r, rows) ==
    /\ IsReg(r)
    /\ WiresOk(r.wires)
    /\ DOMAIN r.seen \subseteq Cids
    /\ \A c \in DOMAIN r.seen : r.seen[c].row.seq \in 0..rows[c].seq

\* A record that is new to the registry.
OrderedWires(wires, o) == IF o.changed THEN FoldOrder(wires, o) ELSE wires
SeenAfter(seen, o) == IF o.changed THEN Seen(seen, o) ELSE seen

LEMMA RegUpdated ==
  ASSUME NEW g, IsReg(g), NEW w, NEW s
  PROVE  /\ [g EXCEPT !.wires = w] = [ok |-> g.ok, wires |-> w, seen |-> g.seen]
         /\ [g EXCEPT !.wires = w, !.seen = s] = [ok |-> g.ok, wires |-> w, seen |-> s]
  <1> DEFINE k == g.ok
             b == g.seen
  <1>1. [g EXCEPT !.wires = w] = [ok |-> k, wires |-> w, seen |-> b]
    BY DEF IsReg
  <1> HIDE DEF k, b
  <1>2. \A x : x = [ok |-> k, wires |-> w, seen |-> b]
               => [x EXCEPT !.seen = s] = [ok |-> k, wires |-> w, seen |-> s]
    OBVIOUS
  <1> QED BY <1>1, <1>2 DEF k, b

LEMMA TransactionFolds ==
  ASSUME NEW g, IsReg(g),
         NEW r, r.order.changed \in BOOLEAN,
         r.order.changed /\ r.order.cid \in DOMAIN g.seen
           => g.seen[r.order.cid].row.seq # r.order.row.seq
  PROVE  FoldTransaction(g, r)
           = [ok |-> g.ok,
              wires |-> fold_executions(OrderedWires(g.wires, r.order), r.executions),
              seen |-> SeenAfter(g.seen, r.order)]
  <1> DEFINE o == r.order
             wires == OrderedWires(g.wires, o)
             seen == SeenAfter(g.seen, o)
             ordered == IF o.changed THEN fold_order_part(g, o) ELSE g
  <1>1. ordered = [ok |-> g.ok, wires |-> wires, seen |-> seen]
    <2>1. CASE o.changed
      <3> DEFINE w == FoldOrder(g.wires, o)
                 s == Seen(g.seen, o)
      <3>1. fold_order_part(g, o) = [g EXCEPT !.wires = w, !.seen = s]
        BY <2>1 DEF fold_order_part
      <3>2. wires = w /\ seen = s
        BY <2>1 DEF OrderedWires, SeenAfter
      <3> HIDE DEF w, s, wires, seen
      <3>3. [g EXCEPT !.wires = w, !.seen = s] = [ok |-> g.ok, wires |-> w, seen |-> s]
        BY RegUpdated
      <3> QED BY <2>1, <3>1, <3>2, <3>3
    <2>2. CASE ~ o.changed
      BY <2>2 DEF OrderedWires, SeenAfter, IsReg
    <2> QED BY <2>1, <2>2
  <1>2. FoldTransaction(g, r)
          = [ordered EXCEPT !.wires = fold_executions(ordered.wires, r.executions)]
    BY DEF FoldTransaction
  <1> HIDE DEF ordered, wires, seen
  <1> QED BY <1>1, <1>2 DEF wires, seen

\* The record of an order, once more.
LEMMA TransactionAgain ==
  ASSUME NEW g, IsReg(g),
         NEW r, r.order.changed \in BOOLEAN, Len(r.executions) = 0,
         r.order.changed => r.order.cid \in DOMAIN g.seen /\ g.seen[r.order.cid] = r.order
  PROVE  FoldTransaction(g, r) = g
  <1> DEFINE o == r.order
             ordered == IF o.changed THEN fold_order_part(g, o) ELSE g
  <1>1. ordered = g
    <2>1. CASE o.changed
      <3> DEFINE same == g.ok /\ g.seen[o.cid] = o
      <3>1. fold_order_part(g, o) = [g EXCEPT !.ok = same]
        BY <2>1 DEF fold_order_part
      <3>2. same = g.ok
        BY <2>1 DEF IsReg
      <3> HIDE DEF same
      <3>3. [g EXCEPT !.ok = same] = g
        BY <3>2 DEF IsReg
      <3> QED BY <2>1, <3>1, <3>3
    <2>2. CASE ~ o.changed
      BY <2>2
    <2> QED BY <2>1, <2>2
  <1>2. fold_executions(g.wires, r.executions) = g.wires
    BY DEF fold_executions
  <1>3. FoldTransaction(g, r)
          = [ordered EXCEPT !.wires = fold_executions(ordered.wires, r.executions)]
    BY DEF FoldTransaction
  <1> HIDE DEF ordered
  <1>4. [g EXCEPT !.wires = g.wires] = g
    BY DEF IsReg
  <1> QED BY <1>1, <1>2, <1>3, <1>4

\* The wire after the order part of a record.
LEMMA OrderPart ==
  ASSUME NEW wires, WiresOk(wires), WireInv(Wire(wires, wire)), NEW rows, DOMAIN rows = Cids,
         RolesInv(Wire(wires, wire), rows),
         NEW o, o.cid \in Cids, OrderTells(rows[o.cid], o), o.changed
  PROVE  LET after == OrderedWires(wires, o)
             new == Wire(after, wire)
         IN /\ WiresOk(after) /\ Moves(Wire(wires, wire), new)
            /\ RolesInv(new, [rows EXCEPT ![o.cid] = o.row])
  <1> DEFINE ws == Wire(wires, wire)
             after == OrderedWires(wires, o)
             new == Wire(after, wire)
             c == o.cid
             row == rows[c]
             B == NewlyBound(row, o)
             D == NewlyEnded(o)
             rows2 == [rows EXCEPT ![c] = o.row]
  <1>1. after = FoldOrder(wires, o)
    BY DEF OrderedWires
  <1>2. /\ c \in MemberCids(ws) <=> row.ctx.venue_order_id = wire
        /\ c \in non_terminal_cids(ws) <=> row.ctx.venue_order_id = wire /\ ~ Ended(row.state)
    BY DEF RolesInv
  <1>3. WiresOk(after) /\ Refolds(ws, new, B, D)
    BY <1>1, <1>2, OrderFolds
  <1>4. wire # None
    BY ObservationAssumption, NoneAssumption
  <1>5. /\ row.ctx.venue_order_id = wire => o.row.ctx.venue_order_id = wire
        /\ row.ctx.venue_order_id = wire /\ Ended(row.state) => Ended(o.row.state)
        /\ D # {} => Ended(o.row.state)
        /\ Ended(o.row.state) /\ D = {}
             => Ended(row.state) /\ o.row.ctx.venue_order_id = row.ctx.venue_order_id
    BY <1>4 DEF OrderTells, NewlyEnded
  <1>6. /\ B = IF o.row.ctx.venue_order_id = wire /\ row.ctx.venue_order_id # wire
               THEN {c} ELSE {}
        /\ D \in {{}, {c}}
    BY DEF NewlyBound, NewlyEnded
  <1> HIDE DEF ws, after, new, row, B, D
  <1>7. /\ MemberCids(new) = MemberCids(ws) \cup B
        /\ non_terminal_cids(new) = (non_terminal_cids(ws) \cup B) \ D
    BY <1>3 DEF Refolds
  <1>8. ASSUME NEW d \in Cids
        PROVE  /\ d \in MemberCids(new) <=> rows2[d].ctx.venue_order_id = wire
               /\ d \in non_terminal_cids(new)
                    <=> rows2[d].ctx.venue_order_id = wire /\ ~ Ended(rows2[d].state)
    <2>1. CASE d = c
      <3>1. rows2[d] = o.row
        BY <2>1
      <3> QED BY <1>2, <1>5, <1>6, <1>7, <2>1, <3>1
    <2>2. CASE d # c
      <3>1. rows2[d] = rows[d]
        BY <2>2
      <3>2. /\ d \in MemberCids(ws) <=> rows[d].ctx.venue_order_id = wire
            /\ d \in non_terminal_cids(ws)
                 <=> rows[d].ctx.venue_order_id = wire /\ ~ Ended(rows[d].state)
        BY DEF RolesInv, ws
      <3>3. d \notin B /\ d \notin D
        BY <1>6, <2>2
      <3> QED BY <1>7, <3>1, <3>2, <3>3
    <2> QED BY <2>1, <2>2
  <1>9. RolesInv(new, rows2)
    BY <1>8 DEF RolesInv
  <1> QED BY <1>3, <1>9 DEF Refolds, ws, after, new

\* What a page of at most one execution plans.
LEMMA PlanOfOne ==
  ASSUME NEW xs, DOMAIN xs = {1}, NEW f \in FillIds
  PROVE  PlannedEntries(xs, xs)[f]
           = IF xs[1].id = f /\ xs[1].inventory \in {"Ingested", "Upgraded"}
             THEN xs[1].entry ELSE None
  <1> DEFINE hits == {i \in DOMAIN xs : xs[i].id = f
                                        /\ xs[i].inventory \in {"Ingested", "Upgraded"}}
  <1>1. PlannedEntries(xs, xs)[f] = IF hits = {} THEN None ELSE xs[Last(hits)].entry
    BY DEF PlannedEntries
  <1>2. hits = IF xs[1].id = f /\ xs[1].inventory \in {"Ingested", "Upgraded"}
               THEN {1} ELSE {}
    OBVIOUS
  <1> HIDE DEF hits
  <1>3. hits = {1} => Last(hits) = 1
    BY DEF Last
  <1> QED BY <1>1, <1>2, <1>3

LEMMA PlanOfNone ==
  ASSUME NEW xs, DOMAIN xs = {}, NEW f \in FillIds
  PROVE  PlannedEntries(xs, xs)[f] = None
  <1>1. {i \in DOMAIN xs : xs[i].id = f /\ xs[i].inventory \in {"Ingested", "Upgraded"}} = {}
    OBVIOUS
  <1> QED BY <1>1 DEF PlannedEntries

\* The wire and the inventory after the executions of a transaction.
Booked1(ws, new, inv, inv2) ==
    /\ WireInv(new) /\ Learns(ws, new) /\ new.members = ws.members
    /\ \A gapped : GapInv(ws, gapped) => GapInv(new, gapped)
    /\ new.held = OfWire(inv2)
    /\ \A audited : AuditInv(ws, inv, audited) => AuditInv(new, inv2, audited)

LEMMA ExecutionPart ==
  ASSUME NEW wires, WiresOk(wires), WireInv(Wire(wires, wire)), NEW inv,
         Wire(wires, wire).held = OfWire(inv), NEW own, NEW plan, NEW inv2,
         \A f \in FillIds : /\ PlanSound(own, inv.entries[f], plan[f])
                            /\ inv2.entries[f] = OrElse(plan[f], inv.entries[f]),
         NEW xs, PlannedEntries(xs, xs) = plan, Len(xs) = 1, DOMAIN xs = {1},
         xs[1].id \in FillIds
  PROVE  LET after == fold_executions(wires, xs)
         IN WiresOk(after) /\ Booked1(Wire(wires, wire), Wire(after, wire), inv, inv2)
  <1> DEFINE after == fold_executions(wires, xs)
             ws == Wire(wires, wire)
             new == Wire(after, wire)
             g == xs[1].id
             p == inv.entries[g]
             n == plan[g]
  <1>1. /\ WiresOk(after)
        /\ IF Holds(xs[1], wire) THEN Holding(ws, new, g, xs[1].entry.owner) ELSE new = ws
    BY ExecutionFolds
  <1>2. /\ n = IF xs[1].inventory \in {"Ingested", "Upgraded"} THEN xs[1].entry ELSE None
        /\ \A f \in FillIds : f # g => plan[f] = None
    BY PlanOfOne
  <1>3. /\ \A f \in FillIds : f # g => inv2.entries[f] = inv.entries[f]
        /\ inv2.entries[g] = IF n # None THEN n ELSE p
    BY <1>2 DEF OrElse
  <1>4. Holds(xs[1], wire) <=> n # None /\ n.venue = wire
    BY <1>2 DEF Holds
  <1>5. Holds(xs[1], wire) => n = xs[1].entry
    BY <1>2 DEF Holds
  <1>6. n # None /\ p # None => Raised(p, n)
    BY DEF PlanSound
  <1>7. wire # None
    BY ObservationAssumption, NoneAssumption
  <1>8. WireInv(ws) /\ ws.held = OfWire(inv)
    OBVIOUS
  <1> HIDE DEF after, new, ws, n, p
  <1>9. \A f \in FillIds : f \in OfWire(inv) <=> inv.entries[f] # None /\ inv.entries[f].venue = wire
    BY DEF OfWire
  <1>10. \A f \in FillIds : f \in OfWire(inv2) <=> inv2.entries[f] # None /\ inv2.entries[f].venue = wire
    BY DEF OfWire
  <1>11. g \in OfWire(inv) <=> p # None /\ p.venue = wire
    BY <1>9 DEF p
  <1>12. OfWire(inv) \subseteq FillIds /\ OfWire(inv2) \subseteq FillIds
    BY DEF OfWire
  <1>13. \A f \in FillIds : f # g => (f \in OfWire(inv2) <=> f \in OfWire(inv))
    BY <1>3, <1>9, <1>10
  <1>14. CASE Holds(xs[1], wire)
    <2>1. Holding(ws, new, g, n.owner) /\ n # None /\ n.venue = wire
      BY <1>1, <1>4, <1>5, <1>14
    <2>2. inv2.entries[g] = n /\ g \in OfWire(inv2)
      BY <1>3, <1>10, <2>1
    <2>3. new.held = OfWire(inv2)
      BY <1>8, <1>12, <1>13, <2>1, <2>2 DEF Holding
    <2>4. ASSUME NEW audited, AuditInv(ws, inv, audited)
          PROVE  AuditInv(new, inv2, audited)
      <3> SUFFICES ASSUME Explained(new), NEW f \in new.held, inv2.entries[f].owner = None
                   PROVE  f \in audited
        BY DEF AuditInv
      <3>1. Explained(ws) /\ (g \in ws.held \/ n.owner # None) /\ new.held = ws.held \cup {g}
        BY <2>1 DEF Holding
      <3>2. \A h \in ws.held : inv.entries[h].owner = None => h \in audited
        BY <2>4, <3>1 DEF AuditInv
      <3>3. CASE f # g
        <4>1. f \in ws.held /\ f \in FillIds
          BY <1>12, <2>3, <3>1, <3>3
        <4> QED BY <1>3, <3>2, <3>3, <4>1
      <3>4. CASE f = g
        <4>1. n.owner = None /\ g \in ws.held
          BY <2>2, <3>1, <3>4
        <4>2. p # None /\ Raised(p, n)
          BY <1>6, <1>8, <1>11, <2>1, <4>1
        <4>3. p.owner = None
          BY <4>1, <4>2 DEF Raised
        <4> QED BY <3>2, <3>4, <4>1, <4>3 DEF p
      <3> QED BY <3>3, <3>4
    <2> QED BY <1>1, <2>1, <2>3, <2>4 DEF Booked1, Holding, after, ws, new
  <1>15. CASE ~ Holds(xs[1], wire)
    <2>1. new = ws /\ ~ (n # None /\ n.venue = wire)
      BY <1>1, <1>4, <1>15
    <2>2. g \in OfWire(inv) => n = None
      BY <1>6, <1>7, <1>11, <2>1 DEF Raised
    <2>3. g \in OfWire(inv2) => n = None
      BY <1>3, <1>10, <2>1
    <2>4. n = None => (g \in OfWire(inv2) <=> g \in OfWire(inv))
      BY <1>3, <1>10, <1>11
    <2>5. OfWire(inv2) = OfWire(inv)
      BY <1>12, <1>13, <2>2, <2>3, <2>4
    <2>6. ASSUME NEW audited, AuditInv(ws, inv, audited)
          PROVE  AuditInv(new, inv2, audited)
      <3> SUFFICES ASSUME Explained(ws), NEW f \in ws.held, inv2.entries[f].owner = None
                   PROVE  f \in audited
        BY <2>1 DEF AuditInv
      <3>1. \A h \in ws.held : inv.entries[h].owner = None => h \in audited
        BY <2>6 DEF AuditInv
      <3>2. inv2.entries[f] = inv.entries[f]
        BY <1>3, <1>8, <1>12, <2>2 DEF p
      <3> QED BY <3>1, <3>2
    <2>7. Learns(ws, ws)
      BY <1>8, LearnsSame
    <2> QED BY <1>1, <1>8, <2>1, <2>5, <2>6, <2>7 DEF Booked1, after, ws, new
  <1> QED BY <1>14, <1>15

-----------------------------------------------------------------------------
(* A transaction                                                           *)

\* What holds of the memory between two steps.
Sound(rows, inv, r, audited, gapped) ==
    /\ MemorySound(rows, inv) /\ RegSound(r, rows)
    /\ WireSound(Wire(r.wires, wire), rows, inv, audited, gapped)

\* The rows and the inventory after a transaction.
LEMMA TransactionMemory ==
  ASSUME NEW t, NEW input, ValidInput(input), NEW rows, NEW inv, MemorySound(rows, inv),
         TransactionSound(t, input, RowFor(input, rows), inv),
         inv.generation + Len(input.page) <= MaxGeneration
  PROVE  /\ MemorySound(RowsAfter(t, rows), InventoryAfter(t, inv))
         /\ \A c \in Cids : RowsAfter(t, rows)[c].seq >= rows[c].seq
         /\ \A f \in FillIds : InventoryAfter(t, inv).entries[f]
                                 = OrElse(t.entries[f], inv.entries[f])
  <1> DEFINE rows2 == RowsAfter(t, rows)
             inv2 == InventoryAfter(t, inv)
             c == input.cid
  <1>1. /\ inv2 \in MarketInventory /\ inv2.generation <= MaxGeneration
        /\ \A f \in FillIds : inv2.entries[f] = OrElse(t.entries[f], inv.entries[f])
    BY InventoryApplied, ObservationAssumption DEF MemorySound
  <1>2. /\ t.changed \in BOOLEAN /\ t.input = input
        /\ t.changed => input.kind # "norow" /\ c \in Cids
    BY DEF TransactionSound, ValidInput
  <1>3. /\ DOMAIN rows2 = Cids
        /\ t.changed => rows2[c] = t.after
        /\ \A d \in Cids : ~ t.changed \/ d # c => rows2[d] = rows[d]
    BY <1>2 DEF RowsAfter, MemorySound
  <1>4. ASSUME NEW d \in Cids
        PROVE  RowSound(rows2[d]) /\ rows2[d].seq >= rows[d].seq
    <2>1. RowSound(rows[d]) /\ rows[d].seq \in Nat
      BY DEF MemorySound, RowSound
    <2>2. CASE ~ t.changed \/ d # c
      BY <1>3, <2>1, <2>2
    <2>3. CASE t.changed /\ d = c
      <3>1. RowSound(t.after) /\ t.after.seq = rows[c].seq + 1
        BY <1>2, <2>3 DEF TransactionSound, RowFor
      <3> QED BY <1>3, <2>1, <2>3, <3>1
    <2> QED BY <2>2, <2>3
  <1> QED BY <1>1, <1>3, <1>4 DEF MemorySound

\* The wire after the order part of a transaction.
LEMMA TransactionOrder ==
  ASSUME NEW t, NEW input, ValidInput(input), NEW rows, NEW inv, MemorySound(rows, inv),
         TransactionSound(t, input, RowFor(input, rows), inv), t.record # None,
         NEW wires, WiresOk(wires), WireInv(Wire(wires, wire)),
         RolesInv(Wire(wires, wire), rows)
  PROVE  LET after == OrderedWires(wires, t.record.order)
         IN /\ WiresOk(after) /\ Moves(Wire(wires, wire), Wire(after, wire))
            /\ RolesInv(Wire(after, wire), RowsAfter(t, rows))
  <1> DEFINE o == t.record.order
             after == OrderedWires(wires, o)
             c == input.cid
  <1>1. /\ t.changed \in BOOLEAN /\ t.input = input /\ t.row = RowFor(input, rows)
        /\ t.changed => input.kind # "norow" /\ c \in Cids
    BY DEF TransactionSound, ValidInput
  <1>2. /\ t.changed => OrderTells(t.row, o)
        /\ o.cid = c /\ o.changed = t.changed /\ o.row = t.after
    BY <1>1 DEF TransactionSound, RecordSound
  <1>3. CASE t.changed
    <2>1. /\ RowsAfter(t, rows) = [rows EXCEPT ![o.cid] = o.row]
          /\ o.cid \in Cids /\ OrderTells(rows[o.cid], o) /\ o.changed
      BY <1>1, <1>2, <1>3 DEF RowsAfter, RowFor
    <2>2. DOMAIN rows = Cids
      BY DEF MemorySound
    <2> HIDE DEF o
    <2>3. /\ WiresOk(after) /\ Moves(Wire(wires, wire), Wire(after, wire))
          /\ RolesInv(Wire(after, wire), [rows EXCEPT ![o.cid] = o.row])
      BY <2>1, <2>2, OrderPart
    <2> QED BY <2>1, <2>3 DEF o
  <1>4. CASE ~ t.changed
    <2>1. after = wires /\ RowsAfter(t, rows) = rows
      BY <1>2, <1>4 DEF OrderedWires, RowsAfter
    <2>2. Moves(Wire(wires, wire), Wire(wires, wire))
      BY MovesReflexive
    <2> QED BY <2>1, <2>2
  <1> QED BY <1>1, <1>3, <1>4

\* Members that end explain nothing.
LEMMA MovesAudited ==
  ASSUME NEW ws, NEW new, Moves(ws, new), NEW inv, NEW audited, AuditInv(ws, inv, audited)
  PROVE  AuditInv(new, inv, audited)
  BY DEF AuditInv, Moves

\* The wire and the inventory after its executions.
LEMMA TransactionBooked ==
  ASSUME NEW t, NEW input, ValidInput(input), Len(input.page) <= 1, NEW row, NEW inv,
         TransactionSound(t, input, row, inv), t.record # None,
         NEW inv2, \A f \in FillIds : inv2.entries[f] = OrElse(t.entries[f], inv.entries[f]),
         NEW wires, WiresOk(wires), WireInv(Wire(wires, wire)),
         Wire(wires, wire).held = OfWire(inv)
  PROVE  LET after == fold_executions(wires, t.record.executions)
         IN WiresOk(after) /\ Booked1(Wire(wires, wire), Wire(after, wire), inv, inv2)
  <1> DEFINE xs == t.record.executions
             after == fold_executions(wires, xs)
             page == input.page
             own == Beneficiary(input)
  <1>1. /\ DOMAIN xs = DOMAIN page /\ Len(xs) = Len(page)
        /\ \A i \in DOMAIN xs : xs[i].id = page[i].id
        /\ PlannedEntries(xs, xs) = t.entries
    BY DEF TransactionSound, RecordSound
  <1>2. \A f \in FillIds : PlanSound(own, inv.entries[f], t.entries[f])
    BY DEF TransactionSound
  <1>3. page \in Seq(Evidence) /\ Len(page) \in Nat /\ DOMAIN page = 1..Len(page)
    BY DEF ValidInput
  <1>4. CASE Len(page) = 1
    <2>1. DOMAIN page = {1} /\ page[1] \in Evidence
      BY <1>3, <1>4
    <2>2. DOMAIN xs = {1} /\ Len(xs) = 1 /\ xs[1].id \in FillIds
      BY <1>1, <1>4, <2>1 DEF Evidence
    <2>3. \A f \in FillIds : /\ PlanSound(own, inv.entries[f], t.entries[f])
                             /\ inv2.entries[f] = OrElse(t.entries[f], inv.entries[f])
      BY <1>2
    <2> HIDE DEF xs, own
    <2>4. WiresOk(after) /\ Booked1(Wire(wires, wire), Wire(after, wire), inv, inv2)
      BY <1>1, <2>2, <2>3, ExecutionPart
    <2> QED BY <2>4 DEF xs
  <1>5. CASE Len(page) = 0
    <2>1. DOMAIN xs = {} /\ Len(xs) = 0
      BY <1>1, <1>3, <1>5
    <2> HIDE DEF xs
    <2>2. after = wires
      BY <2>1 DEF fold_executions
    <2>3. \A f \in FillIds : t.entries[f] = None
      BY <1>1, <2>1, PlanOfNone
    <2>4. \A f \in FillIds : inv2.entries[f] = inv.entries[f]
      BY <2>3 DEF OrElse
    <2>5. OfWire(inv2) = OfWire(inv)
      BY <2>4 DEF OfWire
    <2>6. Learns(Wire(wires, wire), Wire(wires, wire))
      BY LearnsSame
    <2>7. ASSUME NEW audited, AuditInv(Wire(wires, wire), inv, audited)
          PROVE  AuditInv(Wire(wires, wire), inv2, audited)
      <3>1. \A f \in Wire(wires, wire).held : inv2.entries[f] = inv.entries[f]
        BY <2>4 DEF OfWire
      <3> QED BY <2>7, <3>1 DEF AuditInv
    <2>8. Booked1(Wire(wires, wire), Wire(wires, wire), inv, inv2)
      BY <2>5, <2>6, <2>7 DEF Booked1
    <2>9. WiresOk(after) /\ Booked1(Wire(wires, wire), Wire(after, wire), inv, inv2)
      BY <2>2, <2>8
    <2> QED BY <2>9 DEF xs
  <1>6. Len(page) = 0 \/ Len(page) = 1
    <2>1. Len(page) \in Nat
      BY <1>3, Zenon
    <2>2. \A n \in Nat : n <= 1 => n = 0 \/ n = 1
      OBVIOUS
    <2> QED BY <2>1, <2>2, Zenon
  <1> HIDE DEF page, after
  <1> QED BY <1>4, <1>5, <1>6 DEF page

\* The wire after the whole transaction.
LEMMA TransactionWire ==
  ASSUME NEW t, NEW input, ValidInput(input), Len(input.page) <= 1, NEW rows, NEW inv,
         MemorySound(rows, inv), TransactionSound(t, input, RowFor(input, rows), inv),
         t.record # None,
         NEW inv2, \A f \in FillIds : inv2.entries[f] = OrElse(t.entries[f], inv.entries[f]),
         NEW audited, NEW gapped,
         NEW wires, WiresOk(wires), WireSound(Wire(wires, wire), rows, inv, audited, gapped)
  PROVE  LET after == fold_executions(OrderedWires(wires, t.record.order), t.record.executions)
             new == Wire(after, wire)
         IN /\ WiresOk(after) /\ WireSound(new, RowsAfter(t, rows), inv2, audited, gapped)
            /\ Learns(Wire(wires, wire), new)
  <1> DEFINE mid == OrderedWires(wires, t.record.order)
             after == fold_executions(mid, t.record.executions)
             a == Wire(wires, wire)
             b == Wire(mid, wire)
             new == Wire(after, wire)
             rows2 == RowsAfter(t, rows)
  <1>1. /\ WireInv(a) /\ RolesInv(a, rows) /\ a.held = OfWire(inv)
        /\ AuditInv(a, inv, audited) /\ GapInv(a, gapped)
    BY DEF WireSound
  <1>2. WiresOk(mid) /\ Moves(a, b) /\ RolesInv(b, rows2)
    BY <1>1, TransactionOrder
  <1>3. AuditInv(b, inv, audited)
    BY <1>1, <1>2, MovesAudited
  <1>4. /\ WireInv(b) /\ b.held = OfWire(inv) /\ Learns(a, b)
        /\ GapInv(b, gapped)
    BY <1>1, <1>2 DEF Moves
  <1> HIDE DEF mid, a
  <1>5. WiresOk(after) /\ Booked1(b, new, inv, inv2)
    BY <1>2, <1>4, TransactionBooked
  <1> HIDE DEF b, after, rows2
  <1>6. /\ WireInv(new) /\ Learns(b, new) /\ new.members = b.members
        /\ GapInv(new, gapped) /\ new.held = OfWire(inv2) /\ AuditInv(new, inv2, audited)
    BY <1>3, <1>4, <1>5 DEF Booked1
  <1> HIDE DEF new
  <1>7. MemberCids(new) = MemberCids(b) /\ non_terminal_cids(new) = non_terminal_cids(b)
    BY <1>6, SameMembers
  <1>8. RolesInv(new, rows2)
    BY <1>2, <1>7 DEF RolesInv
  <1>9. Learns(a, new)
    BY <1>1, <1>4, <1>6, LearnsTransitive
  <1>10. WiresOk(after) /\ WireSound(new, rows2, inv2, audited, gapped) /\ Learns(a, new)
    BY <1>5, <1>6, <1>8, <1>9 DEF WireSound
  <1> QED BY <1>10 DEF new, after, mid, a, rows2

\* The registry after it.
LEMMA TransactionRegistry ==
  ASSUME NEW t, NEW input, ValidInput(input), NEW rows, NEW inv, MemorySound(rows, inv),
         TransactionSound(t, input, RowFor(input, rows), inv), t.record # None,
         NEW g, RegSound(g, rows)
  PROVE  LET o == t.record.order
             new == FoldTransaction(g, t.record)
         IN /\ new = [ok |-> g.ok,
                      wires |-> fold_executions(OrderedWires(g.wires, o), t.record.executions),
                      seen |-> SeenAfter(g.seen, o)]
            /\ IsReg(new) /\ DOMAIN new.seen \subseteq Cids
            /\ \A c \in DOMAIN new.seen : new.seen[c].row.seq \in 0..RowsAfter(t, rows)[c].seq
            /\ o.changed => o.cid \in DOMAIN new.seen /\ new.seen[o.cid] = o
  <1> DEFINE o == t.record.order
             new == FoldTransaction(g, t.record)
             w == fold_executions(OrderedWires(g.wires, o), t.record.executions)
             s == SeenAfter(g.seen, o)
             c == input.cid
             rows2 == RowsAfter(t, rows)
  <1>1. /\ t.changed \in BOOLEAN /\ t.input = input /\ t.row = RowFor(input, rows)
        /\ t.changed => /\ input.kind # "norow" /\ c \in Cids
                        /\ t.after.seq = rows[c].seq + 1 /\ rows[c].seq \in Nat
    BY DEF TransactionSound, ValidInput, RowFor, MemorySound, RowSound
  <1>2. o.cid = c /\ o.changed = t.changed /\ o.row = t.after
    BY <1>1 DEF TransactionSound, RecordSound
  <1>3. /\ IsReg(g) /\ DOMAIN g.seen \subseteq Cids
        /\ \A d \in DOMAIN g.seen : g.seen[d].row.seq \in 0..rows[d].seq
    BY DEF RegSound
  <1>4. /\ t.changed => rows2[c] = t.after
        /\ \A d \in Cids : ~ t.changed \/ d # c => rows2[d] = rows[d]
    BY <1>1 DEF RowsAfter, MemorySound
  <1>5. o.changed \in BOOLEAN
        /\ (o.changed /\ o.cid \in DOMAIN g.seen => g.seen[o.cid].row.seq # o.row.seq)
    <2>1. o.changed \in BOOLEAN
      BY <1>1, <1>2
    <2>2. ASSUME o.changed, o.cid \in DOMAIN g.seen
          PROVE  g.seen[o.cid].row.seq # o.row.seq
      <3>1. g.seen[c].row.seq \in 0..rows[c].seq
        BY <1>2, <1>3, <2>2
      <3>2. o.row.seq = rows[c].seq + 1 /\ rows[c].seq \in Nat
        BY <1>1, <1>2, <2>2
      <3> QED BY <1>2, <3>1, <3>2
    <2> QED BY <2>1, <2>2
  <1> HIDE DEF o
  <1>6. new = [ok |-> g.ok, wires |-> w, seen |-> s]
    <2> DEFINE r == t.record
    <2>1. r.order = o
      BY DEF o
    <2> HIDE DEF r
    <2>2. FoldTransaction(g, r)
            = [ok |-> g.ok,
               wires |-> fold_executions(OrderedWires(g.wires, r.order), r.executions),
               seen |-> SeenAfter(g.seen, r.order)]
      BY <1>3, <1>5, <2>1, TransactionFolds
    <2> QED BY <2>1, <2>2 DEF r
  <1> HIDE DEF new, w
  <1>7. IsReg(new) /\ new.seen = s
    BY <1>3, <1>6 DEF IsReg
  <1>8. CASE o.changed
    <2>1. s = [d \in DOMAIN g.seen \cup {o.cid} |-> IF d = o.cid THEN o ELSE g.seen[d]]
      BY <1>8 DEF SeenAfter, Seen
    <2>2. DOMAIN s = DOMAIN g.seen \cup {c} /\ s[c] = o
          /\ \A d \in DOMAIN g.seen : d # c => s[d] = g.seen[d]
      BY <1>2, <2>1
    <2> HIDE DEF s
    <2>3. ASSUME NEW d \in DOMAIN s
          PROVE  s[d].row.seq \in 0..rows2[d].seq
      <3>1. CASE d = c
        <4>1. s[d].row = rows2[d] /\ rows2[d].seq \in Nat
          BY <1>1, <1>2, <1>4, <1>8, <2>2, <3>1
        <4> QED BY <4>1
      <3>2. CASE d # c
        BY <1>3, <1>4, <2>2, <3>2
      <3> QED BY <3>1, <3>2
    <2>4. DOMAIN s \subseteq Cids
      BY <1>1, <1>2, <1>3, <1>8, <2>2
    <2> QED BY <1>2, <1>6, <1>7, <2>2, <2>3, <2>4 DEF new, w, o, s, rows2
  <1>9. CASE ~ o.changed
    <2>1. s = g.seen
      BY <1>9 DEF SeenAfter
    <2>2. \A d \in DOMAIN g.seen : rows2[d] = rows[d]
      BY <1>2, <1>3, <1>4, <1>9
    <2> QED BY <1>3, <1>6, <1>7, <1>9, <2>1, <2>2 DEF new, w, o
  <1> QED BY <1>5, <1>8, <1>9

\* What the rebuilds return for the records of all that led to this memory.
Restored(rows, inv, g) == [inventory |-> InventoryRebuilt(inv),
                           orders |-> [c \in Cids |-> RowRebuilt(rows[c])],
                           reg |-> g]

\* A record restores the memory its transaction leaves.
LEMMA TransactionRecorded ==
  ASSUME NEW t, NEW input, ValidInput(input), NEW rows, NEW inv, MemorySound(rows, inv),
         TransactionSound(t, input, RowFor(input, rows), inv), t.record # None, NEW g
  PROVE  Recorded(Restored(rows, inv, g), t.record)
           = Restored(RowsAfter(t, rows), InventoryAfter(t, inv), FoldTransaction(g, t.record))
  <1> DEFINE r == t.record
             d == Restored(rows, inv, g)
             rows2 == RowsAfter(t, rows)
             inv2 == InventoryAfter(t, inv)
             g2 == FoldTransaction(g, r)
             c == input.cid
             orders2 == IF r.order.changed
                        THEN [d.orders EXCEPT ![r.order.cid] = RebuildOrder(@, r.order)]
                        ELSE d.orders
  <1>1. /\ d.inventory = InventoryRebuilt(inv) /\ d.orders = [e \in Cids |-> RowRebuilt(rows[e])]
        /\ d.reg = g
    BY DEF Restored
  <1>2. RebuildInventory(d.inventory, r) = InventoryRebuilt(inv2)
    BY <1>1, InventoryRecorded DEF MemorySound
  <1>3. /\ r.order.cid = c /\ r.order.changed = t.changed /\ r.order.row = t.after
        /\ t.changed \in BOOLEAN /\ t.input = input
        /\ t.changed => c \in Cids /\ t.after.seq = rows[c].seq + 1
    BY DEF TransactionSound, RecordSound, ValidInput, RowFor
  <1>4. orders2 = [e \in Cids |-> RowRebuilt(rows2[e])]
    <2>1. CASE ~ t.changed
      <3>1. rows2 = rows
        BY <2>1 DEF RowsAfter
      <3> QED BY <1>1, <1>3, <2>1, <3>1
    <2>2. CASE t.changed
      <3>1. RebuildOrder(d.orders[c], r.order) = RowRebuilt(t.after)
        BY <1>1, <1>3, <2>2, RowRecorded
      <3>2. rows2 = [rows EXCEPT ![c] = t.after]
        BY <1>3, <2>2 DEF RowsAfter
      <3>3. orders2 = [d.orders EXCEPT ![c] = RowRebuilt(t.after)]
        BY <1>3, <2>2, <3>1
      <3> HIDE DEF orders2, rows2
      <3>4. \A e \in Cids : rows2[e] = IF e = c THEN t.after ELSE rows[e]
        BY <1>3, <2>2, <3>2 DEF MemorySound
      <3> QED BY <1>1, <1>3, <2>2, <3>3, <3>4
    <2> QED BY <1>3, <2>1, <2>2
  <1>5. Recorded(d, r) = [inventory |-> RebuildInventory(d.inventory, r), orders |-> orders2,
                          reg |-> FoldTransaction(d.reg, r)]
    BY DEF Recorded
  <1> HIDE DEF orders2, d
  <1>6. Recorded(d, r) = [inventory |-> InventoryRebuilt(inv2),
                          orders |-> [e \in Cids |-> RowRebuilt(rows2[e])], reg |-> g2]
    BY <1>1, <1>2, <1>4, <1>5
  <1> QED BY <1>6 DEF Restored, d

\* An order event plans nothing for the inventory; its record written twice is
\* an equal duplicate of the last one, for the rebuilds of the rows and of the
\* registry.
LEMMA TransactionRecordedTwice ==
  ASSUME NEW t, NEW input, ValidInput(input), input.kind = "order", NEW rows,
         NEW inv, MemorySound(rows, inv),
         TransactionSound(t, input, RowFor(input, rows), inv), t.record # None,
         NEW g, RegSound(g, rows)
  PROVE  LET now == Restored(RowsAfter(t, rows), InventoryAfter(t, inv),
                             FoldTransaction(g, t.record))
         IN Recorded(now, t.record) = now
  <1> DEFINE r == t.record
             rows2 == RowsAfter(t, rows)
             inv2 == InventoryAfter(t, inv)
             g2 == FoldTransaction(g, r)
             now == Restored(rows2, inv2, g2)
             c == input.cid
  <1>1. /\ now.inventory = InventoryRebuilt(inv2)
        /\ now.orders = [e \in Cids |-> RowRebuilt(rows2[e])] /\ now.reg = g2
        /\ now = [inventory |-> now.inventory, orders |-> now.orders, reg |-> now.reg]
    BY DEF Restored
  <1>2. Len(r.executions) = 0
    BY DEF TransactionSound, RecordSound, ValidInput
  <1>3. /\ r.order.cid = c /\ r.order.changed = t.changed /\ r.order.row = t.after
        /\ t.changed \in BOOLEAN /\ t.input = input /\ c \in Cids
        /\ t.changed => RowSound(t.after)
    BY DEF TransactionSound, RecordSound, ValidInput
  <1>4. FoldTransaction(g2, r) = g2
    <2>1. /\ IsReg(g2)
          /\ r.order.changed => r.order.cid \in DOMAIN g2.seen /\ g2.seen[r.order.cid] = r.order
      BY TransactionRegistry
    <2> HIDE DEF g2, r
    <2> QED BY <1>2, <1>3, <2>1, TransactionAgain
  <1>5. RebuildInventory(InventoryRebuilt(inv2), r) = InventoryRebuilt(inv2)
    <2>1. inv2 = inv
      BY OrderKeepsInventory DEF MemorySound
    <2>2. RebuildInventory(InventoryRebuilt(inv), r) = InventoryRebuilt(inv2)
      BY InventoryRecorded DEF MemorySound
    <2> QED BY <2>1, <2>2
  <1>6. t.changed => RebuildOrder(now.orders[c], r.order) = now.orders[c]
    <2> SUFFICES ASSUME t.changed
                 PROVE  RebuildOrder(now.orders[c], r.order) = now.orders[c]
      OBVIOUS
    <2>1. rows2[c] = t.after
      BY <1>3 DEF RowsAfter, MemorySound
    <2>2. now.orders[c] = RowRebuilt(t.after)
      BY <1>1, <1>3, <2>1
    <2>3. t.after.seq # t.after.seq + 1
      BY <1>3 DEF RowSound
    <2>4. RebuildOrder(RowRebuilt(t.after), r.order) = RowRebuilt(t.after)
      BY <1>3, <2>3 DEF RebuildOrder, RowRebuilt
    <2> QED BY <2>2, <2>4
  <1> HIDE DEF now
  <1>7. (IF r.order.changed
         THEN [now.orders EXCEPT ![r.order.cid] = RebuildOrder(@, r.order)]
         ELSE now.orders) = now.orders
    BY <1>1, <1>3, <1>6
  <1>8. Recorded(now, r) = [inventory |-> RebuildInventory(now.inventory, r),
                            orders |-> now.orders, reg |-> FoldTransaction(now.reg, r)]
    BY <1>7 DEF Recorded
  <1>9. Recorded(now, r) = now
    BY <1>1, <1>4, <1>5, <1>8
  <1> QED BY <1>9 DEF now

\* A transaction that is recorded and applied to the memory it was prepared from.
LEMMA TransactionKeeps ==
  ASSUME NEW t, NEW input, ValidInput(input), Len(input.page) <= 1, NEW rows, NEW inv,
         MemorySound(rows, inv), TransactionSound(t, input, RowFor(input, rows), inv),
         t.record # None, inv.generation + Len(input.page) <= MaxGeneration,
         NEW audited, NEW gapped,
         NEW g, RegSound(g, rows), WireSound(Wire(g.wires, wire), rows, inv, audited, gapped)
  PROVE  LET g2 == FoldTransaction(g, t.record)
         IN /\ Sound(RowsAfter(t, rows), InventoryAfter(t, inv), g2, audited, gapped)
            /\ Learns(Wire(g.wires, wire), Wire(g2.wires, wire))
  <1> DEFINE rows2 == RowsAfter(t, rows)
             inv2 == InventoryAfter(t, inv)
             g2 == FoldTransaction(g, t.record)
             w2 == fold_executions(OrderedWires(g.wires, t.record.order), t.record.executions)
  <1>1. /\ MemorySound(rows2, inv2)
        /\ \A f \in FillIds : inv2.entries[f] = OrElse(t.entries[f], inv.entries[f])
    BY TransactionMemory
  <1>2. /\ g2.wires = w2
        /\ IsReg(g2) /\ DOMAIN g2.seen \subseteq Cids
        /\ \A c \in DOMAIN g2.seen : g2.seen[c].row.seq \in 0..rows2[c].seq
    <2> DEFINE s == SeenAfter(g.seen, t.record.order)
    <2>1. /\ g2 = [ok |-> g.ok, wires |-> w2, seen |-> s]
          /\ IsReg(g2) /\ DOMAIN g2.seen \subseteq Cids
          /\ \A c \in DOMAIN g2.seen : g2.seen[c].row.seq \in 0..rows2[c].seq
      BY TransactionRegistry, ZenonT(60)
    <2> HIDE DEF g2, w2, s
    <2> QED BY <2>1
  <1>3. /\ WiresOk(w2) /\ WireSound(Wire(w2, wire), rows2, inv2, audited, gapped)
        /\ Learns(Wire(g.wires, wire), Wire(w2, wire))
    <2> DEFINE wires == g.wires
    <2>1. WiresOk(wires) /\ WireSound(Wire(wires, wire), rows, inv, audited, gapped)
      BY DEF RegSound
    <2>2. \A f \in FillIds : inv2.entries[f] = OrElse(t.entries[f], inv.entries[f])
      BY <1>1
    <2> HIDE DEF inv2, wires
    <2>3. LET after == fold_executions(OrderedWires(wires, t.record.order), t.record.executions)
          IN /\ WiresOk(after) /\ WireSound(Wire(after, wire), RowsAfter(t, rows), inv2, audited, gapped)
             /\ Learns(Wire(wires, wire), Wire(after, wire))
      BY <2>1, <2>2, TransactionWire
    <2> QED BY <2>3 DEF wires
  <1>4. Sound(rows2, inv2, g2, audited, gapped)
    BY <1>1, <1>2, <1>3 DEF Sound, RegSound
  <1> QED BY <1>2, <1>3, <1>4

\* A transaction that is prepared, recorded and applied at once.
LEMMA PreparedKeeps ==
  ASSUME NEW rows, NEW inv, NEW g, NEW audited, NEW gapped,
         Sound(rows, inv, g, audited, gapped),
         NEW input, ValidInput(input), Len(input.page) <= 1,
         inv.generation + Len(input.page) <= MaxGeneration,
         Prepared(input, rows, inv).record # None
  PROVE  LET t == Prepared(input, rows, inv)
             rows2 == RowsAfter(t, rows)
             inv2 == InventoryAfter(t, inv)
             g2 == FoldTransaction(g, t.record)
             now == Restored(rows2, inv2, g2)
         IN /\ Sound(rows2, inv2, g2, audited, gapped)
            /\ Learns(Wire(g.wires, wire), Wire(g2.wires, wire))
            /\ Recorded(Restored(rows, inv, g), t.record) = now
            /\ t.input.kind = "order" => Recorded(now, t.record) = now
  <1> DEFINE row == RowFor(input, rows)
             t == Prepared(input, rows, inv)
             rows2 == RowsAfter(t, rows)
             inv2 == InventoryAfter(t, inv)
             g2 == FoldTransaction(g, t.record)
             now == Restored(rows2, inv2, g2)
  <1>1. MemorySound(rows, inv) /\ RegSound(g, rows)
        /\ WireSound(Wire(g.wires, wire), rows, inv, audited, gapped)
    BY DEF Sound
  <1>2. TransactionSound(t, input, RowFor(input, rows), inv)
    <2>1. inv \in MarketInventory /\ (input.kind # "norow" => RowSound(row))
          /\ (input.kind = "norow" => row = None)
      BY <1>1 DEF MemorySound, RowFor, ValidInput
    <2>2. t = PreparedFrom(input, row, inv)
      BY PreparedOfRow
    <2> HIDE DEF row
    <2>3. TransactionSound(PreparedFrom(input, row, inv), input, row, inv)
      BY <2>1, PreparedSound
    <2>4. TransactionSound(t, input, row, inv)
      BY <2>2, <2>3
    <2> QED BY <2>4 DEF row
  <1>3. t.record # None
    OBVIOUS
  <1> HIDE DEF t, row
  <1>4. Recorded(Restored(rows, inv, g), t.record) = now
    BY <1>1, <1>2, <1>3, TransactionRecorded
  <1>5. t.input.kind = "order" => Recorded(now, t.record) = now
    <2>1. t.input = input
      BY <1>2 DEF TransactionSound
    <2>2. input.kind = "order" => Recorded(now, t.record) = now
      BY <1>1, <1>2, <1>3, TransactionRecordedTwice
    <2> QED BY <2>1, <2>2
  <1>6. Sound(rows2, inv2, g2, audited, gapped)
        /\ Learns(Wire(g.wires, wire), Wire(g2.wires, wire))
    BY <1>1, <1>2, <1>3, TransactionKeeps
  <1> QED BY <1>4, <1>5, <1>6 DEF t

-----------------------------------------------------------------------------
(* A round and the rows of its members                                     *)

\* A row after a round, before its cursor moves.
Observes(r, n) ==
    /\ RowSound(n) /\ n.seq = r.seq
    /\ n.ctx.venue_order_id = r.ctx.venue_order_id

\* A row with another state and context.
LEMMA RowWith ==
  ASSUME NEW r, RowSound(r), NEW s, NEW c
  PROVE  /\ [r EXCEPT !.ctx = c] = Row(r.state, c, r.seq)
         /\ [r EXCEPT !.state = s] = Row(s, r.ctx, r.seq)
         /\ [r EXCEPT !.state = s, !.ctx = c] = Row(s, c, r.seq)
         /\ [r EXCEPT !.seq = r.seq + 1] = Row(r.state, r.ctx, r.seq + 1)
  <1>1. r = [state |-> r.state, ctx |-> r.ctx, seq |-> r.seq]
    BY DEF RowSound, Row
  <1>2. \A x, a, b, n : x = [state |-> a, ctx |-> b, seq |-> n]
          => [x EXCEPT !.ctx = c] = [state |-> a, ctx |-> c, seq |-> n]
    OBVIOUS
  <1>3. \A x, a, b, n : x = [state |-> a, ctx |-> b, seq |-> n]
          => [x EXCEPT !.state = s] = [state |-> s, ctx |-> b, seq |-> n]
    OBVIOUS
  <1>4. \A x, a, b, n, m : x = [state |-> a, ctx |-> b, seq |-> n]
          => [x EXCEPT !.seq = m] = [state |-> a, ctx |-> b, seq |-> m]
    OBVIOUS
  <1>5. [r EXCEPT !.ctx = c] = Row(r.state, c, r.seq)
    BY <1>1, <1>2 DEF Row
  <1>6. [r EXCEPT !.state = s] = [state |-> s, ctx |-> r.ctx, seq |-> r.seq]
    BY <1>1, <1>3
  <1>7. [[r EXCEPT !.state = s] EXCEPT !.ctx = c] = [state |-> s, ctx |-> c, seq |-> r.seq]
    <2> DEFINE y == [r EXCEPT !.state = s]
    <2>1. y = [state |-> s, ctx |-> r.ctx, seq |-> r.seq]
      BY <1>6
    <2> HIDE DEF y
    <2>2. [y EXCEPT !.ctx = c] = [state |-> s, ctx |-> c, seq |-> r.seq]
      BY <1>2, <2>1
    <2> QED BY <2>2 DEF y
  <1>8. \A m : [r EXCEPT !.seq = m] = [state |-> r.state, ctx |-> r.ctx, seq |-> m]
    BY <1>1, <1>4
  <1>9. [r EXCEPT !.state = s, !.ctx = c] = [[r EXCEPT !.state = s] EXCEPT !.ctx = c]
    OBVIOUS
  <1> QED BY <1>5, <1>6, <1>7, <1>8, <1>9 DEF Row

LEMMA RowMade ==
  ASSUME NEW r, RowSound(r), NEW s, NEW c, CtxInv(c), StateInv(s, c),
         c.venue_order_id = r.ctx.venue_order_id
  PROVE  Observes(r, Row(s, c, r.seq))
  BY DEF Observes, RowSound, Row

\* A context that only its authority, its obligation or what the venue has left
\* of it tells from the old one.
Touched(c, d) == CtxInv(d) /\ Quiet(c, d) /\ d.response = c.response

LEMMA TouchedContexts ==
  ASSUME NEW c, CtxInv(c), NEW e \in Nat
  PROVE  /\ Touched(c, latch_authority_complete(c))
         /\ Touched(c, note_venue_remaining(c, e))
         /\ ~ RaiseFails(e) => Touched(c, raise_fill_obligation(c, e))
  <1>1. /\ latch_authority_complete(c).response = c.response
        /\ note_venue_remaining(c, e).response = c.response
        /\ raise_fill_obligation(c, e).response = c.response
    BY DEF CtxInv, CtxBase, CtxTyped, latch_authority_complete, note_venue_remaining,
           raise_fill_obligation, invalidate_authority
  <1>2. CtxInv(latch_authority_complete(c)) /\ Quiet(c, latch_authority_complete(c))
    BY LatchInv
  <1>3. CtxInv(note_venue_remaining(c, e)) /\ Quiet(c, note_venue_remaining(c, e))
    <2>1. e \in Opt(Nat)
      BY DEF Opt
    <2> QED BY <2>1, NoteRemainingInv
  <1>4. ~ RaiseFails(e) => /\ CtxInv(raise_fill_obligation(c, e))
                           /\ Quiet(c, raise_fill_obligation(c, e))
    BY RaiseInv DEF CtxInv
  <1> QED BY <1>1, <1>2, <1>3, <1>4 DEF Touched

\* What a state says of its context it says of such a context.
LEMMA TouchedState ==
  ASSUME NEW s, NEW c, CtxInv(c), NEW d, Touched(c, d), StateInv(s, c)
  PROVE  StateInv(s, d) /\ d.venue_order_id = c.venue_order_id
  <1>1. CtxBase(c) /\ CtxBase(d) /\ Grows(c, d) /\ d.response = c.response
        /\ d.attributed_fill_qty = c.attributed_fill_qty
        /\ d.venue_order_id = c.venue_order_id
    BY DEF Touched, Quiet, SameBooks, CtxInv
  <1>2. Mirrors(s, d)
    BY <1>1, MirrorsStay DEF StateInv
  <1> QED BY <1>1, <1>2, StateGrows

\* An order that halts.
LEMMA RowHalts ==
  ASSUME NEW r, RowSound(r), NEW reason \in HaltReason
  PROVE  Observes(r, [r EXCEPT !.state = Halted(reason)])
  <1>1. "Halted" \in Kinds \ (LiveKinds \cup PendingKinds \cup {"ImmediateFillUnattributed"})
        /\ reason \in Opt(HaltReason \cup CloseReasons)
    BY DEF Kinds, LiveKinds, PendingKinds, Opt
  <1>2. StateInv(Halted(reason), r.ctx)
    BY <1>1, PlainInv DEF Halted
  <1>3. CtxInv(r.ctx)
    BY DEF RowSound
  <1>4. Observes(r, Row(Halted(reason), r.ctx, r.seq))
    BY <1>2, <1>3, RowMade
  <1> QED BY <1>4, RowWith

\* The three things a round may do with a member.
LEMMA LagsKeeps ==
  ASSUME NEW r, RowSound(r), NEW single, NEW fw \in Nat
  PROVE  Observes(r, MemberLags(r, single, fw))
  <1>1. CtxInv(r.ctx) /\ StateInv(r.state, r.ctx)
    BY DEF RowSound
  <1>2. Observes(r, r)
    BY DEF Observes
  <1>3. RaiseFails(fw) => MemberLags(r, single, fw)
                            \in {r, [r EXCEPT !.state = Halted("ObligationExceedsOrderQty")]}
    BY DEF MemberLags, halt_with_reason, halt_with_reason_state
  <1>4. ~ RaiseFails(fw) => MemberLags(r, single, fw)
                              \in {r, [r EXCEPT !.ctx = raise_fill_obligation(r.ctx, fw)]}
    BY DEF MemberLags
  <1>5. Observes(r, [r EXCEPT !.state = Halted("ObligationExceedsOrderQty")])
    BY RowHalts DEF HaltReason
  <1>6. ASSUME ~ RaiseFails(fw)
        PROVE  Observes(r, [r EXCEPT !.ctx = raise_fill_obligation(r.ctx, fw)])
    <2> DEFINE d == raise_fill_obligation(r.ctx, fw)
    <2>1. Touched(r.ctx, d)
      BY <1>1, <1>6, TouchedContexts
    <2> HIDE DEF d
    <2>2. CtxInv(d) /\ StateInv(r.state, d) /\ d.venue_order_id = r.ctx.venue_order_id
      BY <1>1, <2>1, TouchedState DEF Touched
    <2>3. Observes(r, Row(r.state, d, r.seq))
      BY <2>2, RowMade
    <2>4. Observes(r, [r EXCEPT !.ctx = d])
      BY <2>3, RowWith
    <2> QED BY <2>4 DEF d
  <1> QED BY <1>2, <1>3, <1>4, <1>5, <1>6

LEMMA LivesKeeps ==
  ASSUME NEW r, RowSound(r), r.ctx.venue_order_id = wire, NEW fresh, NEW single,
         NEW row, row.remaining \in Nat
  PROVE  Observes(r, MemberLives(r, fresh, single, row))
  <1> DEFINE n == row.remaining
             d == note_venue_remaining(r.ctx, n)
             s == live_with_remaining(r.state, r.ctx, n)
             m == r.ctx.attributed_fill_qty
  <1>1. CtxInv(r.ctx) /\ StateInv(r.state, r.ctx) /\ wire \in Venues /\ wire # None
    BY ObservationAssumption, NoneAssumption DEF RowSound
  <1>2. Observes(r, r)
    BY DEF Observes
  <1>3. MemberLives(r, fresh, single, row)
          \in {r, [r EXCEPT !.state = Halted("CrossCheckMismatch")],
               [r EXCEPT !.state = s, !.ctx = d]}
    BY DEF MemberLives
  <1>4. Observes(r, [r EXCEPT !.state = Halted("CrossCheckMismatch")])
    BY RowHalts DEF HaltReason
  <1>5. Touched(r.ctx, d)
    BY <1>1, TouchedContexts
  <1>6. s \in {Accepted(wire), Partial(wire, m, n)}
    <2>1. OrElse(venue_from_state(r.state), r.ctx.venue_order_id) = wire
      BY <1>1 DEF OrElse, venue_from_state, StateInv
    <2> QED BY <1>1, <2>1 DEF live_with_remaining
  <1> HIDE DEF d, s
  <1>7. CtxInv(d) /\ d.venue_order_id = wire /\ m = d.attributed_fill_qty
        /\ d.fill_obligation \in Nat
    BY <1>5, Numbers DEF Touched, Quiet, SameBooks, CtxInv
  <1>8. StateInv(Accepted(wire), d) /\ StateInv(Partial(wire, m, n), d)
    <2>1. None \in Opt(Target)
      BY DEF Opt
    <2> HIDE DEF m, n
    <2>2. n \in Nat
      BY DEF n
    <2>3. None # None => None.filled <= d.fill_obligation
      OBVIOUS
    <2> QED BY <1>1, <1>7, <2>1, <2>2, <2>3, VenueStates
  <1>9. Observes(r, Row(s, d, r.seq))
    BY <1>6, <1>7, <1>8, RowMade
  <1>10. Observes(r, [r EXCEPT !.state = s, !.ctx = d])
    BY <1>9, RowWith
  <1> QED BY <1>2, <1>3, <1>4, <1>10

LEMMA SettlesKeeps ==
  ASSUME NEW r, RowSound(r), r.ctx.venue_order_id = wire, NEW v, NEW p,
         p # None => GoodProposal(p), NEW fresh, NEW single, NEW row, row.remaining \in Nat
  PROVE  Observes(r, MemberSettles(r, v, p, fresh, single, row))
  <1> DEFINE d == latch_authority_complete(r.ctx)
             latched == [r EXCEPT !.ctx = d]
             w == NoWork(d)
             o == try_finalize_terminal(w, p, wire, p.terminal)
  <1>1. CtxInv(r.ctx) /\ StateInv(r.state, r.ctx) /\ wire \in Venues /\ wire # None
    BY ObservationAssumption, NoneAssumption DEF RowSound
  <1>2. Touched(r.ctx, d)
    BY <1>1, TouchedContexts
  <1> HIDE DEF d
  <1>3. CtxInv(d) /\ StateInv(r.state, d) /\ d.venue_order_id = r.ctx.venue_order_id
    BY <1>1, <1>2, TouchedState DEF Touched
  <1>4. latched = Row(r.state, d, r.seq)
    BY RowWith
  <1>5. Observes(r, latched) /\ latched.ctx = d
    <2>1. Observes(r, Row(r.state, d, r.seq))
      BY <1>3, RowMade
    <2>2. Row(r.state, d, r.seq).ctx = d
      BY DEF Row
    <2> QED BY <1>4, <2>1, <2>2
  <1>6. CASE p = None
    <2>1. MemberSettles(r, v, p, fresh, single, row) = MemberLives(latched, fresh, single, row)
      BY <1>6 DEF MemberSettles, d
    <2> HIDE DEF latched
    <2>2. Observes(latched, MemberLives(latched, fresh, single, row))
      BY <1>3, <1>5, LivesKeeps DEF Observes
    <2> QED BY <1>5, <2>1, <2>2 DEF Observes
  <1>7. CASE p # None
    <2>1. OrElse(r.ctx.venue_order_id, OrElse(venue_from_state(r.state), v)) = wire
      BY <1>1 DEF OrElse
    <2>2. MemberSettles(r, v, p, fresh, single, row) = [latched EXCEPT !.state = o.state]
      BY <1>5, <1>7, <2>1 DEF MemberSettles, d
    <2> HIDE DEF latched
    <2>3. RowSound(latched)
      BY <1>5 DEF Observes
    <2>4. WorkInv(From(latched, {}), w) /\ w.ctx = d
      BY <1>5, <2>3, StartWork
    <2> HIDE DEF w
    <2>5. OutcomeInv(From(latched, {}), o)
      BY <1>1, <1>3, <1>7, <2>4, TryFinalizeInv DEF Bound, GoodProposal
    <2>6. o.work.ctx = d
      BY <2>4, TryFinalizeCtx DEF WorkInv
    <2> HIDE DEF o
    <2>7. StateInv(o.state, d)
      BY <2>5, <2>6 DEF OutcomeInv
    <2>8. Observes(latched, Row(o.state, d, latched.seq))
      BY <1>3, <1>5, <2>3, <2>7, RowMade
    <2>9. Observes(latched, [latched EXCEPT !.state = o.state])
      BY <1>5, <2>3, <2>8, RowWith
    <2> QED BY <1>5, <2>2, <2>9 DEF Observes
  <1> QED BY <1>6, <1>7

\* What a row proposes can be proposed.
LEMMA ProposalGood ==
  ASSUME NEW row, NEW is_current, NEW filled, ProposedByRow(row, is_current, filled) # None
  PROVE  GoodProposal(ProposedByRow(row, is_current, filled))
  <1>1. /\ GoodProposal(ProposedCanceled) /\ GoodProposal(ProposedTerminal)
        /\ GoodProposal(Proposed("Filled", Qty, 0))
    BY QtyAssumption
    DEF GoodProposal, ProposedCanceled, ProposedTerminal, Proposed, Terminals, Opt
  <1>2. ProposedByRow(row, is_current, filled)
          \in {ProposedCanceled, ProposedTerminal, Proposed("Filled", Qty, 0), None}
    BY DEF ProposedByRow
  <1> QED BY <1>1, <1>2

\* So every member stays sound, and bound to the wire.
LEMMA MemberKeeps ==
  ASSUME NEW r, RowSound(r), r.ctx.venue_order_id = wire, NEW c, NEW ws, NEW v,
         NEW outcome, NEW fw \in Nat, NEW row, row.remaining \in Nat
  PROVE  Observes(r, MemberObserved(r, c, ws, v, outcome, fw, row))
  <1> DEFINE single == Len(ws.members) = 1
             filled == single /\ fw = Qty /\ row.remaining = 0
             is_current == current(ws) = c
             p == ProposedByRow(row, is_current, filled)
  <1>1. Observes(r, r)
    BY DEF Observes
  <1>2. p # None => GoodProposal(p)
    BY ProposalGood
  <1>3. MemberObserved(r, c, ws, v, outcome, fw, row)
          \in {r, MemberSettles(r, v, p, outcome = "Fresh", single, row),
               MemberLags(r, single, fw)}
    BY DEF MemberObserved
  <1> HIDE DEF p, single
  <1>4. Observes(r, MemberSettles(r, v, p, outcome = "Fresh", single, row))
    BY <1>2, SettlesKeeps
  <1>5. Observes(r, MemberLags(r, single, fw))
    BY LagsKeeps
  <1> QED BY <1>1, <1>3, <1>4, <1>5

-----------------------------------------------------------------------------
(* A round and the rows: every member that changed moves by one record      *)

\* What a round finds for the members S, and the rows after it.
MembersAfter(S, rows, now) ==
    {[cid |-> c, row |-> [now[c] EXCEPT !.seq = now[c].seq + 1]] :
       c \in {x \in S : now[x] # rows[x]}}
EndedIn(after) == {m.cid : m \in {x \in after : is_terminal_state(x.row.state)}}
Of(after, c) == {x \in after : x.cid = c}

LEMMA MemberAfter ==
  ASSUME NEW S, NEW rows, NEW now, \A c \in S : RowSound(rows[c]) /\ Observes(rows[c], now[c]),
         NEW c
  PROVE  LET moved == Row(now[c].state, now[c].ctx, rows[c].seq + 1)
         IN Of(MembersAfter(S, rows, now), c)
              = IF c \in S /\ now[c] # rows[c] THEN {[cid |-> c, row |-> moved]} ELSE {}
  <1> DEFINE next(d) == [now[d] EXCEPT !.seq = now[d].seq + 1]
             T == {x \in S : now[x] # rows[x]}
             moved == Row(now[c].state, now[c].ctx, rows[c].seq + 1)
  <1>1. c \in S => next(c) = moved
    <2>1. c \in S => RowSound(now[c]) /\ now[c].seq = rows[c].seq
      BY DEF Observes
    <2>2. c \in S => next(c) = Row(now[c].state, now[c].ctx, now[c].seq + 1)
      BY <2>1, RowWith
    <2> QED BY <2>1, <2>2
  <1>2. MembersAfter(S, rows, now) = {[cid |-> d, row |-> next(d)] : d \in T}
    BY DEF MembersAfter
  <1> HIDE DEF next, moved
  <1>3. \A x : x \in Of({[cid |-> d, row |-> next(d)] : d \in T}, c)
                 <=> c \in T /\ x = [cid |-> c, row |-> next(c)]
    BY DEF Of
  <1>4. Of({[cid |-> d, row |-> next(d)] : d \in T}, c)
          = IF c \in T THEN {[cid |-> c, row |-> next(c)]} ELSE {}
    BY <1>3
  <1>5. c \in T <=> c \in S /\ now[c] # rows[c]
    OBVIOUS
  <1> HIDE DEF T
  <1> QED BY <1>1, <1>2, <1>4, <1>5 DEF moved

\* The next record of a row.
LEMMA RowMoved ==
  ASSUME NEW r, RowSound(r), NEW n, Observes(r, n)
  PROVE  LET m == Row(n.state, n.ctx, r.seq + 1)
         IN /\ RowSound(m) /\ m.ctx.venue_order_id = r.ctx.venue_order_id
            /\ m.state = n.state /\ m.seq = r.seq + 1 /\ r.seq \in Nat
  <1> DEFINE s == n.state
             c == n.ctx
             q == r.seq + 1
  <1>1. /\ r.seq \in Nat /\ CtxInv(c) /\ StateInv(s, c)
        /\ c.venue_order_id = r.ctx.venue_order_id
    BY DEF RowSound, Observes
  <1>2. q \in Nat
    BY <1>1
  <1> HIDE DEF s, c, q
  <1>3. Row(s, c, q).state = s /\ Row(s, c, q).ctx = c /\ Row(s, c, q).seq = q
    BY DEF Row
  <1>4. RowSound(Row(s, c, q))
    BY <1>1, <1>2, <1>3 DEF RowSound
  <1> QED BY <1>1, <1>3, <1>4 DEF s, c, q

\* A row that a round leaves, or moves by one.
RowFollows(r, n, new) ==
    /\ RowSound(new)
    /\ new.ctx.venue_order_id = r.ctx.venue_order_id
    /\ new.state = n.state
    /\ IF n = r THEN new = r ELSE new.seq = r.seq + 1

\* The rows that a round records, and those that it leaves alone.
Records(after, rows, rows2) ==
    \A c \in Cids :
      /\ Of(after, c) = {} \/ Of(after, c) = {[cid |-> c, row |-> rows2[c]]}
      /\ Of(after, c) = {} <=> rows2[c] = rows[c]

LEMMA RoundRows ==
  ASSUME NEW S, NEW rows, NEW now,
         \A c \in Cids : RowSound(rows[c]),
         S \subseteq Cids, \A c \in S : Observes(rows[c], now[c]),
         NEW t, t.members_after = MembersAfter(S, rows, now)
  PROVE  LET rows2 == apply_rows(t, rows)
         IN /\ DOMAIN rows2 = Cids
            /\ \A c \in S : RowFollows(rows[c], now[c], rows2[c])
            /\ \A c \in Cids \ S : rows2[c] = rows[c]
            /\ Records(t.members_after, rows, rows2)
  <1> DEFINE after == t.members_after
             rows2 == apply_rows(t, rows)
             moved(c) == Row(now[c].state, now[c].ctx, rows[c].seq + 1)
  <1>1. /\ DOMAIN rows2 = Cids
        /\ \A c \in Cids : rows2[c] = IF Of(after, c) = {} THEN rows[c]
                                      ELSE (CHOOSE x \in Of(after, c) : TRUE).row
    BY DEF apply_rows, Of
  <1>2. ASSUME NEW c \in Cids
        PROVE  Of(after, c) = IF c \in S /\ now[c] # rows[c] THEN {[cid |-> c, row |-> moved(c)]}
                              ELSE {}
    BY MemberAfter
  <1> HIDE DEF rows2, after, moved
  <1>3. ASSUME NEW c \in Cids
        PROVE  rows2[c] = IF c \in S /\ now[c] # rows[c] THEN moved(c) ELSE rows[c]
    <2>1. CASE c \in S /\ now[c] # rows[c]
      <3>1. Of(after, c) = {[cid |-> c, row |-> moved(c)]}
        BY <1>2, <2>1
      <3>2. (CHOOSE x \in Of(after, c) : TRUE) = [cid |-> c, row |-> moved(c)]
        BY <3>1
      <3> QED BY <1>1, <2>1, <3>1, <3>2
    <2>2. CASE ~ (c \in S /\ now[c] # rows[c])
      <3>1. Of(after, c) = {}
        BY <1>2, <2>2
      <3> QED BY <1>1, <2>2, <3>1
    <2> QED BY <2>1, <2>2
  <1>4. ASSUME NEW c \in S
        PROVE  /\ RowSound(moved(c)) /\ moved(c).ctx.venue_order_id = rows[c].ctx.venue_order_id
               /\ moved(c).state = now[c].state /\ moved(c).seq = rows[c].seq + 1
               /\ rows[c].seq \in Nat
    BY RowMoved DEF moved
  <1>5. ASSUME NEW c \in S
        PROVE  RowFollows(rows[c], now[c], rows2[c])
    BY <1>3, <1>4 DEF RowFollows
  <1>6. \A c \in Cids \ S : rows2[c] = rows[c]
    BY <1>3
  <1>7. ASSUME NEW c \in Cids
        PROVE  /\ Of(after, c) = {} \/ Of(after, c) = {[cid |-> c, row |-> rows2[c]]}
               /\ Of(after, c) = {} <=> rows2[c] = rows[c]
    <2>1. c \in S => moved(c) # rows[c]
      BY <1>4
    <2> QED BY <1>2, <1>3, <2>1
  <1>8. Records(after, rows, rows2)
    BY <1>7 DEF Records
  <1> QED BY <1>1, <1>5, <1>6, <1>8 DEF rows2, after

\* Halted, unresolved and unmatched orders have ended, as have the terminal ones.
LEMMA EndedStates ==
  ASSUME NEW s
  PROVE  is_terminal_state(s) <=> Ended(s)
  BY DEF is_terminal_state, Ended, Halts

MembersOf(after, S) == \A m \in after : m.cid \in S
Live(S, rows) == \A c \in S : ~ Ended(rows[c].state)

\* The members that ended are those whose row has.
LEMMA RoundEnds ==
  ASSUME NEW S, S \subseteq Cids, NEW rows, NEW rows2, NEW after,
         Records(after, rows, rows2), MembersOf(after, S), Live(S, rows)
  PROVE  EndedIn(after) = {c \in S : Ended(rows2[c].state)}
  <1>1. ASSUME NEW c \in EndedIn(after)
        PROVE  c \in S /\ Ended(rows2[c].state)
    <2>1. PICK m \in after : m.cid = c /\ is_terminal_state(m.row.state)
      BY DEF EndedIn
    <2>2. m \in Of(after, c) /\ c \in S
      BY <2>1 DEF Of, MembersOf
    <2>3. m = [cid |-> c, row |-> rows2[c]]
      BY <2>2 DEF Records
    <2> QED BY <2>1, <2>2, <2>3, EndedStates
  <1>2. ASSUME NEW c \in S, Ended(rows2[c].state)
        PROVE  c \in EndedIn(after)
    <2>1. Of(after, c) = {[cid |-> c, row |-> rows2[c]]}
      BY <1>2 DEF Records, Live
    <2>2. [cid |-> c, row |-> rows2[c]] \in Of(after, c)
      BY <2>1
    <2>3. [cid |-> c, row |-> rows2[c]] \in after
      BY <2>2 DEF Of
    <2>4. is_terminal_state(rows2[c].state)
      BY <1>2, EndedStates
    <2> DEFINE m == [cid |-> c, row |-> rows2[c]]
    <2>5. m.cid = c /\ m.row = rows2[c]
      OBVIOUS
    <2> HIDE DEF m
    <2>6. m \in {x \in after : is_terminal_state(x.row.state)}
      BY <2>3, <2>4, <2>5 DEF m
    <2> QED BY <2>5, <2>6 DEF EndedIn
  <1> QED BY <1>1, <1>2

-----------------------------------------------------------------------------
(* A round and the wire                                                    *)

\* What a round tells of the wire: a row of the order.
ObservedRow(row) == row.status \in RowStatus /\ row.filled \in Nat /\ row.remaining \in Nat

\* A wire that a round replaces.  Its hold ends where the round is fresh, which
\* it is only in generation 0, or where no member lives on.
Rounded(ws, new, outcome, fw, D) ==
    /\ new \in WireState
    /\ Retires(ws.members, new.members, D) /\ MembersInv(new.members)
    /\ new.kind = ws.kind /\ new.held = ws.held /\ new.generation = ws.generation
    /\ new.amend_lineage = ws.amend_lineage
    /\ new.proved_current_cid = ws.proved_current_cid
    /\ new.filled_hw = fw
    /\ ws.status \in {"Filled", "Canceled"} => new.status = ws.status
    /\ new.remaining_observation # None => outcome = "Fresh"
    /\ ws.authority_hold /\ ~ new.authority_hold
         => outcome = "Fresh" \/ non_terminal_cids(new) = {}
    /\ Explained(new) => outcome \in Consistents

LEMMA WireRounded ==
  ASSUME NEW ws, WireInv(ws), NEW row, ObservedRow(row), NEW outcome \in ObservationOutcome,
         NEW fw \in Nat, NEW after, NEW pending \in BOOLEAN
  PROVE  Rounded(ws, WireAfter(ws, outcome, fw, row, after, pending), outcome, fw,
                 EndedIn(after))
  <1> DEFINE D == EndedIn(after)
             retired == WithRole(ws, D, "Terminal")
             status == sticky_status(ws.status, row.status)
             consistent == outcome \in Consistents
             settled == /\ consistent /\ ~ pending
                        /\ row.status \in {"Filled", "Canceled"}
                        /\ ws.members # <<>>
                        /\ non_terminal_cids(retired) = {}
             tracked == ~ consistent \/ pending
             hold == retired.authority_hold /\ outcome # "Fresh" /\ ~ settled
             obs == IF outcome = "Fresh"
                    THEN [remaining |-> row.remaining, covered |-> ws.held,
                          generation |-> ws.generation]
                    ELSE None
             resolved == IF ws.kind = "VenueOnly"
                         THEN status \in {"Filled", "Canceled"} /\ consistent
                         ELSE retired.resolved
             new == [retired EXCEPT !.filled_hw = fw, !.status = status, !.tracked = tracked,
                                    !.last = outcome, !.authority_hold = hold,
                                    !.remaining_observation = obs, !.resolved = resolved]
  <1>1. WireAfter(ws, outcome, fw, row, after, pending) = new
    BY DEF WireAfter, EndedIn
  <1>2. /\ WireInv(retired) /\ Retires(ws.members, retired.members, D)
        /\ retired = [ws EXCEPT !.members = retired.members]
    BY WithRoleInv
  <1> HIDE DEF retired, D
  <1>3. /\ ws.status \in RowStatus /\ ws.held \subseteq FillIds /\ ws.generation \in 0..U64Max
        /\ ws.authority_hold \in BOOLEAN /\ ws.resolved \in BOOLEAN
    BY WireFields
  <1>4. /\ retired.kind = ws.kind /\ retired.held = ws.held
        /\ retired.generation = ws.generation /\ retired.amend_lineage = ws.amend_lineage
        /\ retired.proved_current_cid = ws.proved_current_cid
        /\ retired.authority_hold = ws.authority_hold /\ retired.resolved = ws.resolved
        /\ retired \in WireState /\ MembersInv(retired.members)
    BY <1>2 DEF WireInv, WireState
  <1>5. /\ status \in RowStatus /\ row.remaining \in Nat
        /\ ws.status \in {"Filled", "Canceled"} => status = ws.status
    BY <1>3 DEF sticky_status, RowStatus, ObservedRow
  <1>6. obs \in Opt(RemainingObservation) /\ (obs # None => outcome = "Fresh")
    BY <1>3, <1>5 DEF Opt, RemainingObservation
  <1>7. hold \in BOOLEAN /\ resolved \in BOOLEAN /\ tracked \in BOOLEAN
    BY <1>3, <1>4
  <1>8. /\ ws.authority_hold /\ ~ hold => outcome = "Fresh" \/ non_terminal_cids(retired) = {}
        /\ tracked = FALSE => consistent
        /\ ws.kind = "VenueOnly" /\ resolved => consistent
    BY <1>4
  <1>9. outcome \in Opt(ObservationOutcome)
    BY DEF Opt
  <1> HIDE DEF status, obs, hold, resolved, tracked, settled
  <1>10. new \in WireState
    BY <1>4, <1>5, <1>6, <1>7, <1>9 DEF WireState
  <1>11. /\ new.members = retired.members /\ new.kind = ws.kind /\ new.held = ws.held
         /\ new.generation = ws.generation /\ new.amend_lineage = ws.amend_lineage
         /\ new.proved_current_cid = ws.proved_current_cid
         /\ new.filled_hw = fw /\ new.status = status /\ new.remaining_observation = obs
         /\ new.authority_hold = hold /\ new.tracked = tracked /\ new.resolved = resolved
    BY <1>4 DEF WireState
  <1> HIDE DEF new
  <1>12. non_terminal_cids(new) = non_terminal_cids(retired)
    BY <1>11, SameMembers
  <1>13. Explained(new) => consistent
    BY <1>7, <1>8, <1>11 DEF Explained
  <1>14. Rounded(ws, new, outcome, fw, D)
    BY <1>2, <1>4, <1>5, <1>6, <1>8, <1>10, <1>11, <1>12, <1>13 DEF Rounded
  <1> QED BY <1>1, <1>14 DEF D

\* What a round says of a wire keeps what is true of it.
LEMMA RoundMoves ==
  ASSUME NEW ws, WireInv(ws), NEW new, NEW outcome, NEW fw \in Nat, fw >= ws.filled_hw, NEW D,
         Rounded(ws, new, outcome, fw, D), outcome = "Fresh" => ws.generation = 0
  PROVE  /\ WireInv(new) /\ Learns(ws, new) /\ new.held = ws.held
         /\ MemberCids(new) = MemberCids(ws)
         /\ non_terminal_cids(new) = non_terminal_cids(ws) \ D
         /\ \A gapped : GapInv(ws, gapped) => GapInv(new, gapped)
  <1>1. /\ MemberCids(new) = MemberCids(ws)
        /\ non_terminal_cids(new) = non_terminal_cids(ws) \ D
    BY RetiredMembers DEF Rounded
  <1>2. new.members = <<>> <=> ws.members = <<>>
    <2>1. Len(new.members) = Len(ws.members)
      BY DEF Rounded, Retires
    <2>2. /\ new.members = <<>> <=> Len(new.members) = 0
          /\ ws.members = <<>> <=> Len(ws.members) = 0
      BY MembersSeq DEF Rounded, WireInv
    <2> QED BY <2>1, <2>2
  <1>3. WireInv(new)
    BY <1>2 DEF WireInv, Rounded
  <1>4. ws.generation \in Nat /\ ws.filled_hw \in Nat
    BY WireFields
  <1>5. Learns(ws, new)
    <2>1. \A i \in DOMAIN ws.members :
            /\ i \in DOMAIN new.members
            /\ new.members[i].cid = ws.members[i].cid
            /\ ws.members[i].role = "Terminal" => new.members[i].role = "Terminal"
      BY DEF Rounded, Retires
    <2> QED BY <1>4, <2>1 DEF Learns, Rounded
  <1>6. ASSUME NEW gapped, GapInv(ws, gapped)
        PROVE  GapInv(new, gapped)
    <2>1. /\ new.generation = ws.generation /\ new.amend_lineage = ws.amend_lineage
          /\ new.proved_current_cid = ws.proved_current_cid
          /\ new.remaining_observation # None => outcome = "Fresh"
          /\ ws.authority_hold /\ ~ new.authority_hold
               => outcome = "Fresh" \/ non_terminal_cids(new) = {}
      BY DEF Rounded
    <2>2. /\ \A g \in gapped : g \in Nat /\ 1 <= g /\ g <= ws.generation
          /\ ws.amend_lineage # None => \A g \in gapped : g <= ws.amend_lineage.pre_generation
          /\ ws.proved_current_cid # None =>
               /\ ws.proved_current_cid \in MemberCids(ws)
               /\ ws.generation \in gapped /\ ~ ws.authority_hold
                    => ws.proved_current_cid \notin non_terminal_cids(ws)
      BY <1>6 DEF GapInv
    <2>3. ~ (new.remaining_observation # None /\ new.generation > 0)
      BY <1>4, <2>1
    <2>4. outcome = "Fresh" => ws.generation \notin gapped
      BY <2>2
    <2>5. ws.proved_current_cid # None /\ ws.generation \in gapped /\ ~ new.authority_hold
            => ws.proved_current_cid \notin non_terminal_cids(new)
      BY <1>1, <2>1, <2>2, <2>4
    <2> QED BY <1>1, <2>1, <2>2, <2>3, <2>5 DEF GapInv
  <1> QED BY <1>1, <1>3, <1>5, <1>6 DEF Rounded

\* Retiring who has been retired changes nothing.
LEMMA RetiredTwice ==
  ASSUME NEW ws, NEW new \in WireState, MembersInv(new.members), NEW D,
         Retires(ws.members, new.members, D)
  PROVE  WithRole(new, D, "Terminal") = new
  <1> DEFINE ms == new.members
             again == [i \in DOMAIN ms |-> IF ms[i].cid \in D THEN Member(ms[i].cid, "Terminal")
                                           ELSE ms[i]]
  <1>1. DOMAIN ms = DOMAIN ws.members
        /\ \A i \in DOMAIN ms : /\ ms[i].cid = ws.members[i].cid
                                /\ ms[i].cid \in D => ms[i].role = "Terminal"
    BY DEF Retires
  <1>2. /\ DOMAIN ms = 1..Len(ms) /\ ms \in Seq(Memberships) /\ Len(ms) \in Nat
        /\ \A i \in DOMAIN ms : ms[i] = [cid |-> ms[i].cid, role |-> ms[i].role]
    BY MembersSeq DEF MembersInv
  <1>3. \A i \in DOMAIN ms : again[i] = ms[i]
    BY <1>1, <1>2 DEF Member
  <1>4. ms = [i \in DOMAIN ms |-> ms[i]]
    BY <1>2
  <1>5. again = ms
    BY <1>3, <1>4
  <1>6. WithRole(new, D, "Terminal") = [new EXCEPT !.members = again]
    BY DEF WithRole
  <1> HIDE DEF again
  <1>7. [new EXCEPT !.members = new.members] = new
    BY DEF WireState
  <1> QED BY <1>5, <1>6, <1>7

-----------------------------------------------------------------------------
(* A record that replaces the wire                                         *)

LEMMA RegReplaced ==
  ASSUME NEW g, NEW rows, RegSound(g, rows), NEW ws \in WireState, NEW rows2,
         \A c \in Cids : rows2[c].seq \in Nat /\ rows[c].seq \in Nat
                         /\ rows2[c].seq >= rows[c].seq
  PROVE  LET new == [g EXCEPT !.wires[wire] = ws]
         IN RegSound(new, rows2) /\ Wire(new.wires, wire) = ws
  <1> DEFINE wires == [g.wires EXCEPT ![wire] = ws]
             new == [g EXCEPT !.wires[wire] = ws]
  <1>1. /\ IsReg(g) /\ WiresOk(g.wires) /\ DOMAIN g.seen \subseteq Cids
        /\ \A c \in DOMAIN g.seen : g.seen[c].row.seq \in 0..rows[c].seq
    BY DEF RegSound
  <1>2. WiresOk(wires) /\ Wire(wires, wire) = ws
    BY <1>1, WirePut DEF WiresOk
  <1>3. new = [g EXCEPT !.wires = wires]
    OBVIOUS
  <1> HIDE DEF wires
  <1>4. new = [ok |-> g.ok, wires |-> wires, seen |-> g.seen]
    BY <1>1, <1>3, RegUpdated
  <1>5. IsReg(new) /\ new.wires = wires /\ new.seen = g.seen
    BY <1>1, <1>4 DEF IsReg
  <1> HIDE DEF new
  <1>6. ASSUME NEW c \in DOMAIN g.seen
        PROVE  g.seen[c].row.seq \in 0..rows2[c].seq
    <2>1. c \in Cids /\ g.seen[c].row.seq \in 0..rows[c].seq
      BY <1>1
    <2> DEFINE a == g.seen[c].row.seq
               b == rows[c].seq
               d == rows2[c].seq
    <2>2. a \in 0..b /\ b \in Nat /\ d \in Nat /\ b <= d
      BY <2>1
    <2> HIDE DEF a, b, d
    <2>3. a \in 0..d
      BY <2>2
    <2> QED BY <2>3 DEF a, d
  <1>7. RegSound(new, rows2)
    BY <1>1, <1>2, <1>5, <1>6 DEF RegSound
  <1> QED BY <1>2, <1>5, <1>7 DEF new

-----------------------------------------------------------------------------
(* A round that ends                                                       *)

\* The row of an order that the records of a round restore.
RebuiltOf(t, c, d) ==
    IF Of(t.members_after, c) = {} THEN d
    ELSE RebuildOrder(d, CHOOSE x \in Of(t.members_after, c) : TRUE)

LEMMA RoundRebuilt ==
  ASSUME NEW t, NEW c, NEW r, NEW new,
         Of(t.members_after, c) = {} \/ Of(t.members_after, c) = {[cid |-> c, row |-> new]},
         Of(t.members_after, c) = {} <=> new = r,
         new # r => new.seq = r.seq + 1
  PROVE  RebuiltOf(t, c, RowRebuilt(r)) = RowRebuilt(new)
  <1>1. CASE Of(t.members_after, c) = {}
    BY <1>1 DEF RebuiltOf
  <1>2. CASE Of(t.members_after, c) # {}
    <2> DEFINE o == [cid |-> c, row |-> new]
    <2>1. Of(t.members_after, c) = {o} /\ new.seq = r.seq + 1 /\ o.row = new
      BY <1>2
    <2> HIDE DEF o
    <2>2. (CHOOSE x \in Of(t.members_after, c) : TRUE) = o
      BY <2>1
    <2>3. RebuildOrder(RowRebuilt(r), o) = RowRebuilt(o.row)
      BY <2>1, RowRecorded
    <2> QED BY <1>2, <2>1, <2>2, <2>3 DEF RebuiltOf
  <1> QED BY <1>1, <1>2

\* The rows after a round: those of the members that live move on, and stay
\* bound to the wire.
RowsFollow(ws, rows, rows2, t) ==
    /\ DOMAIN rows2 = Cids
    /\ \A c \in Cids : /\ RowSound(rows2[c])
                       /\ rows2[c].ctx.venue_order_id = rows[c].ctx.venue_order_id
                       /\ rows2[c] # rows[c] => rows2[c].seq = rows[c].seq + 1
                       /\ c \notin non_terminal_cids(ws) => rows2[c] = rows[c]
                       /\ RebuiltOf(t, c, RowRebuilt(rows[c])) = RowRebuilt(rows2[c])
    /\ EndedIn(t.members_after) = {c \in non_terminal_cids(ws) : Ended(rows2[c].state)}

LEMMA MembersFollow ==
  ASSUME NEW ws, WireInv(ws), NEW rows, RolesInv(ws, rows), \A c \in Cids : RowSound(rows[c]),
         NEW row, ObservedRow(row), NEW outcome, NEW fw \in Nat,
         NEW now, \A c \in non_terminal_cids(ws) :
                    now[c] = MemberObserved(rows[c], c, ws, wire, outcome, fw, row),
         NEW t, t.members_after = MembersAfter(non_terminal_cids(ws), rows, now)
  PROVE  RowsFollow(ws, rows, apply_rows(t, rows), t)
  <1> DEFINE S == non_terminal_cids(ws)
             after == t.members_after
             rows2 == apply_rows(t, rows)
  <1>1. S \subseteq Cids
    BY LiveMembers, MembersOrders
  <1>2. \A c \in S : rows[c].ctx.venue_order_id = wire /\ ~ Ended(rows[c].state)
    BY <1>1 DEF RolesInv
  <1>3. ASSUME NEW c \in S
        PROVE  Observes(rows[c], now[c])
    <2>1. RowSound(rows[c]) /\ rows[c].ctx.venue_order_id = wire /\ row.remaining \in Nat
      BY <1>1, <1>2 DEF ObservedRow
    <2>2. Observes(rows[c], MemberObserved(rows[c], c, ws, wire, outcome, fw, row))
      BY <2>1, MemberKeeps
    <2> QED BY <2>2
  <1>4. /\ DOMAIN rows2 = Cids
        /\ \A c \in S : RowFollows(rows[c], now[c], rows2[c])
        /\ \A c \in Cids \ S : rows2[c] = rows[c]
        /\ Records(after, rows, rows2)
    BY <1>1, <1>3, RoundRows
  <1>5. MembersOf(after, S) /\ Live(S, rows)
    BY <1>2 DEF MembersAfter, MembersOf, Live
  <1> HIDE DEF S, after, rows2
  <1>6. EndedIn(after) = {c \in S : Ended(rows2[c].state)}
    BY <1>1, <1>2, <1>4, <1>5, RoundEnds
  <1>7. ASSUME NEW c \in Cids
        PROVE  /\ RowSound(rows2[c])
               /\ rows2[c].ctx.venue_order_id = rows[c].ctx.venue_order_id
               /\ rows2[c] # rows[c] => rows2[c].seq = rows[c].seq + 1
               /\ c \notin S => rows2[c] = rows[c]
    BY <1>4 DEF RowFollows
  <1>8. ASSUME NEW c \in Cids
        PROVE  RebuiltOf(t, c, RowRebuilt(rows[c])) = RowRebuilt(rows2[c])
    <2>1. /\ Of(after, c) = {} \/ Of(after, c) = {[cid |-> c, row |-> rows2[c]]}
          /\ Of(after, c) = {} <=> rows2[c] = rows[c]
      BY <1>4 DEF Records
    <2> QED BY <1>7, <2>1, RoundRebuilt DEF after
  <1> QED BY <1>4, <1>6, <1>7, <1>8 DEF RowsFollow, S, after, rows2

\* The record of a round.
RoundTxn(ws, rows, row, outcome, fw, now, t) ==
    /\ \A c \in non_terminal_cids(ws) :
         now[c] = MemberObserved(rows[c], c, ws, wire, outcome, fw, row)
    /\ t.members_after = MembersAfter(non_terminal_cids(ws), rows, now)
    /\ \E pending \in BOOLEAN :
         t.wire_after = WireAfter(ws, outcome, fw, row, t.members_after, pending)
    /\ t.wire = wire /\ t.outcome = outcome

LEMMA FinishTxn ==
  ASSUME NEW ws, WireInv(ws), NEW inv, NEW rows, NEW rnd, NEW row, ObservedRow(row),
         finish(wire, ws, inv, rows, rnd, row) # None
  PROVE  \E outcome \in ObservationOutcome, fw \in Nat :
           /\ \E now :
                RoundTxn(ws, rows, row, outcome, fw, now, finish(wire, ws, inv, rows, rnd, row))
           /\ fw >= ws.filled_hw /\ (outcome = "Fresh" => ws.generation = 0)
  <1> DEFINE sigma == SumHeld(ws, inv)
             fw == MaxOf(ws.filled_hw, row.filled)
             outcome == RoundOutcome(ws, rnd, row, sigma, fw)
             cids == non_terminal_cids(ws)
             now == [c \in cids |-> MemberObserved(rows[c], c, ws, wire, outcome, fw, row)]
             after == {[cid |-> c, row |-> [now[c] EXCEPT !.seq = @ + 1]] :
                         c \in {x \in cids : now[x] # rows[x]}}
             pending == \E c \in cids : now[c].state.kind = "ReconcilePending"
             wire_after == WireAfter(ws, outcome, fw, row, after, pending)
             t == [wire |-> wire, outcome |-> outcome, members_after |-> after,
                   wire_after |-> wire_after]
             txn == finish(wire, ws, inv, rows, rnd, row)
  <1>1. fw \in Nat /\ fw >= ws.filled_hw
    <2>1. ws.filled_hw \in Nat /\ row.filled \in Nat
      BY WireFields DEF ObservedRow
    <2> QED BY <2>1 DEF MaxOf
  <1>2. outcome \in ObservationOutcome
    BY DEF RoundOutcome, ObservationOutcome, Consistents
  <1>3. outcome = "Fresh" => ws.generation = 0
    BY DEF RoundOutcome, remaining_fresh
  <1>4. finish(wire, ws, inv, rows, rnd, row) = FinishWith(wire, ws, rows, row, outcome, fw)
    BY DEF finish
  <1> HIDE DEF sigma, fw, outcome
  <1>5. FinishWith(wire, ws, rows, row, outcome, fw) \in {t, None}
    BY DEF FinishWith
  <1>6. txn = t
    BY <1>4, <1>5
  <1>7. \A c \in cids : now[c] = MemberObserved(rows[c], c, ws, wire, outcome, fw, row)
    OBVIOUS
  <1>8. after = MembersAfter(cids, rows, now)
    BY DEF MembersAfter
  <1>9. pending \in BOOLEAN
    OBVIOUS
  <1> HIDE DEF now, pending, after, wire_after, txn
  <1>10. t.members_after = after /\ t.wire_after = wire_after
         /\ t.wire = wire /\ t.outcome = outcome
    OBVIOUS
  <1> HIDE DEF t
  <1>11. wire_after = WireAfter(ws, outcome, fw, row, after, pending)
    BY DEF wire_after
  <1>12. RoundTxn(ws, rows, row, outcome, fw, now, txn)
    BY <1>6, <1>7, <1>8, <1>9, <1>10, <1>11 DEF RoundTxn
  <1> QED BY <1>1, <1>2, <1>3, <1>12 DEF txn

\* A round that is recorded and applied to the memory it was finished from.
AuditedBy(t, ws, audited) == IF t.outcome \in Consistents THEN ws.held ELSE audited

LEMMA RoundKeeps ==
  ASSUME NEW rows, NEW inv, NEW g, NEW audited, NEW gapped,
         Sound(rows, inv, g, audited, gapped), NEW row, ObservedRow(row),
         NEW t, NEW outcome \in ObservationOutcome, NEW fw \in Nat, NEW now,
         fw >= Wire(g.wires, wire).filled_hw,
         outcome = "Fresh" => Wire(g.wires, wire).generation = 0,
         RoundTxn(Wire(g.wires, wire), rows, row, outcome, fw, now, t)
  PROVE  LET ws == Wire(g.wires, wire)
             rows2 == apply_rows(t, rows)
             g2 == [g EXCEPT !.wires[wire] = t.wire_after]
         IN /\ Sound(rows2, inv, g2, AuditedBy(t, ws, audited), gapped)
            /\ Learns(ws, Wire(g2.wires, wire))
            /\ FoldObservation(g, t) = g2
            /\ RowsFollow(ws, rows, rows2, t)
  <1> DEFINE ws == Wire(g.wires, wire)
             new == t.wire_after
             rows2 == apply_rows(t, rows)
             g2 == [g EXCEPT !.wires[wire] = new]
             D == EndedIn(t.members_after)
             audited2 == AuditedBy(t, ws, audited)
  <1>1. MemorySound(rows, inv) /\ RegSound(g, rows)
        /\ WireInv(ws) /\ RolesInv(ws, rows) /\ ws.held = OfWire(inv)
        /\ AuditInv(ws, inv, audited) /\ GapInv(ws, gapped)
    BY DEF Sound, WireSound
  <1>2. fw >= ws.filled_hw /\ (outcome = "Fresh" => ws.generation = 0)
        /\ RoundTxn(ws, rows, row, outcome, fw, now, t)
    OBVIOUS
  <1> HIDE DEF ws
  <1>3. RowsFollow(ws, rows, rows2, t)
    <2>1. \A c \in Cids : RowSound(rows[c])
      BY <1>1 DEF MemorySound
    <2>2. /\ \A c \in non_terminal_cids(ws) :
               now[c] = MemberObserved(rows[c], c, ws, wire, outcome, fw, row)
          /\ t.members_after = MembersAfter(non_terminal_cids(ws), rows, now)
      BY <1>2 DEF RoundTxn
    <2> QED BY <1>1, <2>1, <2>2, MembersFollow
  <1>4. Rounded(ws, new, outcome, fw, D)
    <2>1. PICK pending \in BOOLEAN :
            new = WireAfter(ws, outcome, fw, row, t.members_after, pending)
      BY <1>2 DEF RoundTxn
    <2>2. Rounded(ws, WireAfter(ws, outcome, fw, row, t.members_after, pending), outcome, fw, D)
      BY <1>1, WireRounded
    <2> QED BY <2>1, <2>2
  <1>5. t.outcome = outcome /\ t.wire = wire
    BY <1>2 DEF RoundTxn
  <1> HIDE DEF rows2, new, D
  <1>6. /\ WireInv(new) /\ Learns(ws, new) /\ new.held = ws.held
        /\ MemberCids(new) = MemberCids(ws)
        /\ non_terminal_cids(new) = non_terminal_cids(ws) \ D
        /\ GapInv(new, gapped)
    BY <1>1, <1>2, <1>4, RoundMoves
  <1>7. D = {c \in non_terminal_cids(ws) : Ended(rows2[c].state)}
    BY <1>3 DEF RowsFollow, D
  <1>8. ASSUME NEW c \in Cids
        PROVE  /\ RowSound(rows2[c])
               /\ rows2[c].ctx.venue_order_id = rows[c].ctx.venue_order_id
               /\ c \notin non_terminal_cids(ws) => rows2[c] = rows[c]
               /\ rows2[c] # rows[c] => rows2[c].seq = rows[c].seq + 1
    BY <1>3 DEF RowsFollow
  <1>9. RolesInv(new, rows2)
    <2>1. ASSUME NEW c \in Cids
          PROVE  /\ c \in MemberCids(new) <=> rows2[c].ctx.venue_order_id = wire
                 /\ c \in non_terminal_cids(new)
                      <=> rows2[c].ctx.venue_order_id = wire /\ ~ Ended(rows2[c].state)
      <3>1. /\ c \in MemberCids(ws) <=> rows[c].ctx.venue_order_id = wire
            /\ c \in non_terminal_cids(ws)
                 <=> rows[c].ctx.venue_order_id = wire /\ ~ Ended(rows[c].state)
        BY <1>1 DEF RolesInv
      <3> QED BY <1>6, <1>7, <1>8, <3>1
    <2> QED BY <2>1 DEF RolesInv
  <1>10. AuditInv(new, inv, audited2)
    <2>1. Explained(new) => audited2 = ws.held
      BY <1>4, <1>5 DEF Rounded, AuditedBy
    <2> HIDE DEF audited2
    <2> QED BY <1>6, <2>1 DEF AuditInv
  <1> HIDE DEF audited2
  <1>11. MemorySound(rows2, inv)
    BY <1>1, <1>3, <1>8 DEF MemorySound, RowsFollow
  <1>12. RegSound(g2, rows2) /\ Wire(g2.wires, wire) = new
    <2>1. \A c \in Cids : rows2[c].seq \in Nat /\ rows[c].seq \in Nat
                          /\ rows2[c].seq >= rows[c].seq
      <3>1. ASSUME NEW c \in Cids
            PROVE  rows2[c].seq \in Nat /\ rows[c].seq \in Nat /\ rows2[c].seq >= rows[c].seq
        <4>1. rows2[c].seq \in Nat /\ rows[c].seq \in Nat
          BY <1>1, <1>8 DEF RowSound, MemorySound
        <4> QED BY <1>8, <4>1
      <3> QED BY <3>1
    <2>2. new \in WireState
      BY <1>6 DEF WireInv
    <2> QED BY <1>1, <2>1, <2>2, RegReplaced
  <1>13. FoldObservation(g, t) = g2
    <2>1. WithRole(new, D, "Terminal") = new
      <3>1. /\ new \in WireState /\ MembersInv(new.members)
            /\ Retires(ws.members, new.members, D)
        BY <1>4 DEF Rounded
      <3> QED BY <3>1, RetiredTwice
    <2>2. FoldObservation(g, t) = [g EXCEPT !.wires[t.wire] = WithRole(new, D, "Terminal")]
      BY DEF FoldObservation, new, D, EndedIn
    <2> QED BY <1>5, <2>1, <2>2
  <1> HIDE DEF g2
  <1>14. WireSound(new, rows2, inv, audited2, gapped)
    BY <1>1, <1>6, <1>9, <1>10 DEF WireSound
  <1>15. Sound(rows2, inv, g2, audited2, gapped) /\ Learns(ws, Wire(g2.wires, wire))
    BY <1>6, <1>11, <1>12, <1>14 DEF Sound
  <1> QED BY <1>3, <1>13, <1>15 DEF g2, rows2, new, ws, audited2

\* What a crash restores after a round is what the round leaves.
RoundRecorded(d, t) ==
    [d EXCEPT !.orders = [c \in Cids |-> RebuiltOf(t, c, d.orders[c])],
              !.reg = FoldObservation(d.reg, t)]

LEMMA RoundRestored ==
  ASSUME NEW rows, NEW inv, NEW g, NEW t, NEW rows2, NEW ws, RowsFollow(ws, rows, rows2, t)
  PROVE  RoundRecorded(Restored(rows, inv, g), t) = Restored(rows2, inv, FoldObservation(g, t))
  <1> DEFINE x == InventoryRebuilt(inv)
             y == [c \in Cids |-> RowRebuilt(rows[c])]
             z == [c \in Cids |-> RowRebuilt(rows2[c])]
             h == FoldObservation(g, t)
             d == [inventory |-> x, orders |-> y, reg |-> g]
  <1>1. Restored(rows, inv, g) = d /\ d.orders = y /\ d.reg = g
    BY DEF Restored
  <1>2. \A c \in Cids : RebuiltOf(t, c, y[c]) = RowRebuilt(rows2[c])
    BY DEF RowsFollow
  <1>3. [c \in Cids |-> RebuiltOf(t, c, y[c])] = z
    BY <1>2
  <1>4. RoundRecorded(d, t) = [d EXCEPT !.orders = z, !.reg = h]
    BY <1>1, <1>3 DEF RoundRecorded
  <1> HIDE DEF x, y, z, h
  <1>5. [d EXCEPT !.orders = z] = [inventory |-> x, orders |-> z, reg |-> g]
    OBVIOUS
  <1>6. \A v : v = [inventory |-> x, orders |-> z, reg |-> g]
               => [v EXCEPT !.reg = h] = [inventory |-> x, orders |-> z, reg |-> h]
    OBVIOUS
  <1>7. [d EXCEPT !.orders = z, !.reg = h] = [inventory |-> x, orders |-> z, reg |-> h]
    BY <1>5, <1>6
  <1> HIDE DEF d
  <1> QED BY <1>1, <1>4, <1>7 DEF Restored, x, z, h

-----------------------------------------------------------------------------
(* Lineages, frames, holds and proofs                                      *)

\* A wire of which only what was reported, sent or proved has changed.
Restated(ws, new) ==
    /\ new \in WireState /\ new.members = ws.members /\ new.kind = ws.kind
    /\ new.held = ws.held /\ new.generation = ws.generation
    /\ new.filled_hw = ws.filled_hw /\ new.status = ws.status
    /\ new.tracked = ws.tracked /\ new.resolved = ws.resolved

LEMMA RestatedKeeps ==
  ASSUME NEW rows, NEW inv, NEW g, NEW audited, NEW gapped,
         Sound(rows, inv, g, audited, gapped),
         NEW new, Restated(Wire(g.wires, wire), new), NEW gapped2, GapInv(new, gapped2)
  PROVE  LET g2 == [g EXCEPT !.wires[wire] = new]
         IN /\ Sound(rows, inv, g2, audited, gapped2)
            /\ Learns(Wire(g.wires, wire), Wire(g2.wires, wire))
  <1> DEFINE ws == Wire(g.wires, wire)
             g2 == [g EXCEPT !.wires[wire] = new]
  <1>1. MemorySound(rows, inv) /\ RegSound(g, rows)
        /\ WireInv(ws) /\ RolesInv(ws, rows) /\ ws.held = OfWire(inv)
        /\ AuditInv(ws, inv, audited)
    BY DEF Sound, WireSound
  <1>2. Restated(ws, new)
    OBVIOUS
  <1> HIDE DEF ws
  <1>3. WireInv(new) /\ Learns(ws, new) /\ new.held = ws.held
    BY <1>1, <1>2, LearnsSame DEF Restated, WireInv
  <1>4. MemberCids(new) = MemberCids(ws) /\ non_terminal_cids(new) = non_terminal_cids(ws)
    BY <1>2, SameMembers DEF Restated
  <1>5. RolesInv(new, rows) /\ AuditInv(new, inv, audited)
    BY <1>1, <1>2, <1>4 DEF RolesInv, AuditInv, Explained, Restated
  <1>6. WireSound(new, rows, inv, audited, gapped2)
    BY <1>1, <1>3, <1>5 DEF WireSound
  <1>7. RegSound(g2, rows) /\ Wire(g2.wires, wire) = new
    <2>1. \A c \in Cids : rows[c].seq \in Nat /\ rows[c].seq \in Nat /\ rows[c].seq >= rows[c].seq
      BY <1>1 DEF MemorySound, RowSound
    <2>2. new \in WireState
      BY <1>3 DEF WireInv
    <2> QED BY <1>1, <2>1, <2>2, RegReplaced
  <1> HIDE DEF g2
  <1> QED BY <1>1, <1>3, <1>6, <1>7 DEF Sound, g2, ws

\* A lineage, or its end; it may not be older than a withdrawn generation.
LEMMA LineageRestates ==
  ASSUME NEW ws, WireInv(ws), NEW gapped, GapInv(ws, gapped), NEW l \in Opt(AmendLineage),
         l # None => \A n \in gapped : n <= l.pre_generation
  PROVE  LET new == [ws EXCEPT !.amend_lineage = l]
         IN Restated(ws, new) /\ GapInv(new, gapped)
  <1> DEFINE new == [ws EXCEPT !.amend_lineage = l]
  <1>1. /\ Restated(ws, new) /\ new.amend_lineage = l
        /\ new.proved_current_cid = ws.proved_current_cid
        /\ new.remaining_observation = ws.remaining_observation
        /\ new.authority_hold = ws.authority_hold
    BY DEF Restated, WireInv, WireState
  <1> HIDE DEF new
  <1>2. MemberCids(new) = MemberCids(ws) /\ non_terminal_cids(new) = non_terminal_cids(ws)
        /\ new.generation = ws.generation
    BY <1>1, SameMembers DEF Restated
  <1>3. GapInv(new, gapped)
    BY <1>1, <1>2 DEF GapInv
  <1> QED BY <1>1, <1>3 DEF new

\* A frame proves nothing by itself.
LEMMA FrameRestates ==
  ASSUME NEW ws, WireInv(ws), NEW gapped, GapInv(ws, gapped), NEW e \in UserOrderEvidence,
         NEW p \in Nat
  PROVE  LET new == [ws EXCEPT !.latest_user_order = e, !.latest_user_order_revision = p + 1]
         IN Restated(ws, new) /\ GapInv(new, gapped)
  <1> DEFINE q == p + 1
             new == [ws EXCEPT !.latest_user_order = e, !.latest_user_order_revision = q]
  <1>1. q \in Nat /\ e \in Opt(UserOrderEvidence)
    BY DEF Opt
  <1> HIDE DEF q
  <1>2. /\ Restated(ws, new) /\ new.amend_lineage = ws.amend_lineage
        /\ new.proved_current_cid = ws.proved_current_cid
        /\ new.remaining_observation = ws.remaining_observation
        /\ new.authority_hold = ws.authority_hold
    BY <1>1 DEF Restated, WireInv, WireState
  <1> HIDE DEF new
  <1>3. MemberCids(new) = MemberCids(ws) /\ non_terminal_cids(new) = non_terminal_cids(ws)
        /\ new.generation = ws.generation
    BY <1>2, SameMembers DEF Restated
  <1>4. GapInv(new, gapped)
    BY <1>2, <1>3 DEF GapInv
  <1> QED BY <1>2, <1>4 DEF new, q

\* A hold withdraws the generation, unless an amend decides about it.
Withdrawn(ws, gapped) ==
    IF ws.generation > 0 /\ ws.amend_lineage = None THEN gapped \cup {ws.generation} ELSE gapped

LEMMA HoldRestates ==
  ASSUME NEW ws, WireInv(ws), NEW gapped, GapInv(ws, gapped), NEW p \in Nat
  PROVE  LET new == [ws EXCEPT !.authority_hold = TRUE, !.authority_hold_revision = p + 1]
         IN Restated(ws, new) /\ GapInv(new, Withdrawn(ws, gapped))
  <1> DEFINE q == p + 1
             y == TRUE
             new == [ws EXCEPT !.authority_hold = y, !.authority_hold_revision = q]
  <1>1. q \in Nat /\ y \in BOOLEAN /\ ws.generation \in Nat /\ y = TRUE
    BY WireFields
  <1> HIDE DEF q, y
  <1>2. /\ Restated(ws, new) /\ new.amend_lineage = ws.amend_lineage
        /\ new.proved_current_cid = ws.proved_current_cid
        /\ new.remaining_observation = ws.remaining_observation
        /\ new.authority_hold = y
    BY <1>1 DEF Restated, WireInv, WireState
  <1> HIDE DEF new
  <1>3. MemberCids(new) = MemberCids(ws) /\ new.generation = ws.generation
    BY <1>2, SameMembers DEF Restated
  <1>4. /\ \A n \in gapped : n \in Nat /\ 1 <= n /\ n <= ws.generation
        /\ ws.amend_lineage # None => \A n \in gapped : n <= ws.amend_lineage.pre_generation
    BY DEF GapInv
  <1>5. \A n \in Withdrawn(ws, gapped) : n \in Nat /\ 1 <= n /\ n <= ws.generation
    BY <1>1, <1>4 DEF Withdrawn
  <1>6. ws.amend_lineage # None
          => \A n \in Withdrawn(ws, gapped) : n <= ws.amend_lineage.pre_generation
    BY <1>4 DEF Withdrawn
  <1>7. GapInv(new, Withdrawn(ws, gapped))
    BY <1>1, <1>2, <1>3, <1>5, <1>6 DEF GapInv
  <1> QED BY <1>2, <1>7 DEF new, q, y

\* What is proved is proved of the current order, in a generation that was not
\* withdrawn; the proof may end the hold.
LEMMA ProofRestates ==
  ASSUME NEW ws, WireInv(ws), NEW gapped, GapInv(ws, gapped), NEW c, c # None, current(ws) = c,
         NEW remaining \in Nat, NEW hold \in BOOLEAN, ws.generation \notin gapped,
         NEW new, new = [Proved(ws, c, remaining) EXCEPT !.authority_hold = hold]
  PROVE  Restated(ws, new) /\ GapInv(new, gapped)
  <1> DEFINE obs == [remaining |-> remaining, covered |-> ws.held, generation |-> ws.generation]
             fresh == "Fresh"
             none == None
             p == [ws EXCEPT !.last = fresh, !.remaining_observation = obs,
                             !.proved_current_cid = c, !.amend_lineage = none]
  <1>1. new = [p EXCEPT !.authority_hold = hold]
    BY DEF Proved
  <1>2. c \in MemberCids(ws) /\ c \in Cids
    BY CurrentMember
  <1>3. obs \in RemainingObservation
    BY WireFields DEF RemainingObservation
  <1>4. /\ fresh \in Opt(ObservationOutcome) /\ obs \in Opt(RemainingObservation)
        /\ none \in Opt(AmendLineage) /\ c \in Opt(Cids) /\ none = None
    BY <1>2, <1>3 DEF Opt, ObservationOutcome, Consistents
  <1> HIDE DEF obs, fresh, none
  <1>5. /\ p \in WireState /\ p.members = ws.members /\ p.kind = ws.kind
        /\ p.held = ws.held /\ p.generation = ws.generation
        /\ p.filled_hw = ws.filled_hw /\ p.status = ws.status
        /\ p.tracked = ws.tracked /\ p.resolved = ws.resolved
        /\ p.amend_lineage = none /\ p.proved_current_cid = c
    BY <1>4 DEF WireInv, WireState
  <1> HIDE DEF p
  <1>6. Restated(ws, new) /\ new.amend_lineage = none /\ new.proved_current_cid = c
    BY <1>1, <1>5 DEF Restated, WireState
  <1>7. MemberCids(new) = MemberCids(ws) /\ new.generation = ws.generation
    BY <1>6, SameMembers DEF Restated
  <1>8. GapInv(new, gapped)
    BY <1>2, <1>4, <1>6, <1>7 DEF GapInv
  <1> QED BY <1>6, <1>8

\* The lineage of an open amend began in the generation before the proved one.
LEMMA AmendedGeneration ==
  ASSUME NEW ws, WireInv(ws), NEW gapped, GapInv(ws, gapped), ws.amend_lineage # None,
         ws.generation = ws.amend_lineage.pre_generation + 1
  PROVE  ws.generation \notin gapped /\ ws.amend_lineage.new_cid \in Cids
  <1> DEFINE l == ws.amend_lineage
             p == l.pre_generation
  <1>1. l \in AmendLineage
    BY WireFields DEF Opt
  <1>2. p \in Nat /\ l.new_cid \in Cids
    BY <1>1, QtyAssumption DEF AmendLineage
  <1>3. \A n \in gapped : n \in Nat /\ n <= p
    BY DEF GapInv
  <1>4. ws.generation = p + 1
    OBVIOUS
  <1> HIDE DEF p
  <1>5. ws.generation \notin gapped
    BY <1>2, <1>3, <1>4
  <1> QED BY <1>2, <1>5

\* A frame proves the remaining of the current order.
LEMMA FrameProves ==
  ASSUME NEW ws, WireInv(ws), NEW gapped, GapInv(ws, gapped), NEW inv,
         prepare_order_state_resting(ws, inv) # None
  PROVE  LET new == prepare_order_state_resting(ws, inv)
         IN Restated(ws, new) /\ GapInv(new, gapped)
  <1> DEFINE e == ws.latest_user_order
             c == e.cid
             n == e.remaining
             hold == ws.authority_hold
             new == prepare_order_state_resting(ws, inv)
             p == Proved(ws, c, n)
  <1>1. /\ ~ hold /\ e # None /\ current(ws) = c /\ FrameProvesGeneration(ws, e)
        /\ new = p
    BY DEF prepare_order_state_resting
  <1>2. e \in UserOrderEvidence
    BY <1>1, WireFields DEF Opt
  <1>3. c \in Cids /\ n \in Nat /\ c # None
    BY <1>2, RowAssumption DEF UserOrderEvidence
  <1>4. hold \in BOOLEAN /\ ws.generation \in Nat
    BY WireFields
  <1>5. p = [p EXCEPT !.authority_hold = hold]
    BY DEF Proved, WireInv, WireState
  <1>6. ws.generation \notin gapped
    <2>1. CASE ws.amend_lineage # None
      BY <1>1, <2>1, AmendedGeneration DEF FrameProvesGeneration
    <2>2. CASE ws.amend_lineage = None
      <3>1. ws.generation = 0 \/ ws.proved_current_cid = c
        BY <1>1, <2>2 DEF FrameProvesGeneration
      <3>2. c \in non_terminal_cids(ws)
        BY <1>1, <1>3, CurrentMember
      <3>3. /\ \A k \in gapped : k \in Nat /\ 1 <= k
            /\ (ws.proved_current_cid # None /\ ws.generation \in gapped /\ ~ hold)
                 => ws.proved_current_cid \notin non_terminal_cids(ws)
        BY DEF GapInv
      <3> QED BY <1>1, <1>3, <3>1, <3>2, <3>3
    <2> QED BY <2>1, <2>2
  <1>7. current(ws) = c
    BY <1>1
  <1> HIDE DEF c, n, hold, p
  <1>8. Restated(ws, p) /\ GapInv(p, gapped)
    <2>1. p = [Proved(ws, c, n) EXCEPT !.authority_hold = hold]
      BY <1>5 DEF p
    <2> QED BY <1>3, <1>4, <1>6, <1>7, <2>1, ProofRestates
  <1> QED BY <1>1, <1>8

\* An order page proves an amend.
LEMMA RestProves ==
  ASSUME NEW ws, WireInv(ws), NEW gapped, GapInv(ws, gapped), NEW inv, NEW c, NEW filled,
         NEW remaining \in Nat, NEW initial,
         prepare_rest_order_proof(ws, inv, c, filled, remaining, initial) # None
  PROVE  LET new == prepare_rest_order_proof(ws, inv, c, filled, remaining, initial)
         IN Restated(ws, new) /\ GapInv(new, gapped)
  <1> DEFINE l == ws.amend_lineage
             new == prepare_rest_order_proof(ws, inv, c, filled, remaining, initial)
             hold == FALSE
  <1>1. /\ l # None /\ current(ws) = c /\ l.new_cid = c
        /\ ws.generation = l.pre_generation + 1
        /\ new = [Proved(ws, c, remaining) EXCEPT !.authority_hold = hold]
    BY DEF prepare_rest_order_proof
  <1>2. hold \in BOOLEAN
    OBVIOUS
  <1> HIDE DEF hold, new
  <1>3. ws.generation \notin gapped /\ c \in Cids
    BY <1>1, AmendedGeneration
  <1>4. c # None
    BY <1>3, RowAssumption
  <1>5. Restated(ws, new) /\ GapInv(new, gapped)
    BY <1>1, <1>2, <1>3, <1>4, ProofRestates
  <1> QED BY <1>5 DEF new

-----------------------------------------------------------------------------
(* The inductive invariant                                                 *)

\* The venue's order; a resting one has something left.
VenueSound(vn) ==
    /\ vn = [cid |-> vn.cid, size |-> vn.size, fills |-> vn.fills, status |-> vn.status,
             versions |-> vn.versions]
    /\ vn.cid \in Cids /\ vn.size \in Nat
    /\ vn.status \in {"Resting", "Canceled", "Executed"}
    /\ vn.fills \subseteq FillIds /\ IsFiniteSet(vn.fills)
    /\ vn.versions \subseteq UserOrderEvidence /\ IsFiniteSet(vn.versions)
    /\ vn.status = "Resting" => Cardinality(vn.fills) < vn.size

\* The own action in flight; a decrease binds no order.
ActionSound(a) == a # None => a \in OwnActions /\ (a.new = None => a.bound)

GhostSound(h) == h = [audited |-> h.audited, gapped |-> h.gapped, rounds |-> h.rounds]

\* The memory is sound, the journal restores it, and the venue reports orders.
Inv ==
    /\ Sound(orders, inventory, reg, ghost.audited, ghost.gapped)
    /\ durable = Restored(orders, inventory, reg)
    /\ VenueSound(venue) /\ ActionSound(action)
    /\ pos \in Nat /\ GhostSound(ghost)

\* What a step of the shell keeps, apart from the venue and the own action.
Shell == /\ Sound(orders, inventory, reg, ghost.audited, ghost.gapped)
         /\ durable = Restored(orders, inventory, reg)
         /\ pos \in Nat /\ GhostSound(ghost)
Tells == Learns(Ws, Wire(reg'.wires, wire))

\* A step that leaves memory and journal alone.
LEMMA ShellSame ==
  ASSUME Shell, UNCHANGED <<orders, inventory, reg, durable, pos>>,
         ghost'.audited = ghost.audited, ghost'.gapped = ghost.gapped, GhostSound(ghost)'
  PROVE  Shell' /\ Tells
  <1>1. Shell'
    BY DEF Shell
  <1>2. WireInv(Ws)
    BY DEF Shell, Sound, WireSound, Ws
  <1>3. Learns(Ws, Ws)
    BY <1>2, LearnsSame
  <1>4. Wire(reg'.wires, wire) = Ws
    BY DEF Ws
  <1> QED BY <1>1, <1>3, <1>4 DEF Tells

\* A record that replaces the wire, and is restored as it was written.
LEMMA ShellRestated ==
  ASSUME Shell, NEW new, Restated(Ws, new), GapInv(new, ghost'.gapped),
         reg' = [reg EXCEPT !.wires[wire] = new],
         durable' = [durable EXCEPT !.reg = [durable.reg EXCEPT !.wires[wire] = new]],
         UNCHANGED <<orders, inventory>>, pos' \in Nat,
         ghost'.audited = ghost.audited, GhostSound(ghost)'
  PROVE  Shell' /\ Tells
  <1> DEFINE g2 == [reg EXCEPT !.wires[wire] = new]
  <1>1. /\ Sound(orders, inventory, reg, ghost.audited, ghost.gapped)
        /\ durable = Restored(orders, inventory, reg)
    BY DEF Shell
  <1>2. Sound(orders, inventory, g2, ghost.audited, ghost'.gapped)
        /\ Learns(Ws, Wire(g2.wires, wire))
    BY <1>1, RestatedKeeps DEF Ws
  <1>3. durable' = Restored(orders, inventory, g2)
    <2> DEFINE x == InventoryRebuilt(inventory)
               y == [c \in Cids |-> RowRebuilt(orders[c])]
               d == [inventory |-> x, orders |-> y, reg |-> reg]
    <2>1. durable = d
      BY <1>1 DEF Restored
    <2>2. durable' = [d EXCEPT !.reg = g2]
      BY <2>1
    <2> HIDE DEF g2, x, y
    <2>3. durable' = [inventory |-> x, orders |-> y, reg |-> g2]
      BY <2>2
    <2> QED BY <2>3 DEF Restored, x, y
  <1> HIDE DEF g2
  <1>4. reg' = g2
    BY DEF g2
  <1>5. Shell'
    BY <1>2, <1>3, <1>4 DEF Shell
  <1> QED BY <1>2, <1>4, <1>5 DEF Tells

-----------------------------------------------------------------------------
(* The venue's steps and the own actions                                   *)

\* A new version of the order.
LEMMA VersionedSound ==
  ASSUME NEW vn, VenueSound(vn)
  PROVE  VenueSound(Versioned(vn))
  <1> DEFINE c == vn.cid
             n == vn.size
             st == vn.status
             k == Cardinality(vn.fills)
             r == Remaining(vn)
             u == Cardinality(vn.versions)
             s == Snapshot(vn)
             new == Versioned(vn)
  <1>1. /\ vn = [cid |-> c, size |-> n, fills |-> vn.fills, status |-> st,
                 versions |-> vn.versions]
        /\ c \in Cids /\ n \in Nat /\ st \in {"Resting", "Canceled", "Executed"}
        /\ vn.fills \subseteq FillIds /\ IsFiniteSet(vn.fills)
        /\ vn.versions \subseteq UserOrderEvidence /\ IsFiniteSet(vn.versions)
        /\ st = "Resting" => k < n
    BY DEF VenueSound
  <1>2. k \in Nat /\ u \in Nat
    BY <1>1, FS_CardinalityType
  <1>3. r = IF st = "Resting" THEN n - k ELSE 0
    BY DEF Remaining
  <1>4. s = [cid |-> c, status |-> st, initial |-> n, filled |-> k, remaining |-> r,
             updated_ts |-> u]
    BY DEF Snapshot
  <1>5. new = [vn EXCEPT !.versions = vn.versions \cup {s}]
    BY DEF Versioned
  <1> HIDE DEF c, n, st, k, u, r, new, s
  <1>6. r \in Nat
    BY <1>1, <1>2, <1>3
  <1>7. s \in UserOrderEvidence
    BY <1>1, <1>2, <1>4, <1>6 DEF UserOrderEvidence
  <1> DEFINE vs == vn.versions \cup {s}
  <1>8. vs \subseteq UserOrderEvidence /\ IsFiniteSet(vs)
    BY <1>1, <1>7, FS_AddElement
  <1>9. new = [vn EXCEPT !.versions = vs]
    BY <1>5
  <1> HIDE DEF vs
  <1>10. new = [cid |-> c, size |-> n, fills |-> vn.fills, status |-> st, versions |-> vs]
    BY <1>1, <1>9
  <1>11. VenueSound(new)
    BY <1>1, <1>8, <1>10 DEF VenueSound, k
  <1> QED BY <1>11 DEF new

\* The version the venue makes: a fill, a cancel or the own action it applies.
VenueChanged(x) ==
    /\ VenueSound(x) /\ venue' = Versioned(x) /\ x.versions = venue.versions
    /\ venue.status = "Resting" /\ Cardinality(venue.versions) < MaxVersion
    /\ \/ action' = action /\ x.cid = venue.cid /\ x.size = venue.size
       \/ /\ action \in OwnActions /\ action # None /\ ~ action.applied
          /\ (action.new = None => action.bound)
          /\ x.cid = OrElse(action.new, venue.cid) /\ x.size = action.size
          /\ action' # None /\ action'.applied /\ action'.new = action.new
          /\ action'.bound = action.bound /\ action'.observed = action.observed

LEMMA VenueSteps ==
  ASSUME Inv, (\E f \in FillIds : VenueFill(f)) \/ VenueCancel \/ VenueApply
  PROVE  /\ UNCHANGED local /\ VenueSound(venue') /\ ActionSound(action')
         /\ \E x : VenueChanged(x)
  <1> DEFINE c == venue.cid
             n == venue.size
             fs == venue.fills
             st == venue.status
             vs == venue.versions
             k == Cardinality(fs)
  <1>1. /\ venue = [cid |-> c, size |-> n, fills |-> fs, status |-> st, versions |-> vs]
        /\ c \in Cids /\ n \in Nat
        /\ fs \subseteq FillIds /\ IsFiniteSet(fs)
        /\ vs \subseteq UserOrderEvidence /\ IsFiniteSet(vs)
        /\ st = "Resting" => k < n
    BY DEF Inv, VenueSound
  <1>2. ActionSound(action)
    BY DEF Inv
  <1>3. k \in Nat
    BY <1>1, FS_CardinalityType
  <1>4. CASE \E f \in FillIds : VenueFill(f)
    <2>1. PICK f \in FillIds : VenueFill(f)
      BY <1>4
    <2> DEFINE gs == fs \cup {f}
               filled == [venue EXCEPT !.fills = gs]
               s2 == IF Cardinality(gs) = n THEN "Executed" ELSE "Resting"
               v2 == [filled EXCEPT !.status = s2]
    <2>2. filled = [cid |-> c, size |-> n, fills |-> gs, status |-> st, versions |-> vs]
      <3> HIDE DEF c, n, fs, gs, st, vs
      <3>1. venue = [cid |-> c, size |-> n, fills |-> fs, status |-> st, versions |-> vs]
        BY <1>1
      <3> QED BY <3>1
    <2>3. st = "Resting" /\ f \notin fs /\ UNCHANGED local /\ UNCHANGED action
          /\ venue' = Versioned(v2)
      <3>1. filled.fills = gs
        BY <2>2
      <3> QED BY <2>1, <3>1 DEF VenueFill, VenueChanges
    <2>4. gs \subseteq FillIds /\ IsFiniteSet(gs) /\ Cardinality(gs) = k + 1
      BY <1>1, <2>3, FS_AddElement
    <2>5. s2 \in {"Resting", "Canceled", "Executed"}
          /\ (s2 = "Resting" => Cardinality(gs) < n)
      <3> HIDE DEF gs, n, k
      <3> QED BY <1>1, <1>3, <2>3, <2>4
    <2> HIDE DEF gs, s2, c, n, fs, st, vs, filled
    <2>6. v2 = [cid |-> c, size |-> n, fills |-> gs, status |-> s2, versions |-> vs]
      BY <2>2
    <2>7. VenueSound(v2)
      BY <1>1, <2>4, <2>5, <2>6 DEF VenueSound
    <2>8. venue.status = "Resting" /\ Cardinality(venue.versions) < MaxVersion
      BY <2>1 DEF VenueFill, VenueChanges
    <2>9. VenueChanged(v2)
      BY <2>3, <2>6, <2>7, <2>8 DEF VenueChanged, c, n, vs
    <2> QED BY <1>2, <2>3, <2>7, <2>9, VersionedSound
  <1>5. CASE VenueCancel
    <2> DEFINE canceled == "Canceled"
               v2 == [venue EXCEPT !.status = canceled]
    <2>1. UNCHANGED local /\ UNCHANGED action /\ venue' = Versioned(v2)
      BY <1>5 DEF VenueCancel, VenueChanges
    <2>2. canceled = "Canceled"
      OBVIOUS
    <2> HIDE DEF c, n, fs, st, vs, canceled
    <2>3. v2 = [cid |-> c, size |-> n, fills |-> fs, status |-> canceled, versions |-> vs]
      BY <1>1
    <2>4. VenueSound(v2)
      BY <1>1, <2>2, <2>3 DEF VenueSound
    <2>5. venue.status = "Resting" /\ Cardinality(venue.versions) < MaxVersion
      BY <1>5 DEF VenueCancel, VenueChanges
    <2>6. VenueChanged(v2)
      BY <2>1, <2>3, <2>4, <2>5 DEF VenueChanged, c, n, vs
    <2> QED BY <1>2, <2>1, <2>4, <2>6, VersionedSound
  <1>6. CASE VenueApply
    <2> DEFINE c2 == OrElse(action.new, c)
               m == action.size
               v1 == [venue EXCEPT !.size = m]
               v2 == [v1 EXCEPT !.cid = c2]
               rests == action.size - k
               a1 == [action EXCEPT !.applied = TRUE]
               a2 == [a1 EXCEPT !.rests = rests]
    <2>1. /\ UNCHANGED local /\ st = "Resting" /\ m > k /\ action # None
          /\ venue' = Versioned(v2) /\ action' = a2
      BY <1>6 DEF VenueApply, VenueChanges
    <2>2. action \in OwnActions /\ (action.new = None => action.bound)
      BY <1>2, <2>1 DEF ActionSound
    <2>3. m \in Nat /\ c2 \in Cids
      BY <1>1, <2>2 DEF OwnActions, OrElse, Opt
    <2>4. rests \in Nat
      BY <1>3, <2>1, <2>3
    <2>5. /\ a1 \in OwnActions /\ a1.new = action.new /\ a1.bound = action.bound
          /\ a1.applied /\ a1.observed = action.observed
      BY <2>2 DEF OwnActions
    <2>0. ~ action.applied /\ Cardinality(venue.versions) < MaxVersion
      BY <1>6 DEF VenueApply, VenueChanges
    <2> HIDE DEF rests, a1, c2, m, c, n, fs, st, vs
    <2>6. /\ a2 \in OwnActions /\ a2.new = a1.new /\ a2.bound = a1.bound
          /\ a2.applied /\ a2.observed = a1.observed
      BY <2>4, <2>5 DEF OwnActions
    <2>7. ActionSound(a2)
      BY <2>2, <2>5, <2>6 DEF ActionSound
    <2>8. v1 = [cid |-> c, size |-> m, fills |-> fs, status |-> st, versions |-> vs]
      BY <1>1
    <2> HIDE DEF v1
    <2>9. v2 = [cid |-> c2, size |-> m, fills |-> fs, status |-> st, versions |-> vs]
      BY <2>8
    <2>10. VenueSound(v2)
      BY <1>1, <2>1, <2>3, <2>9 DEF VenueSound, k
    <2> HIDE DEF v2, a2
    <2>11. VenueSound(Versioned(v2))
      BY <2>10, VersionedSound
    <2>12. venue' = Versioned(v2) /\ action' = a2 /\ UNCHANGED local
      BY <2>1
    <2>13. v2.cid = OrElse(action.new, venue.cid) /\ v2.size = action.size
           /\ v2.versions = venue.versions /\ venue.status = "Resting"
      BY <2>1, <2>9 DEF v2, c2, c, m, vs, st
    <2>14. a2 # None
      BY <2>6, ActionAssumption
    <2>15. VenueChanged(v2)
      BY <2>0, <2>1, <2>2, <2>5, <2>6, <2>10, <2>12, <2>13, <2>14 DEF VenueChanged
    <2> QED BY <2>7, <2>11, <2>12, <2>15
  <1> QED BY <1>4, <1>5, <1>6

-----------------------------------------------------------------------------
(* The shell's steps on the wire                                           *)

\* The wire, as the invariant knows it.
LEMMA ShellWire ==
  ASSUME Shell
  PROVE  /\ WireInv(Ws) /\ GapInv(Ws, ghost.gapped) /\ GhostSound(ghost) /\ pos \in Nat
         /\ durable.reg = reg
         /\ durable = [inventory |-> durable.inventory, orders |-> durable.orders,
                       reg |-> durable.reg]
  <1>1. WireInv(Ws) /\ GapInv(Ws, ghost.gapped) /\ GhostSound(ghost) /\ pos \in Nat
    BY DEF Shell, Sound, WireSound, Ws
  <1>2. durable = Restored(orders, inventory, reg)
    BY DEF Shell
  <1> QED BY <1>1, <1>2 DEF Restored

\* The wire is replaced, in memory and by the rebuilds.
Replaces(new) ==
    /\ reg' = [reg EXCEPT !.wires[wire] = new]
    /\ durable' = [durable EXCEPT !.reg = [durable.reg EXCEPT !.wires[wire] = new]]
    /\ UNCHANGED <<orders, inventory>>

LEMMA LineageReplaces ==
  ASSUME Shell, NEW l,
         reg' = FoldLineage(reg, wire, l),
         durable' = [durable EXCEPT !.reg = FoldLineage(durable.reg, wire, l)],
         UNCHANGED <<orders, inventory>>
  PROVE  Replaces([Ws EXCEPT !.amend_lineage = l])
  <1>1. durable.reg = reg
    BY ShellWire
  <1>2. \A g : g = reg => FoldLineage(g, wire, l)
                            = [g EXCEPT !.wires[wire] = [Ws EXCEPT !.amend_lineage = l]]
    BY DEF FoldLineage, Ws
  <1> QED BY <1>1, <1>2 DEF Replaces

\* A lineage is written or withdrawn.
LEMMA LineageKeeps ==
  ASSUME Shell, NEW l \in Opt(AmendLineage),
         l # None => \A n \in ghost.gapped : n <= l.pre_generation,
         Replaces([Ws EXCEPT !.amend_lineage = l]), UNCHANGED <<pos, ghost>>
  PROVE  Shell' /\ Tells
  <1> DEFINE new == [Ws EXCEPT !.amend_lineage = l]
  <1>1. WireInv(Ws) /\ GapInv(Ws, ghost.gapped) /\ GhostSound(ghost) /\ pos \in Nat
    BY ShellWire
  <1>2. Restated(Ws, new) /\ GapInv(new, ghost.gapped)
    BY <1>1, LineageRestates
  <1>3. Replaces(new)
    OBVIOUS
  <1> HIDE DEF new
  <1>4. /\ reg' = [reg EXCEPT !.wires[wire] = new]
        /\ durable' = [durable EXCEPT !.reg = [durable.reg EXCEPT !.wires[wire] = new]]
        /\ UNCHANGED <<orders, inventory>>
    BY <1>3 DEF Replaces
  <1>5. GapInv(new, ghost'.gapped) /\ pos' \in Nat /\ ghost'.audited = ghost.audited
        /\ GhostSound(ghost)'
    BY <1>1, <1>2
  <1> QED BY <1>2, <1>4, <1>5, ShellRestated

\* A frame, a hold or a proof: the wire and perhaps what the history says of it.
LEMMA RestatesKeeps ==
  ASSUME Shell, NEW new, Restated(Ws, new), GapInv(new, ghost'.gapped), Replaces(new),
         pos' \in Nat, ghost'.audited = ghost.audited, GhostSound(ghost)'
  PROVE  Shell' /\ Tells
  <1>1. /\ reg' = [reg EXCEPT !.wires[wire] = new]
        /\ durable' = [durable EXCEPT !.reg = [durable.reg EXCEPT !.wires[wire] = new]]
        /\ UNCHANGED <<orders, inventory>>
    BY DEF Replaces
  <1> QED BY <1>1, ShellRestated

LEMMA SendDecreaseKeeps ==
  ASSUME Inv, NEW n \in Decreases, SendDecrease(n)
  PROVE  UNCHANGED local /\ UNCHANGED venue /\ ActionSound(action')
  <1>1. WireInv(Ws) /\ current(Ws) # None /\ UNCHANGED local /\ UNCHANGED venue
        /\ action' = [old |-> current(Ws), new |-> None, size |-> n,
                      applied |-> FALSE, rests |-> 0, bound |-> TRUE, observed |-> FALSE]
    BY DEF SendDecrease, Inv, Sound, WireSound, Ws
  <1> DEFINE c == current(Ws)
  <1>2. c \in Cids /\ n \in Nat \ {0} /\ None \in Opt(Cids)
    BY <1>1, CurrentMember, ObservationAssumption DEF Opt
  <1> HIDE DEF c
  <1>3. action' = [old |-> c, new |-> None, size |-> n,
                   applied |-> FALSE, rests |-> 0, bound |-> TRUE, observed |-> FALSE]
    BY <1>1 DEF c
  <1>4. action' \in OwnActions /\ action'.bound
    BY <1>2, <1>3 DEF OwnActions
  <1> QED BY <1>1, <1>4 DEF ActionSound

LEMMA SendAmendKeeps ==
  ASSUME Shell, NEW c \in Cids, NEW n \in Amends, SendAmend(c, n)
  PROVE  Shell' /\ Tells /\ UNCHANGED venue /\ ActionSound(action')
  <1> DEFINE l == Lineage(current(Ws), c, Ws.generation, "HttpPending", n)
  <1>1. WireInv(Ws) /\ GapInv(Ws, ghost.gapped)
    BY ShellWire
  <1>2. /\ current(Ws) # None /\ UNCHANGED <<pos, ghost, venue, orders, inventory>>
        /\ reg' = FoldLineage(reg, wire, l)
        /\ durable' = [durable EXCEPT !.reg = FoldLineage(durable.reg, wire, l)]
        /\ action' = [old |-> current(Ws), new |-> c, size |-> n,
                      applied |-> FALSE, rests |-> 0, bound |-> FALSE, observed |-> FALSE]
    BY DEF SendAmend, CommitFold
  <1> DEFINE d == current(Ws)
  <1>3. d \in Cids /\ n \in Nat \ {0} /\ c \in Opt(Cids) /\ c # None
    BY <1>1, <1>2, CurrentMember, ObservationAssumption, RowAssumption DEF Opt
  <1>4. l \in AmendLineage /\ l.pre_generation = Ws.generation
    BY <1>1, <1>3, WireFields DEF Lineage, AmendLineage, AmendPhase
  <1>5. \A k \in ghost.gapped : k <= l.pre_generation
    BY <1>1, <1>4 DEF GapInv
  <1>6. l \in Opt(AmendLineage)
    BY <1>4 DEF Opt
  <1> HIDE DEF l
  <1>7. Replaces([Ws EXCEPT !.amend_lineage = l])
    BY <1>2, LineageReplaces
  <1>8. Shell' /\ Tells
    BY <1>2, <1>5, <1>6, <1>7, LineageKeeps
  <1>9. action' \in OwnActions /\ action'.new # None
    <2> HIDE DEF d
    <2>1. action' = [old |-> d, new |-> c, size |-> n,
                     applied |-> FALSE, rests |-> 0, bound |-> FALSE, observed |-> FALSE]
      BY <1>2 DEF d
    <2> QED BY <1>3, <2>1 DEF OwnActions
  <1> QED BY <1>2, <1>8, <1>9 DEF ActionSound

LEMMA ActionRefusedKeeps ==
  ASSUME Shell, ActionRefused
  PROVE  Shell' /\ Tells /\ UNCHANGED venue /\ ActionSound(action')
  <1>1. UNCHANGED <<pos, ghost, venue, orders, inventory>> /\ action' = None
    BY DEF ActionRefused, CommitFold
  <1>2. CASE action.new = None
    <2>1. reg' = reg /\ durable' = [durable EXCEPT !.reg = durable.reg]
      BY <1>2 DEF ActionRefused, CommitFold
    <2>2. durable' = durable
      BY <2>1, ShellWire
    <2>3. GhostSound(ghost)'
      BY <1>1, ShellWire DEF GhostSound
    <2>4. Shell' /\ Tells
      BY <1>1, <2>1, <2>2, <2>3, ShellSame
    <2> QED BY <1>1, <2>4 DEF ActionSound
  <1>3. CASE action.new # None
    <2> DEFINE l == None
    <2>1. /\ reg' = FoldLineage(reg, wire, l)
          /\ durable' = [durable EXCEPT !.reg = FoldLineage(durable.reg, wire, l)]
      BY <1>3 DEF ActionRefused, CommitFold
    <2>2. l = None /\ l \in Opt(AmendLineage)
      BY DEF Opt
    <2> HIDE DEF l
    <2>3. Replaces([Ws EXCEPT !.amend_lineage = l])
      BY <1>1, <2>1, LineageReplaces
    <2>4. Shell' /\ Tells
      BY <1>1, <2>2, <2>3, LineageKeeps
    <2> QED BY <1>1, <2>4 DEF ActionSound
  <1> QED BY <1>2, <1>3

LEMMA LineagePhaseKeeps ==
  ASSUME Shell, LineagePhase
  PROVE  Shell' /\ Tells /\ UNCHANGED remote
  <1>1. WireInv(Ws) /\ GapInv(Ws, ghost.gapped)
    BY ShellWire
  <1>2. PICK phase \in {"AppliedNeedsObservation", "Unknown", "RestDue"} :
          LET l == [Ws.amend_lineage EXCEPT !.phase = phase]
          IN /\ Ws.amend_lineage # None
             /\ reg' = FoldLineage(reg, wire, l)
             /\ durable' = [durable EXCEPT !.reg = FoldLineage(durable.reg, wire, l)]
             /\ UNCHANGED <<orders, inventory, pos, ghost, remote>>
    BY DEF LineagePhase, CommitFold
  <1> DEFINE old == Ws.amend_lineage
             l == [old EXCEPT !.phase = phase]
  <1>3. old \in AmendLineage
    BY <1>1, <1>2, WireFields DEF Opt
  <1>4. l \in AmendLineage /\ l.pre_generation = old.pre_generation
    <2> HIDE DEF old
    <2> QED BY <1>3 DEF AmendLineage, AmendPhase
  <1>5. \A k \in ghost.gapped : k <= l.pre_generation
    BY <1>1, <1>2, <1>4 DEF GapInv
  <1>6. l \in Opt(AmendLineage)
    BY <1>4 DEF Opt
  <1>7. /\ reg' = FoldLineage(reg, wire, l)
        /\ durable' = [durable EXCEPT !.reg = FoldLineage(durable.reg, wire, l)]
        /\ UNCHANGED <<orders, inventory, pos, ghost, remote>>
    BY <1>2
  <1> HIDE DEF l
  <1>8. Replaces([Ws EXCEPT !.amend_lineage = l])
    BY <1>7, LineageReplaces
  <1>9. Shell' /\ Tells
    BY <1>5, <1>6, <1>7, <1>8, LineageKeeps
  <1> QED BY <1>7, <1>9

LEMMA UserOrderReceivedKeeps ==
  ASSUME Shell, VenueSound(venue), UserOrderReceived
  PROVE  Shell' /\ Tells /\ UNCHANGED remote
  <1>1. WireInv(Ws) /\ GapInv(Ws, ghost.gapped) /\ pos \in Nat /\ GhostSound(ghost)
        /\ durable.reg = reg
    BY ShellWire
  <1>2. PICK e \in venue.versions :
          /\ reg' = FoldFrame(reg, wire, pos, e)
          /\ durable' = [durable EXCEPT !.reg = FoldFrame(durable.reg, wire, pos, e)]
          /\ pos' = pos + 1
          /\ UNCHANGED <<orders, inventory, ghost, remote>>
    BY DEF UserOrderReceived, CommitFold
  <1> DEFINE new == [Ws EXCEPT !.latest_user_order = e, !.latest_user_order_revision = pos + 1]
  <1>3. e \in UserOrderEvidence
    BY DEF VenueSound
  <1>4. Restated(Ws, new) /\ GapInv(new, ghost.gapped)
    BY <1>1, <1>3, FrameRestates
  <1>5. \A g : g = reg => FoldFrame(g, wire, pos, e) = [g EXCEPT !.wires[wire] = new]
    BY DEF FoldFrame, Ws
  <1> HIDE DEF new
  <1>6. Replaces(new)
    BY <1>1, <1>2, <1>5 DEF Replaces
  <1>7. pos' \in Nat /\ ghost' = ghost
    BY <1>1, <1>2
  <1>8. GapInv(new, ghost'.gapped) /\ ghost'.audited = ghost.audited /\ GhostSound(ghost)'
    BY <1>1, <1>4, <1>7
  <1> QED BY <1>2, <1>4, <1>6, <1>7, <1>8, RestatesKeeps

LEMMA OrderAuthorityHoldKeeps ==
  ASSUME Shell, OrderAuthorityHold
  PROVE  Shell' /\ Tells /\ UNCHANGED remote
  <1>1. WireInv(Ws) /\ GapInv(Ws, ghost.gapped) /\ pos \in Nat /\ GhostSound(ghost)
        /\ durable.reg = reg
    BY ShellWire
  <1>2. /\ reg' = FoldHold(reg, wire, pos)
        /\ durable' = [durable EXCEPT !.reg = FoldHold(durable.reg, wire, pos)]
        /\ pos' = pos + 1
        /\ UNCHANGED <<orders, inventory, remote>>
        /\ ghost' = IF Ws.generation > 0 /\ Ws.amend_lineage = None
                    THEN [ghost EXCEPT !.gapped = ghost.gapped \cup {Ws.generation}] ELSE ghost
    BY DEF OrderAuthorityHold, CommitFold
  <1> DEFINE new == [Ws EXCEPT !.authority_hold = TRUE, !.authority_hold_revision = pos + 1]
             w == Withdrawn(Ws, ghost.gapped)
  <1>3. Restated(Ws, new) /\ GapInv(new, w)
    BY <1>1, HoldRestates
  <1>4. \A g : g = reg => FoldHold(g, wire, pos) = [g EXCEPT !.wires[wire] = new]
    BY DEF FoldHold, Ws
  <1>5. ghost' = [audited |-> ghost.audited, gapped |-> w, rounds |-> ghost.rounds]
    <2> DEFINE more == ghost.gapped \cup {Ws.generation}
               a == ghost.audited
               b == ghost.gapped
               n == ghost.rounds
    <2>1. ghost = [audited |-> a, gapped |-> b, rounds |-> n]
      BY <1>1 DEF GhostSound
    <2>2. ghost' = IF Ws.generation > 0 /\ Ws.amend_lineage = None
                   THEN [ghost EXCEPT !.gapped = more] ELSE ghost
      BY <1>2
    <2>3. w = IF Ws.generation > 0 /\ Ws.amend_lineage = None THEN more ELSE b
      BY DEF Withdrawn
    <2> HIDE DEF more, a, b, n, w
    <2>4. ghost' = [audited |-> a, gapped |-> w, rounds |-> n]
      BY <2>1, <2>2, <2>3
    <2> QED BY <2>4 DEF a, n
  <1> HIDE DEF new, w
  <1>6. Replaces(new)
    BY <1>1, <1>2, <1>4 DEF Replaces
  <1>7. pos' \in Nat
    BY <1>1, <1>2
  <1>8. GapInv(new, ghost'.gapped) /\ ghost'.audited = ghost.audited /\ GhostSound(ghost)'
    BY <1>3, <1>5 DEF GhostSound
  <1> QED BY <1>2, <1>3, <1>6, <1>7, <1>8, RestatesKeeps

\* What a proof writes.
LEMMA ProofKeeps ==
  ASSUME Shell, NEW new, ProofCommitted(new), Restated(Ws, new), GapInv(new, ghost.gapped)
  PROVE  Shell' /\ Tells /\ UNCHANGED remote
  <1>1. pos \in Nat /\ GhostSound(ghost)
    BY ShellWire
  <1>2. /\ reg' = FoldProof(reg, wire, new)
        /\ durable' = [durable EXCEPT !.reg = FoldProof(durable.reg, wire, new)]
        /\ UNCHANGED <<orders, inventory, pos, ghost, remote>>
    BY DEF ProofCommitted, CommitFold
  <1>3. Replaces(new)
    BY <1>2 DEF Replaces, FoldProof
  <1>4. GapInv(new, ghost'.gapped) /\ pos' \in Nat /\ ghost'.audited = ghost.audited
        /\ GhostSound(ghost)'
    BY <1>1, <1>2
  <1> QED BY <1>2, <1>3, <1>4, RestatesKeeps

LEMMA FrameProofKeeps ==
  ASSUME Shell, apply_order_state_resting
  PROVE  Shell' /\ Tells /\ UNCHANGED remote
  <1> DEFINE new == prepare_order_state_resting(Ws, inventory)
  <1>1. ProofCommitted(new) /\ new # None
    BY DEF apply_order_state_resting, ProofCommitted
  <1>2. WireInv(Ws) /\ GapInv(Ws, ghost.gapped)
    BY ShellWire
  <1>3. Restated(Ws, new) /\ GapInv(new, ghost.gapped)
    BY <1>1, <1>2, FrameProves
  <1> HIDE DEF new
  <1> QED BY <1>1, <1>3, ProofKeeps

LEMMA RestProofKeeps ==
  ASSUME Shell, VenueSound(venue), apply_rest_order_proof
  PROVE  Shell' /\ Tells /\ UNCHANGED remote
  <1>1. PICK s \in venue.versions :
          ProofCommitted(prepare_rest_order_proof(Ws, inventory, s.cid, s.filled,
                                                  s.remaining, s.initial))
    BY DEF apply_rest_order_proof
  <1> DEFINE new == prepare_rest_order_proof(Ws, inventory, s.cid, s.filled, s.remaining, s.initial)
  <1>2. ProofCommitted(new) /\ new # None
    BY <1>1 DEF ProofCommitted
  <1>3. s.remaining \in Nat
    BY DEF VenueSound, UserOrderEvidence
  <1>4. WireInv(Ws) /\ GapInv(Ws, ghost.gapped)
    BY ShellWire
  <1>5. Restated(Ws, new) /\ GapInv(new, ghost.gapped)
    BY <1>2, <1>3, <1>4, RestProves
  <1> HIDE DEF new
  <1> QED BY <1>2, <1>5, ProofKeeps

\* A round that opens, or fetches a page, changes nothing that a crash restores.
LEMMA RoundOpensKeeps ==
  ASSUME Shell, RoundBegin \/ \E complete \in BOOLEAN : RoundPage(complete)
  PROVE  Shell' /\ Tells /\ UNCHANGED remote
  <1>1. GhostSound(ghost)
    BY ShellWire
  <1>2. CASE RoundBegin
    <2> DEFINE more == ghost.rounds + 1
               a == ghost.audited
               b == ghost.gapped
    <2>1. /\ ghost' = [ghost EXCEPT !.rounds = more]
          /\ UNCHANGED <<orders, inventory, reg, durable, pos, remote>>
      BY <1>2 DEF RoundBegin
    <2>2. ghost = [audited |-> a, gapped |-> b, rounds |-> ghost.rounds]
      BY <1>1 DEF GhostSound
    <2> HIDE DEF more, a, b
    <2>3. ghost' = [audited |-> a, gapped |-> b, rounds |-> more]
      BY <2>1, <2>2
    <2>4. ghost'.audited = ghost.audited /\ ghost'.gapped = ghost.gapped /\ GhostSound(ghost)'
      BY <2>3 DEF GhostSound, a, b
    <2> QED BY <2>1, <2>4, ShellSame
  <1>3. CASE \E complete \in BOOLEAN : RoundPage(complete)
    <2>1. UNCHANGED <<orders, inventory, reg, durable, pos, ghost, remote>>
      BY <1>3 DEF RoundPage
    <2>2. ghost'.audited = ghost.audited /\ ghost'.gapped = ghost.gapped /\ GhostSound(ghost)'
      BY <1>1, <2>1
    <2> QED BY <2>1, <2>2, ShellSame
  <1> QED BY <1>2, <1>3

-----------------------------------------------------------------------------
(* The end of a round, and a restart                                       *)

LEMMA RowOfVersion ==
  ASSUME NEW s \in UserOrderEvidence
  PROVE  ObservedRow(RowOf(s))
  <1>1. s.filled \in Nat /\ s.remaining \in Nat
    BY DEF UserOrderEvidence
  <1>2. /\ RowOf(s).filled = s.filled /\ RowOf(s).remaining = s.remaining
        /\ RowOf(s).status \in {"Canceled", "Filled", "Open", "Partial"}
    BY DEF RowOf
  <1> QED BY <1>1, <1>2 DEF ObservedRow, RowStatus

\* What a round writes.
LEMMA FinishedWrites ==
  ASSUME NEW t, Finished(t), GhostSound(ghost)
  PROVE  /\ orders' = apply_rows(t, orders)
         /\ reg' = [reg EXCEPT !.wires[wire] = t.wire_after]
         /\ durable' = RoundRecorded(durable, t)
         /\ ghost'.audited = AuditedBy(t, Ws, ghost.audited)
         /\ ghost'.gapped = ghost.gapped /\ GhostSound(ghost)'
  <1>1. /\ orders' = apply_rows(t, orders)
        /\ reg' = [reg EXCEPT !.wires[wire] = t.wire_after]
        /\ durable' = RoundRecorded(durable, t)
    BY DEF Finished, RoundRecorded, RebuiltOf, Of
  <1>2. ghost' = IF t.outcome \in Consistents
                 THEN [ghost EXCEPT !.audited = Ws.held] ELSE ghost
    BY DEF Finished
  <1> DEFINE a == ghost.audited
             b == ghost.gapped
             n == ghost.rounds
             h == Ws.held
  <1>3. ghost = [audited |-> a, gapped |-> b, rounds |-> n]
    BY DEF GhostSound
  <1>4. AuditedBy(t, Ws, a) = IF t.outcome \in Consistents THEN h ELSE a
    BY DEF AuditedBy
  <1>5. ghost' = IF t.outcome \in Consistents
                 THEN [ghost EXCEPT !.audited = h] ELSE ghost
    BY <1>2
  <1> HIDE DEF a, b, n, h
  <1>6. ghost' = [audited |-> AuditedBy(t, Ws, a), gapped |-> b, rounds |-> n]
    BY <1>3, <1>4, <1>5
  <1> QED BY <1>1, <1>6 DEF GhostSound, a, b

LEMMA RoundFinishKeeps ==
  ASSUME Shell, VenueSound(venue), RoundFinish
  PROVE  Shell' /\ Tells /\ UNCHANGED remote
  <1>1. /\ WireInv(Ws) /\ GhostSound(ghost) /\ pos \in Nat
        /\ Sound(orders, inventory, reg, ghost.audited, ghost.gapped)
        /\ durable = Restored(orders, inventory, reg)
    BY ShellWire DEF Shell
  <1>2. PICK s \in venue.versions :
          \E t \in {finish(wire, Ws, inventory, orders, round.data, RowOf(s))} :
            IF t # None THEN Finished(t) ELSE UNCHANGED <<orders, reg, durable, ghost>>
    BY DEF RoundFinish
  <1>3. UNCHANGED <<inventory, pos, remote>>
    BY DEF RoundFinish
  <1> DEFINE row == RowOf(s)
             t == finish(wire, Ws, inventory, orders, round.data, row)
  <1>4. ObservedRow(row)
    BY RowOfVersion DEF VenueSound
  <1>5. IF t # None THEN Finished(t) ELSE UNCHANGED <<orders, reg, durable, ghost>>
    BY <1>2
  <1>6. CASE t = None
    <2>1. UNCHANGED <<orders, reg, durable, ghost>>
      BY <1>5, <1>6
    <2>2. ghost'.audited = ghost.audited /\ ghost'.gapped = ghost.gapped /\ GhostSound(ghost)'
      BY <1>1, <2>1
    <2> QED BY <1>3, <2>1, <2>2, ShellSame
  <1>7. CASE t # None
    <2> HIDE DEF row
    <2>1. PICK outcome \in ObservationOutcome, fw \in Nat :
            /\ \E now : RoundTxn(Ws, orders, row, outcome, fw, now, t)
            /\ fw >= Ws.filled_hw /\ (outcome = "Fresh" => Ws.generation = 0)
      BY <1>1, <1>4, <1>7, FinishTxn
    <2>2. PICK now : RoundTxn(Ws, orders, row, outcome, fw, now, t)
      BY <2>1
    <2>3. Finished(t)
      BY <1>5, <1>7
    <2> HIDE DEF t
    <2> DEFINE rows2 == apply_rows(t, orders)
               g2 == [reg EXCEPT !.wires[wire] = t.wire_after]
               audited2 == AuditedBy(t, Ws, ghost.audited)
    <2>4. /\ Sound(rows2, inventory, g2, audited2, ghost.gapped)
          /\ Learns(Ws, Wire(g2.wires, wire))
          /\ FoldObservation(reg, t) = g2
          /\ RowsFollow(Ws, orders, rows2, t)
      BY <1>1, <1>4, <2>1, <2>2, RoundKeeps DEF Ws
    <2>5. /\ orders' = rows2 /\ reg' = g2 /\ durable' = RoundRecorded(durable, t)
          /\ ghost'.audited = audited2
          /\ ghost'.gapped = ghost.gapped /\ GhostSound(ghost)'
      BY <1>1, <2>3, FinishedWrites
    <2> HIDE DEF rows2, g2, audited2
    <2>6. durable' = Restored(rows2, inventory, g2)
      <3>1. RoundRecorded(Restored(orders, inventory, reg), t)
              = Restored(rows2, inventory, FoldObservation(reg, t))
        BY <2>4, RoundRestored
      <3> QED BY <1>1, <2>4, <2>5, <3>1
    <2>7. Shell'
      BY <1>1, <1>3, <2>4, <2>5, <2>6 DEF Shell
    <2> QED BY <1>3, <2>4, <2>5, <2>7 DEF Tells
  <1> QED BY <1>6, <1>7

\* The same rows, as a function of the orders.
LEMMA SameRows ==
  ASSUME NEW rows, NEW inv, NEW g, NEW audited, NEW gapped,
         Sound(rows, inv, g, audited, gapped)
  PROVE  LET same == [c \in Cids |-> rows[c]]
         IN Sound(same, inv, g, audited, gapped) /\ Restored(same, inv, g) = Restored(rows, inv, g)
  <1> DEFINE same == [c \in Cids |-> rows[c]]
  <1>1. DOMAIN same = Cids /\ \A c \in Cids : same[c] = rows[c]
    OBVIOUS
  <1> HIDE DEF same
  <1>2. MemorySound(same, inv)
    BY <1>1 DEF Sound, MemorySound
  <1>3. RegSound(g, same)
    BY <1>1 DEF Sound, RegSound
  <1>4. RolesInv(Wire(g.wires, wire), same)
    BY <1>1 DEF Sound, WireSound, RolesInv
  <1>5. WireSound(Wire(g.wires, wire), same, inv, audited, gapped)
    BY <1>4 DEF Sound, WireSound
  <1>6. [c \in Cids |-> RowRebuilt(same[c])] = [c \in Cids |-> RowRebuilt(rows[c])]
    BY <1>1
  <1> QED BY <1>2, <1>3, <1>5, <1>6 DEF Sound, Restored, same

LEMMA RestartKeeps ==
  ASSUME Shell, Restart
  PROVE  Shell' /\ Tells /\ UNCHANGED remote
  <1> DEFINE same == [c \in Cids |-> orders[c]]
  <1>1. /\ WireInv(Ws) /\ GhostSound(ghost) /\ pos \in Nat
        /\ Sound(orders, inventory, reg, ghost.audited, ghost.gapped)
        /\ durable = Restored(orders, inventory, reg)
    BY ShellWire DEF Shell
  <1>2. /\ orders' = [c \in Cids |-> durable.orders[c].row]
        /\ inventory' = durable.inventory.inventory
        /\ reg' = durable.reg
        /\ UNCHANGED <<durable, pos, ghost, remote>>
    BY DEF Restart
  <1>3. /\ durable.inventory.inventory = inventory /\ durable.reg = reg
        /\ \A c \in Cids : durable.orders[c].row = orders[c]
    BY <1>1 DEF Restored, InventoryRebuilt, RowRebuilt
  <1>4. orders' = same /\ inventory' = inventory /\ reg' = reg
    BY <1>2, <1>3
  <1>5. Sound(same, inventory, reg, ghost.audited, ghost.gapped)
        /\ Restored(same, inventory, reg) = Restored(orders, inventory, reg)
    BY <1>1, SameRows
  <1> HIDE DEF same
  <1>6. Shell'
    BY <1>1, <1>2, <1>4, <1>5 DEF Shell
  <1>7. Tells
    BY <1>1, <1>4, LearnsSame DEF Tells, Ws
  <1> QED BY <1>2, <1>6, <1>7

-----------------------------------------------------------------------------
(* The transactions of the shell                                           *)

\* What the shell processes: at most one execution at a time.
OfferSound(o) ==
    /\ ValidInput(o.input) /\ ActionSound(o.action)
    /\ o.input.page = <<>> \/ Len(o.input.page) = 1

\* An input without executions, and one with an execution.
LEMMA OrderInputSound ==
  ASSUME NEW c \in Cids, NEW type, NEW arg, [type |-> type, arg |-> arg] \in OrderEvent,
         type # "Fill"
  PROVE  ValidInput(OrderInput(c, type, arg)) /\ OrderInput(c, type, arg).page = <<>>
  <1> DEFINE ev == [type |-> type, arg |-> arg]
             i == OrderInput(c, type, arg)
  <1>1. ev \in OrderEvent /\ ev.type # "Fill"
    OBVIOUS
  <1>2. i = [kind |-> "order", cid |-> c, event |-> ev, page |-> <<>>]
    BY DEF OrderInput
  <1> HIDE DEF ev
  <1>3. i.kind = "order" /\ i.cid = c /\ i.event = ev /\ i.page = <<>>
    BY <1>2
  <1>4. <<>> \in Seq(Evidence) /\ Len(<<>>) <= MaxPage
    BY DEF MaxPage
  <1> HIDE DEF i
  <1>5. ValidInput(i)
    BY <1>1, <1>3, <1>4 DEF ValidInput
  <1> QED BY <1>3, <1>5 DEF i

LEMMA FillInputSound ==
  ASSUME NEW c \in Opt(Cids), NEW e \in Evidence
  PROVE  ValidInput(FillInput(c, e)) /\ Len(FillInput(c, e).page) = 1
  <1> DEFINE ev == [type |-> "Fill", arg |-> None]
             k == IF c = None THEN "norow" ELSE "batch"
             p == <<e>>
             i == FillInput(c, e)
  <1>1. ev \in OrderEvent /\ ev.type = "Fill"
    BY DEF OrderEvent
  <1>2. i = [kind |-> k, cid |-> c, event |-> ev, page |-> p]
    BY DEF FillInput
  <1>3. p \in Seq(Evidence) /\ Len(p) = 1 /\ 1 <= MaxPage
    BY DEF MaxPage
  <1>4. k \in {"norow", "batch"} /\ (k # "norow" => c \in Cids)
    BY DEF Opt
  <1> HIDE DEF ev, k, p
  <1>5. i.kind = k /\ i.cid = c /\ i.event = ev /\ i.page = p
    BY <1>2
  <1> HIDE DEF i
  <1>6. ValidInput(i)
    <2>1. i.page \in Seq(Evidence) /\ Len(i.page) = 1 /\ Len(i.page) <= MaxPage
      BY <1>3, <1>5
    <2>2. /\ i.kind \in {"order", "norow", "batch"} /\ i.kind # "order" /\ i.event \in OrderEvent
          /\ i.kind # "norow" => i.cid \in Cids
      BY <1>1, <1>4, <1>5
    <2> QED BY <2>1, <2>2 DEF ValidInput
  <1> QED BY <1>3, <1>5, <1>6 DEF i

\* An execution, and the order it is offered to.
LEMMA DeliveredSound ==
  ASSUME Shell, NEW f \in FillIds, NEW v \in Opt({wire})
  PROVE  ValidInput(Delivered(f, v)) /\ Len(Delivered(f, v).page) = 1
  <1> DEFINE c == IF v = None THEN None ELSE route(reg.wires, wire, f, inventory)
  <1>1. E(f, v) \in Evidence
    <2>1. v \in Opt(Venues) /\ None \in Opt(0..U64Max) /\ None \in Opt(Cids)
      BY ObservationAssumption DEF Opt
    <2> QED BY <2>1 DEF E, Evidence, Sides
  <1>2. c \in Opt(Cids)
    <2> DEFINE ms == Ws.members
               e == inventory.entries[f]
    <2>1. e # None => e.owner \in Opt(Cids)
      <3>1. inventory \in MarketInventory
        BY DEF Shell, Sound, MemorySound
      <3>2. e \in Opt(InventoryEntry)
        BY <3>1 DEF MarketInventory
      <3> QED BY <3>2 DEF Opt, InventoryEntry
    <2>2. Len(ms) = 1 => ms[1].cid \in Cids
      <3>1. MembersInv(ms)
        BY ShellWire DEF WireInv
      <3>2. Len(ms) = 1 => 1 \in DOMAIN ms
        BY <3>1, MembersSeq
      <3> QED BY <3>1, <3>2, MembersSeq
    <2>3. route(reg.wires, wire, f, inventory)
            = IF e # None /\ e.owner # None THEN e.owner
              ELSE IF Len(ms) = 1 THEN ms[1].cid ELSE None
      BY DEF route, Ws
    <2> HIDE DEF e, ms
    <2> QED BY <2>1, <2>2, <2>3 DEF Opt
  <1>3. Delivered(f, v) = FillInput(c, E(f, v))
    BY DEF Delivered
  <1> HIDE DEF c
  <1> QED BY <1>1, <1>2, <1>3, FillInputSound

\* The answers to the own action.
LEMMA AnswerSound ==
  ASSUME NEW n \in Nat
  PROVE  [type |-> "SubmitResponse", arg |-> Response0(n)] \in OrderEvent
  <1>1. wire \in Venues /\ None \in Opt(Nat) /\ None \in Opt(Boundary)
    BY ObservationAssumption DEF Opt
  <1>2. Response0(n) \in Response
    BY <1>1 DEF Response0, Response
  <1> QED BY <1>2 DEF OrderEvent

LEMMA InFlightSound ==
  ASSUME NEW a, ActionSound(a)
  PROVE  ActionSound(InFlight(a))
  BY DEF InFlight, ActionSound

LEMMA OfferMade ==
  ASSUME NEW input, ValidInput(input), input.page = <<>> \/ Len(input.page) = 1,
         NEW a, ActionSound(a), NEW paged
  PROVE  OfferSound(Offer(input, a, paged))
  <1>1. Offer(input, a, paged).input = input /\ Offer(input, a, paged).action = a
    BY DEF Offer
  <1> QED BY <1>1 DEF OfferSound

LEMMA OffersSound ==
  ASSUME Shell, VenueSound(venue), ActionSound(action), NEW o \in Offers
  PROVE  OfferSound(o)
  <1>1. ActionSound(action)
    OBVIOUS
  <1>2. /\ venue.fills \subseteq FillIds /\ WireInv(Ws)
        /\ Deliveries \subseteq Opt({wire}) /\ wire \in Opt({wire}) /\ first \in Cids
    BY ShellWire, ObservationAssumption DEF VenueSound, Opt
  <1>3. CASE o \in CreateAnswered
    <2> DEFINE input == OrderInput(first, "SubmitResponse", Response0(Qty))
    <2>1. o = Offer(input, action, FALSE)
      BY <1>3 DEF CreateAnswered
    <2>2. [type |-> "SubmitResponse", arg |-> Response0(Qty)] \in OrderEvent
      BY QtyAssumption, AnswerSound
    <2>3. ValidInput(input) /\ input.page = <<>>
      BY <1>2, <2>2, OrderInputSound
    <2> HIDE DEF input
    <2> QED BY <1>1, <2>1, <2>3, OfferMade
  <1>4. CASE o \in FillDelivered
    <2>1. PICK v \in Deliveries, f \in venue.fills : o = Offer(Delivered(f, v), action, FALSE)
      <3>1. PICK v \in Deliveries : o \in {Offer(Delivered(f, v), action, FALSE) : f \in venue.fills}
        BY <1>4 DEF FillDelivered
      <3> QED BY <3>1
    <2>2. ValidInput(Delivered(f, v)) /\ Len(Delivered(f, v).page) = 1
      BY <1>2, DeliveredSound
    <2> QED BY <1>1, <2>1, <2>2, OfferMade
  <1>5. CASE o \in FillPaged
    <2>1. PICK f \in venue.fills : o = Offer(Delivered(f, wire), action, TRUE)
      BY <1>5 DEF FillPaged
    <2>2. ValidInput(Delivered(f, wire)) /\ Len(Delivered(f, wire).page) = 1
      BY <1>2, DeliveredSound
    <2> QED BY <1>1, <2>1, <2>2, OfferMade
  <1>6. CASE o \in AmendBound
    <2> DEFINE a == [action EXCEPT !.bound = TRUE]
               c == action.new
               n == action.rests
               input == OrderInput(c, "SubmitResponse", Response0(n))
    <2>1. action # None /\ ~ action.bound /\ o = Offer(input, InFlight(a), FALSE)
      BY <1>6 DEF AmendBound
    <2>2. action \in OwnActions /\ c # None
      BY <2>1 DEF ActionSound
    <2>3. c \in Cids /\ n \in Nat
      BY <2>2 DEF OwnActions, Opt
    <2>4. a \in OwnActions /\ a.new = c
      BY <2>2 DEF OwnActions
    <2> HIDE DEF a, c, n
    <2>5. ActionSound(InFlight(a))
      BY <2>2, <2>4, InFlightSound DEF ActionSound
    <2>6. [type |-> "SubmitResponse", arg |-> Response0(n)] \in OrderEvent
      BY <2>3, AnswerSound
    <2>7. ValidInput(input) /\ input.page = <<>>
      BY <2>3, <2>6, OrderInputSound
    <2> HIDE DEF input
    <2> QED BY <2>1, <2>5, <2>7, OfferMade
  <1>7. CASE o \in ActionObserved
    <2> DEFINE a == [action EXCEPT !.observed = TRUE]
    <2>1. action # None
      BY <1>7 DEF ActionObserved
    <2>2. PICK c \in {action.old, action.new} \ {None} :
            o = Offer(OrderInput(c, "OwnAction", None), InFlight(a), FALSE)
      BY <1>7 DEF ActionObserved
    <2>3. action \in OwnActions /\ (action.new = None => action.bound)
      BY <2>1 DEF ActionSound
    <2>4. c \in Cids
      BY <2>2, <2>3 DEF OwnActions, Opt
    <2>5. a \in OwnActions /\ a.new = action.new /\ a.bound = action.bound
      BY <2>3 DEF OwnActions
    <2> HIDE DEF a
    <2>6. ActionSound(InFlight(a))
      BY <2>3, <2>5, InFlightSound DEF ActionSound
    <2> DEFINE input == OrderInput(c, "OwnAction", None)
    <2>7. [type |-> "OwnAction", arg |-> None] \in OrderEvent
      BY DEF OrderEvent
    <2>8. ValidInput(input) /\ input.page = <<>>
      BY <2>4, <2>7, OrderInputSound
    <2>9. o = Offer(input, InFlight(a), FALSE)
      BY <2>2
    <2> HIDE DEF input
    <2> QED BY <2>6, <2>8, <2>9, OfferMade
  <1>8. CASE o \in TerminalClaimed
    <2> DEFINE e == Ws.latest_user_order
               n == e.filled
               x == e.status = "Executed"
               claim == [venue |-> wire, filled |-> n, executed |-> x]
               input == OrderInput(e.cid, "UserOrderTerminalClaim", claim)
    <2>1. e # None /\ o = Offer(input, action, FALSE)
      BY <1>8 DEF TerminalClaimed
    <2>2. e \in UserOrderEvidence
      BY <1>2, <2>1, WireFields DEF Opt
    <2>3. e.cid \in Cids /\ n \in Nat /\ x \in BOOLEAN /\ wire \in Venues
      BY <2>2, ObservationAssumption DEF UserOrderEvidence
    <2> HIDE DEF e, n, x
    <2>4. claim \in TerminalClaim
      BY <2>3 DEF TerminalClaim
    <2> HIDE DEF claim
    <2>5. [type |-> "UserOrderTerminalClaim", arg |-> claim] \in OrderEvent
      BY <2>4 DEF OrderEvent
    <2>6. ValidInput(input) /\ input.page = <<>>
      BY <2>3, <2>5, OrderInputSound
    <2> HIDE DEF input
    <2> QED BY <1>1, <2>1, <2>6, OfferMade
  <1> QED BY <1>3, <1>4, <1>5, <1>6, <1>7, <1>8 DEF Offers

\* A transaction that is recorded.
LEMMA CommitKeeps ==
  ASSUME Shell, NEW input, ValidInput(input), Len(input.page) <= 1,
         inventory.generation + Len(input.page) <= MaxGeneration,
         Prepared(input, orders, inventory).record # None,
         Commit(Prepared(input, orders, inventory)), UNCHANGED <<pos, ghost>>
  PROVE  Shell' /\ Tells
  <1> DEFINE t == Prepared(input, orders, inventory)
             rows2 == RowsAfter(t, orders)
             inv2 == InventoryAfter(t, inventory)
             g2 == FoldTransaction(reg, t.record)
             now == Restored(rows2, inv2, g2)
  <1>1. /\ Sound(orders, inventory, reg, ghost.audited, ghost.gapped)
        /\ durable = Restored(orders, inventory, reg)
        /\ pos \in Nat /\ GhostSound(ghost)
    BY DEF Shell
  <1>2. /\ Sound(rows2, inv2, g2, ghost.audited, ghost.gapped)
        /\ Learns(Ws, Wire(g2.wires, wire))
        /\ Recorded(durable, t.record) = now
        /\ t.input.kind = "order" => Recorded(now, t.record) = now
    BY <1>1, PreparedKeeps DEF Ws
  <1>3. Commit(t)
    OBVIOUS
  <1> HIDE DEF t
  <1>4. /\ orders' = rows2 /\ inventory' = inv2 /\ reg' = g2
        /\ \E once \in {Recorded(durable, t.record)} :
             \/ durable' = once
             \/ t.input.kind = "order" /\ durable' = Recorded(once, t.record)
    BY <1>3 DEF Commit
  <1> HIDE DEF rows2, inv2, g2, now
  <1>5. durable' = now
    BY <1>2, <1>4
  <1>6. Shell'
    BY <1>1, <1>2, <1>4, <1>5 DEF Shell, now
  <1> QED BY <1>2, <1>4, <1>6 DEF Tells

LEMMA TransactKeeps ==
  ASSUME Shell, VenueSound(venue), ActionSound(action), Transact
  PROVE  Shell' /\ Tells /\ UNCHANGED venue /\ ActionSound(action')
  <1>1. PICK o \in Offers :
          \E t \in {Prepared(o.input, orders, inventory)} :
            /\ o.input.page # <<>> => inventory.generation < MaxGeneration
            /\ IF t.record # None THEN Commit(t)
               ELSE o.paged /\ UNCHANGED <<orders, inventory, reg, durable>>
            /\ action' = o.action
            /\ UNCHANGED <<pos, ghost, venue>>
    BY DEF Transact
  <1> DEFINE input == o.input
             t == Prepared(input, orders, inventory)
  <1>2. /\ ValidInput(input) /\ ActionSound(o.action)
        /\ input.page = <<>> \/ Len(input.page) = 1
    BY OffersSound DEF OfferSound
  <1>3. /\ input.page # <<>> => inventory.generation < MaxGeneration
        /\ IF t.record # None THEN Commit(t)
           ELSE UNCHANGED <<orders, inventory, reg, durable>>
        /\ action' = o.action
        /\ UNCHANGED <<pos, ghost, venue>>
    BY <1>1
  <1>4. Len(input.page) <= 1 /\ inventory.generation + Len(input.page) <= MaxGeneration
    <2> DEFINE n == inventory.generation
               m == Len(input.page)
    <2>1. n \in Nat /\ n <= MaxGeneration /\ MaxGeneration \in Nat
      BY ObservationAssumption, QtyAssumption DEF Shell, Sound, MemorySound, MarketInventory
    <2>2. m = 0 \/ (m = 1 /\ n < MaxGeneration)
      <3>1. CASE input.page = <<>>
        BY <3>1
      <3>2. CASE input.page # <<>>
        BY <1>2, <1>3, <3>2
      <3> QED BY <3>1, <3>2
    <2> HIDE DEF n, m
    <2>3. m <= 1 /\ n + m <= MaxGeneration
      BY <2>1, <2>2
    <2> QED BY <2>3 DEF n, m
  <1> HIDE DEF input
  <1>5. CASE t.record # None
    <2>1. Shell' /\ Tells
      BY <1>2, <1>3, <1>4, <1>5, CommitKeeps
    <2> QED BY <1>2, <1>3, <2>1
  <1>6. CASE t.record = None
    <2>1. UNCHANGED <<orders, inventory, reg, durable, pos, ghost>>
      BY <1>3, <1>6
    <2>2. ghost'.audited = ghost.audited /\ ghost'.gapped = ghost.gapped /\ GhostSound(ghost)'
      BY <2>1, ShellWire DEF GhostSound
    <2>3. Shell' /\ Tells
      BY <2>1, <2>2, ShellSame
    <2> QED BY <1>2, <1>3, <2>3
  <1> QED BY <1>5, <1>6

-----------------------------------------------------------------------------
(* The invariant is inductive                                              *)

LEMMA FirstVersion ==
  ASSUME Init
  PROVE  VenueSound(venue)
  <1> DEFINE none == {}
             st == "Resting"
             x == [cid |-> first, size |-> Qty, fills |-> none, status |-> st, versions |-> none]
  <1>1. venue = Versioned(x)
    BY DEF Init
  <1>2. /\ first \in Cids /\ Qty \in Nat /\ Qty > 0 /\ st = "Resting"
        /\ IsFiniteSet(none) /\ Cardinality(none) = 0 /\ none = {}
    BY ObservationAssumption, QtyAssumption, FS_EmptySet
  <1> HIDE DEF none, st
  <1>3. VenueSound(x)
    BY <1>2 DEF VenueSound
  <1> HIDE DEF x
  <1> QED BY <1>1, <1>3, VersionedSound

LEMMA FirstMemory ==
  ASSUME Init
  PROVE  Shell
  <1>1. /\ DOMAIN orders = Cids
        /\ \A c \in Cids : orders[c] = Row(Plain("SubmitStarted"), new_ctx, 2)
    BY DEF Init
  <1>2. ASSUME NEW c \in Cids
        PROVE  RowSound(orders[c]) /\ orders[c].ctx.venue_order_id = None
    <2>1. CtxInv(new_ctx) /\ StateInv(Plain("SubmitStarted"), new_ctx)
      BY NewCtx, PlainStates
    <2>2. new_ctx.venue_order_id = None
      BY DEF new_ctx
    <2> QED BY <1>1, <2>1, <2>2 DEF RowSound, Row
  <1>3. /\ inventory \in MarketInventory /\ inventory.generation = 0
        /\ \A f \in FillIds : inventory.entries[f] = None
    BY QtyAssumption DEF Init, EmptyInventory, MarketInventory, Opt
  <1>4. MemorySound(orders, inventory)
    BY <1>1, <1>2, <1>3, ObservationAssumption DEF MemorySound
  <1>5. /\ reg.ok = TRUE /\ reg.wires = [v \in Venues |-> None]
        /\ DOMAIN reg.seen = {}
        /\ reg = [ok |-> reg.ok, wires |-> reg.wires, seen |-> reg.seen]
    BY DEF Init
  <1>6. RegSound(reg, orders)
    BY <1>5, ObservationAssumption DEF RegSound, IsReg, WiresOk, Opt
  <1>7. Ws = venue_only
    BY <1>5, ObservationAssumption DEF Ws, Wire, OrElse
  <1>8. WireInv(Ws) /\ MemberCids(Ws) = {} /\ non_terminal_cids(Ws) = {}
    BY <1>7, VenueOnlyInv, LiveMembers
  <1>9. wire # None
    BY ObservationAssumption, NoneAssumption
  <1>10. RolesInv(Ws, orders)
    BY <1>2, <1>8, <1>9 DEF RolesInv
  <1>11. Ws.held = {} /\ Ws.generation = 0 /\ Ws.amend_lineage = None
         /\ Ws.proved_current_cid = None
    BY <1>7 DEF venue_only
  <1>12. ghost.audited = {} /\ ghost.gapped = {} /\ GhostSound(ghost)
    BY DEF Init, GhostSound
  <1>13. WireSound(Ws, orders, inventory, ghost.audited, ghost.gapped)
    BY <1>3, <1>8, <1>10, <1>11, <1>12 DEF WireSound, OfWire, AuditInv, GapInv
  <1>14. KnownIds(inventory) = {}
    BY <1>3 DEF KnownIds
  <1>15. durable = [inventory |-> [ok |-> TRUE, ingested |-> {}, inventory |-> inventory],
                    orders |-> [c \in Cids |-> [ok |-> TRUE, row |-> orders[c]]],
                    reg |-> reg]
    BY DEF Init
  <1>16. durable = Restored(orders, inventory, reg)
    BY <1>14, <1>15 DEF Restored, InventoryRebuilt, RowRebuilt
  <1>17. pos \in Nat
    BY DEF Init
  <1> QED BY <1>4, <1>6, <1>12, <1>13, <1>16, <1>17 DEF Shell, Sound, Ws

LEMMA InvInit ==
  ASSUME Init
  PROVE  Inv
  <1>1. ActionSound(action)
    BY DEF Init, ActionSound
  <1> QED BY <1>1, FirstVersion, FirstMemory DEF Inv, Shell

\* A step that leaves memory, journal and history alone.
LEMMA LocalSame ==
  ASSUME Shell, UNCHANGED local
  PROVE  Shell' /\ Tells
  <1>1. UNCHANGED <<orders, inventory, reg, durable, pos, ghost>>
    BY DEF local
  <1>2. ghost'.audited = ghost.audited /\ ghost'.gapped = ghost.gapped /\ GhostSound(ghost)'
    BY <1>1, ShellWire DEF GhostSound
  <1> QED BY <1>1, <1>2, ShellSame

LEMMA InvNext ==
  ASSUME Inv, [Next]_vars
  PROVE  Inv' /\ Tells
  <1>1. Shell /\ VenueSound(venue) /\ ActionSound(action)
    BY DEF Inv, Shell
  <1> SUFFICES Shell' /\ Tells /\ VenueSound(venue') /\ ActionSound(action')
    BY DEF Inv, Shell
  <1>2. ASSUME UNCHANGED remote
        PROVE  VenueSound(venue') /\ ActionSound(action')
    BY <1>1, <1>2 DEF remote
  <1>3. ASSUME UNCHANGED venue
        PROVE  VenueSound(venue')
    BY <1>1, <1>3
  <1>4. CASE (\E f \in FillIds : VenueFill(f)) \/ VenueCancel \/ VenueApply
    BY <1>1, <1>4, VenueSteps, LocalSame
  <1>5. CASE Transact
    BY <1>1, <1>3, <1>5, TransactKeeps
  <1>6. CASE \E n \in Decreases : SendDecrease(n)
    BY <1>1, <1>3, <1>6, SendDecreaseKeeps, LocalSame
  <1>7. CASE \E n \in Amends, c \in Cids : SendAmend(c, n)
    BY <1>1, <1>3, <1>7, SendAmendKeeps
  <1>8. CASE ActionRefused
    BY <1>1, <1>3, <1>8, ActionRefusedKeeps
  <1>9. CASE LineagePhase
    BY <1>1, <1>2, <1>9, LineagePhaseKeeps
  <1>10. CASE UserOrderReceived
    BY <1>1, <1>2, <1>10, UserOrderReceivedKeeps
  <1>11. CASE OrderAuthorityHold
    BY <1>1, <1>2, <1>11, OrderAuthorityHoldKeeps
  <1>12. CASE apply_order_state_resting
    BY <1>1, <1>2, <1>12, FrameProofKeeps
  <1>13. CASE apply_rest_order_proof
    BY <1>1, <1>2, <1>13, RestProofKeeps
  <1>14. CASE RoundBegin \/ \E complete \in BOOLEAN : RoundPage(complete)
    BY <1>1, <1>2, <1>14, RoundOpensKeeps
  <1>15. CASE RoundFinish
    BY <1>1, <1>2, <1>15, RoundFinishKeeps
  <1>16. CASE Restart
    BY <1>1, <1>2, <1>16, RestartKeeps
  <1>17. CASE UNCHANGED vars
    <2>1. UNCHANGED local /\ UNCHANGED remote
      BY <1>17 DEF vars, local, remote
    <2> QED BY <1>1, <1>2, <2>1, LocalSame
  <1> QED BY <1>4, <1>5, <1>6, <1>7, <1>8, <1>9, <1>10, <1>11, <1>12, <1>13, <1>14, <1>15,
             <1>16, <1>17 DEF Next

\* The memory is sound and the journal restores it, at every point.
THEOREM Invariant == Spec => []Inv
  <1>1. Init => Inv
    BY InvInit
  <1>2. Inv /\ [Next]_vars => Inv'
    BY InvNext
  <1> QED BY <1>1, <1>2, PTL DEF Spec

-----------------------------------------------------------------------------
(* What it says                                                            *)

\* A restart at any point gives the rows, the inventory and the registry of the
\* memory (rebuild_order, MarketInventory::rebuild, WireRegistry::rebuild).
THEOREM RebuildSafe == Spec => []RebuildIsMemory
  <1>1. Inv => RebuildIsMemory
    <2>1. ASSUME Inv
          PROVE  RebuildIsMemory
      <3>1. durable.reg = reg /\ reg.ok
        BY <2>1, Zenon DEF Inv, Sound, RegSound, IsReg, Restored
      <3>2. durable = [inventory |-> InventoryRebuilt(inventory),
                       orders |-> [c \in Cids |-> RowRebuilt(orders[c])], reg |-> reg]
        BY <2>1 DEF Inv, Restored
      <3>3. /\ durable.inventory = InventoryRebuilt(inventory)
            /\ \A c \in Cids : durable.orders[c] = RowRebuilt(orders[c])
        <4> DEFINE x == InventoryRebuilt(inventory)
                   y == [c \in Cids |-> RowRebuilt(orders[c])]
        <4>1. durable.inventory = x /\ durable.orders = y
          <5> HIDE DEF x, y
          <5>1. durable = [inventory |-> x, orders |-> y, reg |-> reg]
            BY <3>2 DEF x, y
          <5> QED BY <5>1
        <4> QED BY <4>1
      <3>4. durable.inventory.ok /\ durable.inventory.inventory = inventory
        <4>1. InventoryRebuilt(inventory).ok /\ InventoryRebuilt(inventory).inventory = inventory
          BY DEF InventoryRebuilt
        <4> QED BY <3>3, <4>1, Zenon
      <3>5. ASSUME NEW c \in Cids
            PROVE  durable.orders[c].ok /\ durable.orders[c].row = orders[c]
        <4>1. RowRebuilt(orders[c]).ok /\ RowRebuilt(orders[c]).row = orders[c]
          BY DEF RowRebuilt
        <4> QED BY <3>3, <4>1, Zenon
      <3>6. durable.reg = reg /\ durable.reg.ok
        BY <3>1, Zenon
      <3> QED BY <3>4, <3>5, <3>6, Zenon DEF RebuildIsMemory
    <2> QED BY <2>1
  <1> QED BY <1>1, Invariant, PTL

\* The members of a wire are the orders bound to it, each with the role that its
\* row and its place give it (bind_member, terminalize_cid, finish).
THEOREM RolesSafe == Spec => []RolesMirrorRows
  <1>1. ASSUME Inv
        PROVE  RolesMirrorRows
    <2>1. WireInv(Ws) /\ RolesInv(Ws, orders)
      BY <1>1 DEF Inv, Sound, WireSound, Ws
    <2>2. \A c \in Cids : c \in MemberCids(Ws) <=> orders[c].ctx.venue_order_id = wire
      BY <2>1 DEF RolesInv
    <2> DEFINE ms == Ws.members
    <2>3. MembersInv(ms) /\ \A i \in DOMAIN ms : ms[i].cid \in Cids /\ ms[i].role \in Roles
      BY <2>1, MembersSeq DEF WireInv
    <2>4. ASSUME NEW i \in DOMAIN ms
          PROVE  ms[i].role = IF is_terminal_state(orders[ms[i].cid].state) THEN "Terminal"
                              ELSE IF i = Len(ms) THEN "Current" ELSE "Superseded"
      <3> DEFINE c == ms[i].cid
      <3>1. c \in Cids /\ c \in MemberCids(Ws)
        BY <2>3 DEF MemberCids
      <3>2. c \in non_terminal_cids(Ws) <=> ~ Ended(orders[c].state)
        BY <2>1, <2>2, <3>1 DEF RolesInv
      <3>3. c \in non_terminal_cids(Ws) <=> ms[i].role # "Terminal"
        <4>1. \A j \in DOMAIN ms : ms[j].cid = c => j = i
          BY <2>3 DEF MembersInv
        <4>2. c \in non_terminal_cids(Ws)
                <=> \E j \in DOMAIN ms : ms[j].cid = c /\ ms[j].role \in Roles \ {"Terminal"}
          BY DEF non_terminal_cids, MembersIn
        <4> QED BY <2>3, <4>1, <4>2
      <3>4. is_terminal_state(orders[c].state) <=> Ended(orders[c].state)
        BY EndedStates
      <3>5. ms[i].role = "Current" <=> ms[i].role # "Terminal" /\ i = Len(ms)
        BY <2>3 DEF MembersInv
      <3> QED BY <2>3, <3>2, <3>3, <3>4, <3>5 DEF Roles
    <2> QED BY <2>2, <2>4 DEF RolesMirrorRows
  <1> QED BY <1>1, Invariant, PTL

\* A wire holds exactly the executions the inventory has under its venue id
\* (fold_executions).
THEOREM HeldSafe == Spec => []HeldIsInventory
  <1>1. Inv => HeldIsInventory
    BY DEF Inv, Sound, WireSound, Ws, OfWire, HeldIsInventory
  <1> QED BY <1>1, Invariant, PTL

\* An execution that no order owns does not go unexplained: readiness waits for a
\* consistent round that was finished after it was ingested.
THEOREM ReadySafe == Spec => []ReadyIsAudited
  <1>1. ASSUME Inv
        PROVE  ReadyIsAudited
    <2>1. AuditInv(Ws, inventory, ghost.audited)
      BY <1>1 DEF Inv, Sound, WireSound, Ws
    <2>2. ASSUME readiness(reg.wires, inventory) = "Ready"
          PROVE  \A f \in Ws.held : inventory.entries[f].owner = None => f \in ghost.audited
      <3>1. reg.wires[wire] # None
              => IF reg.wires[wire].kind = "VenueOnly" THEN reg.wires[wire].resolved
                 ELSE ~ reg.wires[wire].tracked
        BY <2>2, ObservationAssumption DEF readiness
      <3>2. Ws = IF reg.wires[wire] = None THEN venue_only ELSE reg.wires[wire]
        BY DEF Ws, Wire, OrElse
      <3>3. CASE reg.wires[wire] = None
        BY <3>2, <3>3 DEF venue_only
      <3>4. CASE reg.wires[wire] # None
        BY <2>1, <3>1, <3>2, <3>4 DEF AuditInv, Explained
      <3> QED BY <3>3, <3>4
    <2> QED BY <2>2 DEF ReadyIsAudited
  <1> QED BY <1>1, Invariant, PTL

\* Once authority was withdrawn from a generation whose lineage was settled, no
\* frame, page or round makes the working remaining of that generation known.
THEOREM GapSafe == Spec => []GapNeverReproved
  <1>1. ASSUME Inv
        PROVE  GapNeverReproved
    <2>1. WireInv(Ws) /\ GapInv(Ws, ghost.gapped)
      BY <1>1 DEF Inv, Sound, WireSound, Ws
    <2>2. ASSUME working_view(Ws) # None
          PROVE  Ws.generation \notin ghost.gapped
      <3>1. /\ ~ Ws.authority_hold /\ Ws.remaining_observation # None
            /\ Ws.generation = 0 \/ Ws.proved_current_cid = current(Ws)
        BY <2>2 DEF working_view
      <3>2. Ws.generation \in Nat
        BY <2>1, WireFields
      <3>3. CASE Ws.generation = 0
        BY <2>1, <3>3 DEF GapInv
      <3>4. CASE Ws.generation > 0
        <4>1. Ws.proved_current_cid = current(Ws) /\ current(Ws) # None
          BY <2>1, <3>1, <3>4 DEF GapInv
        <4>2. current(Ws) \in non_terminal_cids(Ws)
          BY <2>1, <4>1, CurrentMember
        <4> QED BY <2>1, <3>1, <4>1, <4>2 DEF GapInv
      <3> QED BY <3>2, <3>3, <3>4
    <2> QED BY <2>2 DEF GapNeverReproved
  <1> QED BY <1>1, Invariant, PTL

\* What a wire has learnt is never unlearnt, by a record, a round or a restart.
THEOREM WireSafe == Spec => WireKept
  <1> DEFINE StepKeeps == LET new == Wire(reg'.wires, wire) IN
                          /\ new.generation >= Ws.generation
                          /\ Ws.held \subseteq new.held
                          /\ new.filled_hw >= Ws.filled_hw
                          /\ Ws.status \in {"Filled", "Canceled"} => new.status = Ws.status
                          /\ \A i \in DOMAIN Ws.members :
                               /\ new.members[i].cid = Ws.members[i].cid
                               /\ Ws.members[i].role = "Terminal" => new.members[i].role = "Terminal"
  <1>1. Inv /\ [Next]_vars => [StepKeeps]_vars
    <2>1. Tells => StepKeeps
      BY DEF Tells, Learns
    <2> QED BY <2>1, InvNext
  <1>2. Spec => [][StepKeeps]_vars
    BY <1>1, Invariant, PTL DEF Spec
  <1> QED BY <1>2 DEF WireKept

-----------------------------------------------------------------------------
(* What the shell knows of the venue's order                               *)

\* The venue has applied the own action, and its effect on the wire is due.
Pending(a) == a # None /\ a.applied /\ ~ a.observed

\* Every version that was called c has the size the order has now.
SameSize(vn, c) == \A v \in vn.versions : v.cid = c => v.initial = vn.size

\* The own action in flight: the successor of an amend names no version before
\* the venue applies it, and its lineage stands until its effect is observed.
ActionKnown(a, ws, vn) ==
    a # None =>
      /\ a.observed => a.applied
      /\ a.bound => ~ a.observed
      /\ MemberCids(ws) # {}
      /\ a.new # None =>
           /\ a.bound => a.new \in MemberCids(ws)
           /\ \A v \in vn.versions : v.cid = a.new => a.applied /\ v.initial = vn.size
           /\ ~ a.observed => /\ ws.amend_lineage # None
                              /\ ws.amend_lineage.new_cid = a.new
                              /\ ws.generation = ws.amend_lineage.pre_generation

\* A lineage whose effect is not observed is that of the action in flight.
LineageKnown(a, ws) ==
    LET l == ws.amend_lineage IN
    l # None =>
      /\ l.pre_generation <= ws.generation
      /\ ws.generation = l.pre_generation => a # None /\ ~ a.observed /\ a.new = l.new_cid

\* A version is of a member, of the order before its first answer, or of the
\* successor before its answer.
VersionKnown(v, a, ws, vn) ==
    /\ v.updated_ts < Cardinality(vn.versions)
    /\ v.status = "Resting" => v.remaining + v.filled = v.initial
    /\ vn.status = "Resting" => v.status = "Resting"
    /\ \/ v.cid \in MemberCids(ws)
       \/ v.cid = first /\ MemberCids(ws) = {}
       \/ a # None /\ a.applied /\ ~ a.bound /\ v.cid = a.new

\* Each observed action has a version, so the generation stays below their number.
VersionsKnown(a, ws, vn) ==
    /\ \E v \in vn.versions : v.cid = vn.cid
    /\ \A v \in vn.versions : VersionKnown(v, a, ws, vn)
    /\ ws.latest_user_order # None => ws.latest_user_order \in vn.versions
    /\ ws.generation + (IF Pending(a) THEN 1 ELSE 0) < Cardinality(vn.versions)
    /\ Cardinality(vn.versions) <= 1 \/ Cardinality(vn.versions) <= MaxVersion

\* Unless an effect is due, what may prove the remaining tells the size.
ProofsKnown(a, ws, vn) ==
    LET l == ws.amend_lineage
        obs == ws.remaining_observation
    IN ~ Pending(a) =>
         /\ ws.generation = 0 => \A v \in vn.versions : v.initial = vn.size
         /\ l # None /\ ws.generation = l.pre_generation + 1 => SameSize(vn, l.new_cid)
         /\ ws.generation > 0 /\ ws.proved_current_cid # None
              => SameSize(vn, ws.proved_current_cid)
         /\ obs # None /\ vn.status = "Resting"
              => obs.remaining + Cardinality(obs.covered) = vn.size

WireKnown(a, ws, vn) ==
    /\ ActionKnown(a, ws, vn) /\ LineageKnown(a, ws)
    /\ VersionsKnown(a, ws, vn) /\ ProofsKnown(a, ws, vn)

\* What the wire has learnt of the venue's order stays.
SameProofs(ws, new) ==
    /\ new.generation = ws.generation /\ new.amend_lineage = ws.amend_lineage
    /\ new.latest_user_order = ws.latest_user_order
    /\ new.proved_current_cid = ws.proved_current_cid
    /\ new.remaining_observation = ws.remaining_observation

\* A member joins, or none.
LEMMA KnownJoins ==
  ASSUME NEW a, NEW ws, NEW new, NEW vn, WireKnown(a, ws, vn), SameProofs(ws, new),
         MemberCids(ws) \subseteq MemberCids(new),
         MemberCids(ws) = {} => MemberCids(new) \subseteq {first}
  PROVE  WireKnown(a, new, vn)
  <1>1. ActionKnown(a, new, vn)
    <2>1. ActionKnown(a, ws, vn)
      BY DEF WireKnown
    <2> QED BY <2>1 DEF ActionKnown, SameProofs
  <1>2. LineageKnown(a, new)
    BY DEF WireKnown, LineageKnown, SameProofs
  <1>3. VersionsKnown(a, new, vn)
    <2>1. ASSUME NEW v \in vn.versions
          PROVE  VersionKnown(v, a, new, vn)
      <3>1. VersionKnown(v, a, ws, vn)
        BY DEF WireKnown, VersionsKnown
      <3> QED BY <3>1 DEF VersionKnown
    <2>2. VersionsKnown(a, ws, vn)
      BY DEF WireKnown
    <2> QED BY <2>1, <2>2 DEF VersionsKnown, SameProofs
  <1>4. ProofsKnown(a, new, vn)
    BY DEF WireKnown, ProofsKnown, SameProofs
  <1> QED BY <1>1, <1>2, <1>3, <1>4 DEF WireKnown

\* The successor's answer binds it.
LEMMA KnownBound ==
  ASSUME NEW a \in OwnActions, NEW ws, NEW vn, WireKnown(a, ws, vn), a # None,
         a.applied, ~ a.bound, a.new \in MemberCids(ws), a.new # None
  PROVE  WireKnown(InFlight([a EXCEPT !.bound = TRUE]), ws, vn)
  <1> DEFINE b == [a EXCEPT !.bound = TRUE]
             d == InFlight(b)
  <1>1. /\ b.new = a.new /\ b.applied = a.applied /\ b.observed = a.observed /\ b.bound = TRUE
        /\ a.observed \in BOOLEAN /\ b # None
    <2>1. b \in OwnActions
      BY DEF OwnActions
    <2> QED BY <2>1, ActionAssumption DEF OwnActions
  <1> HIDE DEF b
  <1>2. d = IF a.observed THEN None ELSE b
    BY <1>1 DEF InFlight
  <1> HIDE DEF d
  <1>3. Pending(d) <=> Pending(a)
    BY <1>1, <1>2 DEF Pending
  <1>4. ActionKnown(d, ws, vn)
    BY <1>1, <1>2 DEF WireKnown, ActionKnown
  <1>5. LineageKnown(d, ws)
    BY <1>1, <1>2, <1>3 DEF WireKnown, LineageKnown
  <1>6. VersionsKnown(d, ws, vn)
    <2>1. ASSUME NEW v \in vn.versions
          PROVE  VersionKnown(v, d, ws, vn)
      <3>1. VersionKnown(v, a, ws, vn)
        BY DEF WireKnown, VersionsKnown
      <3> QED BY <3>1 DEF VersionKnown
    <2>2. VersionsKnown(a, ws, vn)
      BY DEF WireKnown
    <2> QED BY <1>3, <2>1, <2>2 DEF VersionsKnown
  <1>7. ProofsKnown(d, ws, vn)
    BY <1>3 DEF WireKnown, ProofsKnown
  <1> QED BY <1>4, <1>5, <1>6, <1>7 DEF WireKnown, d, b

\* The effect of the own action is observed, and what was proved is void.
LEMMA KnownObserved ==
  ASSUME NEW a \in OwnActions, NEW ws, NEW new, NEW vn, WireKnown(a, ws, vn), a # None,
         a.applied, ~ a.observed, ws.generation \in Nat,
         ws.amend_lineage \in Opt(AmendLineage),
         new.generation = ws.generation + 1, new.amend_lineage = ws.amend_lineage,
         new.latest_user_order = ws.latest_user_order,
         new.proved_current_cid = None, new.remaining_observation = None,
         MemberCids(new) = MemberCids(ws)
  PROVE  WireKnown(InFlight([a EXCEPT !.observed = TRUE]), new, vn)
  <1> DEFINE b == [a EXCEPT !.observed = TRUE]
             d == InFlight(b)
  <1>1. /\ b.new = a.new /\ b.applied = a.applied /\ b.observed = TRUE /\ b.bound = a.bound
        /\ a.bound \in BOOLEAN /\ b # None
    <2>1. b \in OwnActions
      BY DEF OwnActions
    <2> QED BY <2>1, ActionAssumption DEF OwnActions
  <1> HIDE DEF b
  <1>2. d = IF a.bound THEN None ELSE b
    BY <1>1 DEF InFlight
  <1> HIDE DEF d
  <1>3. ~ Pending(d) /\ Pending(a)
    BY <1>1, <1>2 DEF Pending
  <1>4. ActionKnown(d, new, vn)
    BY <1>1, <1>2 DEF WireKnown, ActionKnown
  <1> DEFINE l == ws.amend_lineage
             n == ws.generation
  <1>5. l # None => l.pre_generation \in Nat /\ l.pre_generation <= n
    <2>1. l # None => l \in AmendLineage
      BY DEF Opt
    <2>2. l # None => l.pre_generation <= n
      BY DEF WireKnown, LineageKnown
    <2> QED BY <2>1, <2>2 DEF AmendLineage
  <1>6. LineageKnown(d, new)
    <2>1. n \in Nat
      OBVIOUS
    <2>2. new.generation = n + 1 /\ new.amend_lineage = l
      OBVIOUS
    <2> HIDE DEF l, n
    <2> QED BY <1>5, <2>1, <2>2 DEF LineageKnown
  <1>7. VersionsKnown(d, new, vn)
    <2>1. VersionsKnown(a, ws, vn)
      BY DEF WireKnown
    <2>2. ASSUME NEW v \in vn.versions
          PROVE  VersionKnown(v, d, new, vn)
      <3>1. VersionKnown(v, a, ws, vn)
        BY <2>1 DEF VersionsKnown
      <3> QED BY <1>1, <1>2, <3>1 DEF VersionKnown
    <2>3. new.generation + 0 < Cardinality(vn.versions)
      BY <1>3, <2>1 DEF VersionsKnown
    <2> QED BY <1>3, <2>1, <2>2, <2>3 DEF VersionsKnown
  <1>8. ProofsKnown(d, new, vn)
    <2>1. l # None /\ n + 1 = l.pre_generation + 1 => SameSize(vn, l.new_cid)
      <3>1. ASSUME l # None, n = l.pre_generation
            PROVE  SameSize(vn, l.new_cid)
        <4>1. a.new = l.new_cid
          BY <3>1 DEF WireKnown, LineageKnown
        <4>2. l.new_cid \in Cids
          BY <3>1 DEF Opt, AmendLineage
        <4>3. a.new # None
          BY <4>1, <4>2, RowAssumption
        <4> QED BY <4>1, <4>3 DEF WireKnown, ActionKnown, SameSize
      <3> HIDE DEF l
      <3> QED BY <1>5, <3>1
    <2> QED BY <2>1 DEF ProofsKnown
  <1> QED BY <1>4, <1>6, <1>7, <1>8 DEF WireKnown, d, b

-----------------------------------------------------------------------------
(* A new version                                                           *)

\* What a report says of it, and that it is new.
LEMMA NewVersion ==
  ASSUME NEW vn, VenueSound(vn),
         \A v \in vn.versions : v.updated_ts < Cardinality(vn.versions)
  PROVE  LET s == Snapshot(vn)
             new == Versioned(vn)
             n == Cardinality(vn.versions)
         IN /\ s.cid = vn.cid /\ s.status = vn.status /\ s.initial = vn.size
            /\ s.updated_ts = n
            /\ vn.status = "Resting" => s.remaining + s.filled = s.initial
            /\ new.cid = vn.cid /\ new.size = vn.size /\ new.fills = vn.fills
            /\ new.status = vn.status
            /\ new.versions = vn.versions \cup {s}
            /\ n \in Nat /\ Cardinality(new.versions) = n + 1
  <1> DEFINE c == vn.cid
             z == vn.size
             fs == vn.fills
             st == vn.status
             vs == vn.versions
             k == Cardinality(fs)
             r == Remaining(vn)
             n == Cardinality(vs)
             s == Snapshot(vn)
             new == Versioned(vn)
  <1>1. /\ vn = [cid |-> c, size |-> z, fills |-> fs, status |-> st, versions |-> vs]
        /\ z \in Nat /\ IsFiniteSet(fs) /\ IsFiniteSet(vs)
    BY DEF VenueSound
  <1>2. k \in Nat /\ n \in Nat
    BY <1>1, FS_CardinalityType
  <1>3. r = IF st = "Resting" THEN z - k ELSE 0
    BY DEF Remaining
  <1>4. s = [cid |-> c, status |-> st, initial |-> z, filled |-> k, remaining |-> r,
             updated_ts |-> n]
    BY DEF Snapshot
  <1> DEFINE ts == vs \cup {s}
  <1>5. new = [vn EXCEPT !.versions = ts]
    BY DEF Versioned
  <1>6. s \notin vs
    <2>1. \A v \in vs : v.updated_ts < n
      OBVIOUS
    <2>2. s.updated_ts = n
      BY <1>4
    <2> HIDE DEF s, vs, n
    <2> QED BY <1>2, <2>1, <2>2
  <1>7. Cardinality(ts) = n + 1
    BY <1>1, <1>6, FS_AddElement
  <1> HIDE DEF c, z, fs, st, k, r, n, s, new, ts
  <1>8. new = [cid |-> c, size |-> z, fills |-> fs, status |-> st, versions |-> ts]
    <2> HIDE DEF vs
    <2> QED BY <1>1, <1>5
  <1>9. st = "Resting" => s.remaining + s.filled = s.initial
    BY <1>1, <1>2, <1>3, <1>4
  <1>10. /\ s.cid = c /\ s.status = st /\ s.initial = z /\ s.updated_ts = n
    BY <1>4
  <1>11. /\ new.cid = c /\ new.size = z /\ new.fills = fs /\ new.status = st
         /\ new.versions = ts
    BY <1>8
  <1> QED BY <1>2, <1>7, <1>9, <1>10, <1>11 DEF c, z, fs, st, n, s, new, ts

\* A fill or the end of the order: its name and its size stay.
LEMMA KnownGrows ==
  ASSUME NEW a, NEW ws, ws.generation \in Nat, NEW vn, WireKnown(a, ws, vn),
         NEW x, VenueSound(x), x.versions = vn.versions, x.cid = vn.cid, x.size = vn.size,
         vn.status = "Resting", Cardinality(vn.versions) < MaxVersion
  PROVE  WireKnown(a, ws, Versioned(x))
  <1> DEFINE s == Snapshot(x)
             new == Versioned(x)
             n == Cardinality(vn.versions)
             p == IF Pending(a) THEN 1 ELSE 0
  <1>1. VersionsKnown(a, ws, vn)
    BY DEF WireKnown
  <1>2. \A v \in x.versions : v.updated_ts < Cardinality(x.versions)
    BY <1>1 DEF VersionsKnown, VersionKnown
  <1>3. /\ s.cid = vn.cid /\ s.status = x.status /\ s.initial = vn.size /\ s.updated_ts = n
        /\ x.status = "Resting" => s.remaining + s.filled = s.initial
        /\ new.size = vn.size /\ new.status = x.status /\ new.cid = vn.cid
        /\ new.versions = vn.versions \cup {s}
        /\ n \in Nat /\ Cardinality(new.versions) = n + 1
    BY <1>2, NewVersion
  <1> HIDE DEF s, new, n
  <1>4. PICK u \in vn.versions : u.cid = vn.cid
    BY <1>1 DEF VersionsKnown
  <1>5. ActionKnown(a, ws, new)
    <2>1. ActionKnown(a, ws, vn)
      BY DEF WireKnown
    <2> QED BY <1>3, <1>4, <2>1 DEF ActionKnown
  <1>6. VersionsKnown(a, ws, new)
    <2>1. ASSUME NEW v \in new.versions
          PROVE  VersionKnown(v, a, ws, new)
      <3>1. CASE v \in vn.versions
        <4>1. VersionKnown(v, a, ws, vn)
          BY <1>1, <3>1 DEF VersionsKnown
        <4>2. v.updated_ts < n + 1
          <5>1. v.updated_ts < n
            BY <4>1 DEF VersionKnown, n
          <5>2. v.updated_ts \in Nat
            BY <3>1 DEF VenueSound, UserOrderEvidence
          <5> QED BY <1>3, <5>1, <5>2
        <4> QED BY <1>3, <4>1, <4>2 DEF VersionKnown
      <3>2. CASE v = s
        <4>1. VersionKnown(u, a, ws, vn)
          BY <1>1, <1>4 DEF VersionsKnown
        <4>2. n < n + 1
          BY <1>3
        <4> QED BY <1>3, <1>4, <3>2, <4>1, <4>2 DEF VersionKnown
      <3> QED BY <1>3, <3>1, <3>2
    <2>2. ws.generation + p < n + 1 /\ n + 1 <= MaxVersion
      <3>1. p \in Nat /\ ws.generation + p < n /\ n < MaxVersion
        BY <1>1 DEF VersionsKnown, n
      <3> HIDE DEF p
      <3> QED BY <1>3, <3>1, ObservationAssumption
    <2> QED BY <1>1, <1>3, <1>4, <2>1, <2>2 DEF VersionsKnown
  <1>7. ProofsKnown(a, ws, new)
    <2>1. ProofsKnown(a, ws, vn)
      BY DEF WireKnown
    <2>2. \A c : SameSize(vn, c) => SameSize(new, c)
      BY <1>3 DEF SameSize
    <2> QED BY <1>3, <2>1, <2>2 DEF ProofsKnown
  <1> QED BY <1>5, <1>6, <1>7 DEF WireKnown, new

\* The own action is applied: a new size, and of an amend a new name.
LEMMA KnownApplied ==
  ASSUME NEW a \in OwnActions, NEW ws, ws.generation \in Nat, NEW vn, WireKnown(a, ws, vn),
         NEW x, VenueSound(x), x.versions = vn.versions, x.cid = OrElse(a.new, vn.cid),
         x.size = a.size, vn.status = "Resting", Cardinality(vn.versions) < MaxVersion,
         a # None, ~ a.applied, a.new = None => a.bound,
         NEW b, b # None, b.applied, b.new = a.new, b.bound = a.bound,
         b.observed = a.observed
  PROVE  WireKnown(b, ws, Versioned(x))
  <1> DEFINE s == Snapshot(x)
             new == Versioned(x)
             n == Cardinality(vn.versions)
  <1>1. VersionsKnown(a, ws, vn) /\ ActionKnown(a, ws, vn)
    BY DEF WireKnown
  <1>2. \A v \in x.versions : v.updated_ts < Cardinality(x.versions)
    BY <1>1 DEF VersionsKnown, VersionKnown
  <1>3. /\ s.cid = x.cid /\ s.status = x.status /\ s.initial = x.size /\ s.updated_ts = n
        /\ x.status = "Resting" => s.remaining + s.filled = s.initial
        /\ new.size = x.size /\ new.status = x.status /\ new.cid = x.cid
        /\ new.versions = vn.versions \cup {s}
        /\ n \in Nat /\ Cardinality(new.versions) = n + 1
    BY <1>2, NewVersion
  <1> HIDE DEF s, new, n
  <1>4. PICK u \in vn.versions : u.cid = vn.cid
    BY <1>1 DEF VersionsKnown
  <1>5. x.cid = IF a.new = None THEN vn.cid ELSE a.new
    BY DEF OrElse
  <1>6. Pending(b) /\ ~ Pending(a) /\ ~ a.observed
    BY <1>1 DEF Pending, ActionKnown
  <1>7. \A v \in vn.versions : a.new # None => v.cid # a.new
    BY <1>1 DEF ActionKnown
  <1>8. ActionKnown(b, ws, new)
    BY <1>1, <1>3, <1>5, <1>7 DEF ActionKnown
  <1>9. VersionsKnown(b, ws, new)
    <2>1. ASSUME NEW v \in new.versions
          PROVE  VersionKnown(v, b, ws, new)
      <3>1. CASE v \in vn.versions
        <4>1. VersionKnown(v, a, ws, vn)
          BY <1>1, <3>1 DEF VersionsKnown
        <4>2. v.updated_ts < n + 1
          <5>1. v.updated_ts < n
            BY <4>1 DEF VersionKnown, n
          <5>2. v.updated_ts \in Nat
            BY <3>1 DEF VenueSound, UserOrderEvidence
          <5> QED BY <1>3, <5>1, <5>2
        <4> QED BY <1>3, <4>1, <4>2 DEF VersionKnown
      <3>2. CASE v = s
        <4>1. VersionKnown(u, a, ws, vn)
          BY <1>1, <1>4 DEF VersionsKnown
        <4>2. n < n + 1
          BY <1>3
        <4>3. \/ v.cid \in MemberCids(ws)
              \/ v.cid = first /\ MemberCids(ws) = {}
              \/ ~ b.bound /\ v.cid = b.new
          BY <1>1, <1>3, <1>4, <1>5, <3>2, <4>1 DEF VersionKnown, ActionKnown
        <4> QED BY <1>3, <3>2, <4>2, <4>3 DEF VersionKnown
      <3> QED BY <1>3, <3>1, <3>2
    <2>2. ws.generation + 1 < n + 1 /\ n + 1 <= MaxVersion
      <3>1. ws.generation + 0 < n /\ n < MaxVersion
        BY <1>1, <1>6 DEF VersionsKnown, n
      <3> QED BY <1>3, <3>1, ObservationAssumption
    <2> QED BY <1>1, <1>3, <1>6, <2>1, <2>2 DEF VersionsKnown
  <1>10. LineageKnown(b, ws)
    BY DEF WireKnown, LineageKnown
  <1>11. ProofsKnown(b, ws, new)
    BY <1>6 DEF ProofsKnown
  <1> QED BY <1>8, <1>9, <1>10, <1>11 DEF WireKnown, new

-----------------------------------------------------------------------------
(* Sending, refusing and the phases of a lineage                           *)

\* A decrease binds no order.
LEMMA KnownDecrease ==
  ASSUME NEW ws, NEW vn, WireKnown(None, ws, vn), MemberCids(ws) # {},
         NEW b, b.new = None, ~ b.applied, ~ b.observed
  PROVE  WireKnown(b, ws, vn)
  <1>1. ~ Pending(b) /\ ~ Pending(None)
    BY DEF Pending
  <1>2. ActionKnown(b, ws, vn)
    BY DEF ActionKnown
  <1>3. LineageKnown(b, ws)
    BY DEF WireKnown, LineageKnown
  <1>4. VersionsKnown(b, ws, vn)
    <2>1. VersionsKnown(None, ws, vn)
      BY DEF WireKnown
    <2>2. ASSUME NEW v \in vn.versions
          PROVE  VersionKnown(v, b, ws, vn)
      <3>1. VersionKnown(v, None, ws, vn)
        BY <2>1 DEF VersionsKnown
      <3> QED BY <3>1 DEF VersionKnown
    <2> QED BY <1>1, <2>1, <2>2 DEF VersionsKnown
  <1>5. ProofsKnown(b, ws, vn)
    BY <1>1 DEF WireKnown, ProofsKnown
  <1> QED BY <1>2, <1>3, <1>4, <1>5 DEF WireKnown

\* An amend to an order that was never bound: no version has its name.
LEMMA KnownAmend ==
  ASSUME NEW ws, ws.generation \in Nat, NEW vn, WireKnown(None, ws, vn), MemberCids(ws) # {},
         NEW b, b # None, b.new \notin MemberCids(ws), ~ b.applied, ~ b.bound, ~ b.observed,
         NEW new, MemberCids(new) = MemberCids(ws), new.generation = ws.generation,
         new.latest_user_order = ws.latest_user_order,
         new.proved_current_cid = ws.proved_current_cid,
         new.remaining_observation = ws.remaining_observation,
         new.amend_lineage # None, new.amend_lineage.new_cid = b.new,
         new.amend_lineage.pre_generation = ws.generation
  PROVE  WireKnown(b, new, vn)
  <1>1. ~ Pending(b) /\ ~ Pending(None)
    BY DEF Pending
  <1>2. VersionsKnown(None, ws, vn)
    BY DEF WireKnown
  <1>3. ASSUME NEW v \in vn.versions
        PROVE  VersionKnown(v, b, new, vn) /\ v.cid # b.new
    <2>1. VersionKnown(v, None, ws, vn)
      BY <1>2 DEF VersionsKnown
    <2> QED BY <2>1 DEF VersionKnown
  <1>4. ActionKnown(b, new, vn)
    BY <1>3 DEF ActionKnown
  <1>5. LineageKnown(b, new)
    BY DEF LineageKnown
  <1>6. VersionsKnown(b, new, vn)
    BY <1>1, <1>2, <1>3 DEF VersionsKnown
  <1>7. ProofsKnown(b, new, vn)
    <2>1. ProofsKnown(None, ws, vn)
      BY DEF WireKnown
    <2> QED BY <1>1, <2>1 DEF ProofsKnown
  <1> QED BY <1>4, <1>5, <1>6, <1>7 DEF WireKnown

\* Refused: the lineage of an amend is withdrawn, a decrease has none.
LEMMA KnownRefused ==
  ASSUME NEW a, NEW ws, ws.amend_lineage \in Opt(AmendLineage), NEW vn, WireKnown(a, ws, vn),
         ~ a.applied, a # None,
         NEW new, MemberCids(new) = MemberCids(ws), new.generation = ws.generation,
         new.latest_user_order = ws.latest_user_order,
         new.proved_current_cid = ws.proved_current_cid,
         new.remaining_observation = ws.remaining_observation,
         new.amend_lineage = IF a.new = None THEN ws.amend_lineage ELSE None
  PROVE  WireKnown(None, new, vn)
  <1>1. ~ Pending(None) /\ ~ Pending(a)
    BY DEF Pending
  <1>2. ActionKnown(None, new, vn)
    BY DEF ActionKnown
  <1>3. LineageKnown(None, new)
    <2>1. LineageKnown(a, ws)
      BY DEF WireKnown
    <2>2. ws.amend_lineage # None => ws.amend_lineage.new_cid # None
      BY RowAssumption DEF Opt, AmendLineage
    <2> QED BY <2>1, <2>2 DEF LineageKnown
  <1>4. VersionsKnown(None, new, vn)
    <2>1. VersionsKnown(a, ws, vn)
      BY DEF WireKnown
    <2>2. ASSUME NEW v \in vn.versions
          PROVE  VersionKnown(v, None, new, vn)
      <3>1. VersionKnown(v, a, ws, vn)
        BY <2>1 DEF VersionsKnown
      <3> QED BY <3>1 DEF VersionKnown
    <2> QED BY <1>1, <2>1, <2>2 DEF VersionsKnown
  <1>5. ProofsKnown(None, new, vn)
    <2>1. ProofsKnown(a, ws, vn)
      BY DEF WireKnown
    <2> QED BY <1>1, <2>1 DEF ProofsKnown
  <1> QED BY <1>2, <1>3, <1>4, <1>5 DEF WireKnown

\* A lineage in another phase, or another frame of some version.
LEMMA KnownRestated ==
  ASSUME NEW a, NEW ws, NEW vn, WireKnown(a, ws, vn),
         NEW new, MemberCids(new) = MemberCids(ws), new.generation = ws.generation,
         new.latest_user_order # None =>
           new.latest_user_order \in vn.versions \cup {ws.latest_user_order},
         new.proved_current_cid = ws.proved_current_cid,
         new.remaining_observation = ws.remaining_observation,
         new.amend_lineage = None <=> ws.amend_lineage = None,
         ws.amend_lineage # None =>
           /\ new.amend_lineage.new_cid = ws.amend_lineage.new_cid
           /\ new.amend_lineage.pre_generation = ws.amend_lineage.pre_generation
  PROVE  WireKnown(a, new, vn)
  <1>1. ActionKnown(a, new, vn)
    BY DEF WireKnown, ActionKnown
  <1>2. LineageKnown(a, new)
    BY DEF WireKnown, LineageKnown
  <1>3. VersionsKnown(a, new, vn)
    <2>1. VersionsKnown(a, ws, vn)
      BY DEF WireKnown
    <2>2. ASSUME NEW v \in vn.versions
          PROVE  VersionKnown(v, a, new, vn)
      <3>1. VersionKnown(v, a, ws, vn)
        BY <2>1 DEF VersionsKnown
      <3> QED BY <3>1 DEF VersionKnown
    <2> QED BY <2>1, <2>2 DEF VersionsKnown
  <1>4. ProofsKnown(a, new, vn)
    BY DEF WireKnown, ProofsKnown
  <1> QED BY <1>1, <1>2, <1>3, <1>4 DEF WireKnown

-----------------------------------------------------------------------------
(* The executions held, counted                                            *)

\* A sum of ones counts.
LEMMA UnitSum ==
  ASSUME NEW S, IsFiniteSet(S)
  PROVE  SumOver([x \in S |-> 1]) = Cardinality(S)
  <1> DEFINE u(T) == [x \in T |-> 1]
             B == {T \in SUBSET S : SumOver(u(T)) = Cardinality(T)}
  <1>1. ASSUME NEW T
        PROVE  u(T) \in [T -> Int]
    OBVIOUS
  <1>2. {} \in B
    <2>1. SumOver(u({})) = 0
      <3>1. IsFiniteSet({})
        BY FS_EmptySet
      <3>2. \A x \in {} : u({})[x] = 0
        OBVIOUS
      <3>3. u({}) \in [{} -> Int]
        BY <1>1
      <3> HIDE DEF u
      <3> QED BY <3>1, <3>2, <3>3, SumTyped
    <2>2. Cardinality({}) = 0
      BY FS_EmptySet
    <2> QED BY <2>1, <2>2
  <1>3. ASSUME NEW T \in SUBSET S, T # {}, T \ {Pick(T)} \in B
        PROVE  T \in B
    <2> DEFINE z == Pick(T)
               R == T \ {z}
    <2>1. z \in T /\ z \notin R /\ R \cup {z} = T
      BY <1>3, PickIn
    <2>2. IsFiniteSet(R) /\ IsFiniteSet(T)
      BY FS_Subset
    <2>3. SumOver(u(R)) = Cardinality(R)
      BY <1>3
    <2> HIDE DEF z, R
    <2>4. u(T) \in [R \cup {z} -> Int]
      BY <2>1
    <2>5. [x \in R |-> u(T)[x]] = u(R) /\ u(T)[z] = 1
      BY <2>1
    <2>6. Cardinality(T) = Cardinality(R) + 1
      BY <2>1, <2>2, FS_AddElement
    <2>7. SumOver(u(T)) = SumOver([x \in R |-> u(T)[x]]) + u(T)[z]
      <3> HIDE DEF u
      <3> QED BY <2>1, <2>2, <2>4, SumExtend
    <2>8. SumOver(u(T)) = Cardinality(T)
      <3> HIDE DEF u
      <3> QED BY <2>3, <2>5, <2>6, <2>7
    <2> QED BY <2>8
  <1> HIDE DEF B
  <1>4. S \in B
    <2>1. \A T \in SUBSET S : T # {} /\ T \ {Pick(T)} \in B => T \in B
      BY <1>3
    <2>2. \A T \in SUBSET S : T \in B
      BY <1>2, <2>1, SubsetInduction
    <2> QED BY <2>2
  <1> QED BY <1>4 DEF B

\* Every execution is of one contract, and finitely many are known.
UnitEntries(inv) ==
    /\ IsFiniteSet(KnownIds(inv))
    /\ \A f \in FillIds : inv.entries[f] # None => inv.entries[f].qty = 1

\* What a wire holds adds up to the number of its executions.
LEMMA HeldCounted ==
  ASSUME NEW ws, NEW inv, ws.held = OfWire(inv), UnitEntries(inv)
  PROVE  /\ IsFiniteSet(ws.held) /\ Cardinality(ws.held) \in Nat
         /\ SumHeld(ws, inv) = Cardinality(ws.held)
  <1>1. ws.held \subseteq KnownIds(inv)
    BY DEF OfWire, KnownIds
  <1>2. IsFiniteSet(ws.held)
    BY <1>1, FS_Subset DEF UnitEntries
  <1>3. Cardinality(ws.held) \in Nat
    BY <1>2, FS_CardinalityType
  <1>4. \A f \in ws.held : inv.entries[f] # None /\ inv.entries[f].qty = 1
    BY DEF OfWire, UnitEntries
  <1>5. [f \in ws.held |-> IF inv.entries[f] = None THEN 0 ELSE inv.entries[f].qty]
        = [f \in ws.held |-> 1]
    BY <1>4
  <1>6. SumHeld(ws, inv) = SumOver([f \in ws.held |-> 1])
    BY <1>5 DEF SumHeld
  <1> QED BY <1>2, <1>3, <1>6, UnitSum

-----------------------------------------------------------------------------
(* Proofs                                                                  *)

\* A frame or an order page proves the remaining: what it says was a version.
LEMMA KnownProved ==
  ASSUME NEW a, NEW ws, ws.generation \in Nat, ws.amend_lineage \in Opt(AmendLineage),
         NEW vn, WireKnown(a, ws, vn), NEW c, c # None, NEW remaining,
         \E v \in vn.versions : /\ v.cid = c
                                /\ vn.status = "Resting"
                                     => v.initial = remaining + Cardinality(ws.held),
         IF ws.amend_lineage # None
         THEN ws.generation = ws.amend_lineage.pre_generation + 1
              /\ c = ws.amend_lineage.new_cid
         ELSE ws.generation = 0 \/ ws.proved_current_cid = c,
         NEW new, MemberCids(new) = MemberCids(ws), new.generation = ws.generation,
         new.latest_user_order = ws.latest_user_order,
         new.amend_lineage = None, new.proved_current_cid = c,
         new.remaining_observation.remaining = remaining,
         new.remaining_observation.covered = ws.held
  PROVE  WireKnown(a, new, vn)
  <1> DEFINE l == ws.amend_lineage
             n == ws.generation
  <1>1. l # None => l.pre_generation \in Nat
    <2>1. l # None => l \in AmendLineage
      BY DEF Opt
    <2> QED BY <2>1, QtyAssumption DEF AmendLineage
  <1>2. ActionKnown(a, new, vn)
    <2>1. ActionKnown(a, ws, vn)
      BY DEF WireKnown
    <2>2. ASSUME a # None, a.new # None
          PROVE  a.observed
      <3>1. SUFFICES ASSUME ~ a.observed
                     PROVE  FALSE
        OBVIOUS
      <3>2. l # None /\ n = l.pre_generation
        BY <2>1, <2>2, <3>1 DEF ActionKnown
      <3>3. n = l.pre_generation + 1
        BY <3>2
      <3> HIDE DEF l, n
      <3> QED BY <1>1, <3>2, <3>3
    <2> QED BY <2>1, <2>2 DEF ActionKnown
  <1>3. LineageKnown(a, new)
    BY DEF LineageKnown
  <1>4. VersionsKnown(a, new, vn)
    <2>1. VersionsKnown(a, ws, vn)
      BY DEF WireKnown
    <2>2. ASSUME NEW v \in vn.versions
          PROVE  VersionKnown(v, a, new, vn)
      <3>1. VersionKnown(v, a, ws, vn)
        BY <2>1 DEF VersionsKnown
      <3> QED BY <3>1 DEF VersionKnown
    <2> QED BY <2>1, <2>2 DEF VersionsKnown
  <1>5. ProofsKnown(a, new, vn)
    <2>1. SUFFICES ASSUME ~ Pending(a)
                   PROVE  /\ n = 0 => \A v \in vn.versions : v.initial = vn.size
                          /\ SameSize(vn, c)
                          /\ vn.status = "Resting" =>
                               remaining + Cardinality(ws.held) = vn.size
      BY DEF ProofsKnown
    <2>2. /\ n = 0 => \A v \in vn.versions : v.initial = vn.size
          /\ l # None /\ n = l.pre_generation + 1 => SameSize(vn, l.new_cid)
          /\ n > 0 /\ ws.proved_current_cid # None => SameSize(vn, ws.proved_current_cid)
      BY <2>1 DEF WireKnown, ProofsKnown
    <2>3. SameSize(vn, c)
      <3>1. CASE l # None
        BY <2>2, <3>1
      <3>2. CASE l = None /\ n = 0
        BY <2>2, <3>2 DEF SameSize
      <3>3. CASE l = None /\ n # 0
        <4>1. n > 0 /\ ws.proved_current_cid = c
          BY <3>3
        <4> QED BY <2>2, <4>1
      <3> QED BY <3>1, <3>2, <3>3
    <2>4. vn.status = "Resting" => remaining + Cardinality(ws.held) = vn.size
      BY <2>3 DEF SameSize
    <2> QED BY <2>2, <2>3, <2>4
  <1> QED BY <1>2, <1>3, <1>4, <1>5 DEF WireKnown

-----------------------------------------------------------------------------
(* Rounds                                                                  *)

\* A round of a version of the order: it is fresh only in generation 0, where
\* the version agrees with the executions held.
LEMMA KnownRounded ==
  ASSUME NEW a, NEW ws, NEW vn, VenueSound(vn), WireKnown(a, ws, vn),
         NEW new, MemberCids(new) = MemberCids(ws), new.generation = ws.generation,
         new.latest_user_order = ws.latest_user_order,
         new.amend_lineage = ws.amend_lineage,
         new.proved_current_cid = ws.proved_current_cid,
         new.remaining_observation # None =>
           /\ ws.generation = 0
           /\ new.remaining_observation.covered = ws.held
           /\ \E s \in vn.versions : /\ new.remaining_observation.remaining = s.remaining
                                     /\ s.filled = Cardinality(ws.held)
  PROVE  WireKnown(a, new, vn)
  <1>1. ActionKnown(a, new, vn)
    BY DEF WireKnown, ActionKnown
  <1>2. LineageKnown(a, new)
    BY DEF WireKnown, LineageKnown
  <1>3. VersionsKnown(a, ws, vn)
    BY DEF WireKnown
  <1>4. VersionsKnown(a, new, vn)
    <2>1. ASSUME NEW v \in vn.versions
          PROVE  VersionKnown(v, a, new, vn)
      <3>1. VersionKnown(v, a, ws, vn)
        BY <1>3 DEF VersionsKnown
      <3> QED BY <3>1 DEF VersionKnown
    <2> QED BY <1>3, <2>1 DEF VersionsKnown
  <1>5. ProofsKnown(a, new, vn)
    <2>1. ProofsKnown(a, ws, vn)
      BY DEF WireKnown
    <2> DEFINE obs == new.remaining_observation
    <2>2. ASSUME ~ Pending(a), obs # None, vn.status = "Resting"
          PROVE  obs.remaining + Cardinality(obs.covered) = vn.size
      <3>1. PICK s \in vn.versions : obs.remaining = s.remaining
                                     /\ s.filled = Cardinality(ws.held)
        BY <2>2
      <3>2. s.status = "Resting" /\ s.remaining + s.filled = s.initial
        BY <1>3, <2>2 DEF VersionsKnown, VersionKnown
      <3>3. s.initial = vn.size
        BY <2>1, <2>2 DEF ProofsKnown
      <3>4. obs.covered = ws.held
        BY <2>2
      <3> HIDE DEF obs
      <3> QED BY <3>1, <3>2, <3>3, <3>4
    <2> QED BY <2>1, <2>2 DEF ProofsKnown
  <1> QED BY <1>1, <1>2, <1>4, <1>5 DEF WireKnown

\* What a round leaves of the frames and proofs of the wire.
LEMMA RoundProofs ==
  ASSUME NEW ws, WireInv(ws), NEW outcome, NEW fw, NEW row, NEW after, NEW pending
  PROVE  LET new == WireAfter(ws, outcome, fw, row, after, pending)
         IN /\ new.latest_user_order = ws.latest_user_order
            /\ new.remaining_observation # None =>
                 /\ outcome = "Fresh"
                 /\ new.remaining_observation.covered = ws.held
                 /\ new.remaining_observation.remaining = row.remaining
  <1> DEFINE D == EndedIn(after)
             retired == WithRole(ws, D, "Terminal")
             status == sticky_status(ws.status, row.status)
             consistent == outcome \in Consistents
             settled == /\ consistent /\ ~ pending
                        /\ row.status \in {"Filled", "Canceled"}
                        /\ ws.members # <<>>
                        /\ non_terminal_cids(retired) = {}
             tracked == ~ consistent \/ pending
             hold == retired.authority_hold /\ outcome # "Fresh" /\ ~ settled
             obs == IF outcome = "Fresh"
                    THEN [remaining |-> row.remaining, covered |-> ws.held,
                          generation |-> ws.generation]
                    ELSE None
             resolved == IF ws.kind = "VenueOnly"
                         THEN status \in {"Filled", "Canceled"} /\ consistent
                         ELSE retired.resolved
             new == [retired EXCEPT !.filled_hw = fw, !.status = status, !.tracked = tracked,
                                    !.last = outcome, !.authority_hold = hold,
                                    !.remaining_observation = obs, !.resolved = resolved]
  <1>1. WireAfter(ws, outcome, fw, row, after, pending) = new
    BY DEF WireAfter, EndedIn
  <1>2. WireInv(retired) /\ retired = [ws EXCEPT !.members = retired.members]
    BY WithRoleInv
  <1> HIDE DEF retired, D
  <1>3. retired.latest_user_order = ws.latest_user_order /\ retired \in WireState
    BY <1>2 DEF WireInv, WireState
  <1>4. obs # None => /\ outcome = "Fresh" /\ obs.covered = ws.held
                      /\ obs.remaining = row.remaining
    OBVIOUS
  <1> HIDE DEF status, obs, hold, resolved, tracked, settled
  <1>5. new.latest_user_order = retired.latest_user_order /\ new.remaining_observation = obs
    BY <1>3 DEF WireState
  <1> HIDE DEF new
  <1> QED BY <1>1, <1>3, <1>4, <1>5

\* A fresh round found the row to report what is held, and left the rows that
\* are not of a live member.
LEMMA FreshAgrees ==
  ASSUME NEW ws, WireInv(ws), NEW inv, NEW rows, NEW rnd, NEW row,
         finish(wire, ws, inv, rows, rnd, row) # None
  PROVE  LET new == finish(wire, ws, inv, rows, rnd, row).wire_after
         IN /\ new.latest_user_order = ws.latest_user_order
            /\ new.remaining_observation # None =>
                 /\ ws.generation = 0 /\ row.filled = SumHeld(ws, inv)
                 /\ new.remaining_observation.covered = ws.held
                 /\ new.remaining_observation.remaining = row.remaining
  <1> DEFINE sigma == SumHeld(ws, inv)
             fw == MaxOf(ws.filled_hw, row.filled)
             outcome == RoundOutcome(ws, rnd, row, sigma, fw)
             cids == non_terminal_cids(ws)
             now == [c \in cids |-> MemberObserved(rows[c], c, ws, wire, outcome, fw, row)]
             after == {[cid |-> c, row |-> [now[c] EXCEPT !.seq = @ + 1]] :
                         c \in {x \in cids : now[x] # rows[x]}}
             pending == \E c \in cids : now[c].state.kind = "ReconcilePending"
             wire_after == WireAfter(ws, outcome, fw, row, after, pending)
             t == [wire |-> wire, outcome |-> outcome, members_after |-> after,
                   wire_after |-> wire_after]
             txn == finish(wire, ws, inv, rows, rnd, row)
  <1>1. outcome = "Fresh" => ws.generation = 0 /\ row.filled = sigma
    BY DEF RoundOutcome, remaining_fresh
  <1>2. txn = FinishWith(wire, ws, rows, row, outcome, fw)
    BY DEF finish
  <1> HIDE DEF fw, outcome
  <1>3. FinishWith(wire, ws, rows, row, outcome, fw) \in {t, None}
    BY DEF FinishWith
  <1>4. txn = t
    BY <1>2, <1>3
  <1> HIDE DEF now, pending, after, wire_after, txn
  <1>5. t.wire_after = wire_after
    OBVIOUS
  <1> HIDE DEF t
  <1>6. wire_after = WireAfter(ws, outcome, fw, row, after, pending)
    BY DEF wire_after
  <1>7. /\ wire_after.latest_user_order = ws.latest_user_order
        /\ wire_after.remaining_observation # None =>
             /\ outcome = "Fresh"
             /\ wire_after.remaining_observation.covered = ws.held
             /\ wire_after.remaining_observation.remaining = row.remaining
    BY <1>6, RoundProofs
  <1> QED BY <1>1, <1>4, <1>5, <1>7 DEF txn, sigma

-----------------------------------------------------------------------------
(* A record, the proofs of its wire, and the other wires                   *)

\* No order is bound to another wire.
OthersKnown(wires) ==
    /\ DOMAIN wires = Venues
    /\ \A v \in Venues \ {wire} : WireInv(Wire(wires, v)) /\ MemberCids(Wire(wires, v)) = {}

LEMMA SameProofsTransitive ==
  ASSUME NEW a, NEW b, NEW c, SameProofs(a, b), SameProofs(b, c)
  PROVE  SameProofs(a, c)
  BY DEF SameProofs

\* Binding, retiring and freeing leave the proofs.
LEMMA BindProofs ==
  ASSUME NEW ws, WireInv(ws), NEW c \in Cids
  PROVE  SameProofs(ws, bind_member(ws, c))
  <1>1. CASE c \in MemberCids(ws)
    BY <1>1 DEF bind_member, SameProofs
  <1>2. CASE c \notin MemberCids(ws)
    <2> DEFINE new == bind_member(ws, c)
               ms == new.members
               t == IF ws.members = <<>> THEN InheritsTracking(ws) ELSE ws.tracked
    <2>1. new = [ws EXCEPT !.kind = "Scoped", !.members = ms, !.tracked = t]
      BY <1>2, BindJoins
    <2> HIDE DEF new, ms, t
    <2>2. SameProofs(ws, new)
      BY <2>1 DEF SameProofs, WireInv, WireState
    <2> QED BY <2>2 DEF new
  <1> QED BY <1>1, <1>2

LEMMA RetireProofs ==
  ASSUME NEW ws, WireInv(ws), NEW S
  PROVE  SameProofs(ws, WithRole(ws, S, "Terminal"))
  <1> DEFINE new == WithRole(ws, S, "Terminal")
             ms == new.members
  <1>1. new = [ws EXCEPT !.members = ms]
    BY WithRoleInv
  <1> HIDE DEF new, ms
  <1>2. SameProofs(ws, new)
    BY <1>1 DEF SameProofs, WireInv, WireState
  <1> QED BY <1>2 DEF new

LEMMA FreedProofs ==
  ASSUME NEW ws, WireInv(ws)
  PROVE  SameProofs(ws, [ws EXCEPT !.authority_hold = FALSE])
  BY DEF SameProofs, WireInv, WireState

LEMMA BumpProofs ==
  ASSUME NEW ws, WireInv(ws), ws.generation < U64Max
  PROVE  LET new == Bumped(ws)
         IN /\ new.generation = ws.generation + 1 /\ new.amend_lineage = ws.amend_lineage
            /\ new.latest_user_order = ws.latest_user_order
            /\ new.proved_current_cid = None /\ new.remaining_observation = None
            /\ MemberCids(new) = MemberCids(ws)
  <1> DEFINE g == SaturatingAdd(ws.generation, 1)
             new == Bumped(ws)
  <1>1. ws.generation \in Nat /\ U64Max \in Nat
    BY WireFields
  <1>2. g = ws.generation + 1
    BY <1>1 DEF SaturatingAdd
  <1>3. new = [ws EXCEPT !.generation = g, !.remaining_observation = None,
                         !.proved_current_cid = None]
    BY DEF Bumped
  <1> HIDE DEF g, new
  <1>4. /\ new.generation = g /\ new.amend_lineage = ws.amend_lineage
        /\ new.latest_user_order = ws.latest_user_order
        /\ new.proved_current_cid = None /\ new.remaining_observation = None
        /\ new.members = ws.members
    BY <1>3 DEF WireInv, WireState
  <1>5. MemberCids(new) = MemberCids(ws)
    BY <1>4, SameMembers
  <1> QED BY <1>2, <1>4, <1>5 DEF new

LEMMA ExecutionProofsKept ==
  ASSUME NEW ws, WireInv(ws), NEW x
  PROVE  SameProofs(ws, FoldExecution(ws, x))
  <1> DEFINE newly == x.id \notin ws.held /\ x.entry.owner = None
             h == ws.held \cup {x.id}
             r == ws.resolved /\ ~ (newly /\ ws.kind = "VenueOnly")
             k == ws.tracked \/ (newly /\ ws.kind = "Scoped")
             new == FoldExecution(ws, x)
  <1>1. new = [ws EXCEPT !.held = h, !.resolved = r, !.tracked = k]
    BY DEF FoldExecution
  <1> HIDE DEF new, h, r, k
  <1>2. SameProofs(ws, new)
    BY <1>1 DEF SameProofs, WireInv, WireState
  <1> QED BY <1>2 DEF new

\* Executions: the proofs of the wire and the members of the others stay.
LEMMA ExecutionsKnown ==
  ASSUME NEW wires, WiresOk(wires), WireInv(Wire(wires, wire)), OthersKnown(wires),
         NEW xs, Len(xs) = 0 \/ Len(xs) = 1, Len(xs) = 1 => xs[1].id \in FillIds
  PROVE  LET after == fold_executions(wires, xs)
         IN SameProofs(Wire(wires, wire), Wire(after, wire)) /\ OthersKnown(after)
  <1> DEFINE after == fold_executions(wires, xs)
  <1>1. CASE Len(xs) = 0
    <2>1. after = wires
      BY <1>1 DEF fold_executions
    <2> QED BY <2>1 DEF SameProofs
  <1>2. CASE Len(xs) = 1
    <2> DEFINE x == xs[1]
    <2>1. after = FoldOne(wires, x)
      BY <1>2 DEF fold_executions
    <2> HIDE DEF x
    <2>2. DOMAIN after = Venues /\ wire \in Venues /\ None \notin WireState
      BY <2>1, ObservationAssumption, WireAssumption DEF FoldOne
    <2>3. ASSUME NEW v \in Venues, WireInv(Wire(wires, v))
          PROVE  LET ws == Wire(wires, v)
                     new == Wire(after, v)
                 IN SameProofs(ws, new) /\ WireInv(new) /\ MemberCids(new) = MemberCids(ws)
      <3> DEFINE ws == Wire(wires, v)
                 h == FoldExecution(ws, x)
      <3>1. after[v] = IF Holds(x, v) THEN h ELSE wires[v]
        BY <2>1 DEF FoldOne
      <3>2. Holding(ws, h, x.id, x.entry.owner) /\ SameProofs(ws, h)
        BY <1>2, <2>3, ExecutionHeld, ExecutionProofsKept DEF x
      <3>3. WireInv(h) /\ h.members = ws.members
        BY <3>2 DEF Holding
      <3>4. MemberCids(h) = MemberCids(ws)
        BY <3>3, SameMembers
      <3> HIDE DEF h
      <3>5. h # None
        BY <2>2, <3>3 DEF WireInv
      <3>6. CASE Holds(x, v)
        <4>1. Wire(after, v) = h
          BY <3>1, <3>5, <3>6 DEF Wire, OrElse
        <4> QED BY <3>2, <3>3, <3>4, <4>1
      <3>7. CASE ~ Holds(x, v)
        <4>1. Wire(after, v) = ws
          BY <3>1, <3>7 DEF Wire
        <4> QED BY <2>3, <4>1 DEF SameProofs
      <3> QED BY <3>6, <3>7
    <2> HIDE DEF after
    <2>4. SameProofs(Wire(wires, wire), Wire(after, wire))
      BY <2>2, <2>3
    <2>5. OthersKnown(after)
      BY <2>2, <2>3 DEF OthersKnown
    <2> QED BY <2>4, <2>5 DEF after
  <1> QED BY <1>1, <1>2

\* An order record that tells of no own action leaves the proofs of the wire.
LEMMA CoreProofs ==
  ASSUME NEW wires, WiresOk(wires), WireInv(Wire(wires, wire)), NEW row, NEW o,
         o.cid \in Cids, OrderTells(row, o), o.event # "OwnAction"
  PROVE  SameProofs(Wire(wires, wire), Wire(FoldCore(wires, o), wire))
  <1> DEFINE has(rec) == \E i \in DOMAIN o.core : o.core[i].rec = rec
             k == CHOOSE i \in DOMAIN o.core : o.core[i].rec = "VenueBoundCid"
             v == o.core[k].venue
             bind == has("VenueBoundCid")
             put == [wires EXCEPT ![v] = bind_member(Wire(wires, v), o.cid)]
             bound == IF bind THEN put ELSE wires
             ends == has("OrderTerminal") \/ o.halted
             own == has("OwnActionCid")
             retired == IF ends THEN terminalize_cid(bound, o.cid) ELSE bound
             after == FoldCore(wires, o)
             ws == Wire(wires, wire)
  <1>1. after = IF own THEN bump_generation(retired, o.cid) ELSE retired
    BY DEF FoldCore
  <1>2. ~ own
    <2>1. \A r \in Marks(o.core) : r.rec # "OwnActionCid"
      BY DEF OrderTells
    <2>2. "OwnActionCid" \in Reserved
      BY DEF Reserved
    <2> QED BY <2>1, <2>2 DEF Marks
  <1>3. after = retired
    BY <1>1, <1>2
  <1>4. wire \in Venues /\ None \notin WireState
    BY ObservationAssumption, WireAssumption
  <1> HIDE DEF own, after, k, bind, ends
  <1>5. WireInv(Wire(bound, wire)) /\ SameProofs(ws, Wire(bound, wire))
    <2>1. CASE bind /\ v = wire
      <3> DEFINE x == bind_member(ws, o.cid)
      <3>1. SameProofs(ws, x)
        BY BindProofs
      <3>2. WireInv(x)
        <4>1. CASE o.cid \in MemberCids(ws)
          BY <4>1 DEF bind_member
        <4>2. CASE o.cid \notin MemberCids(ws)
          BY <4>2, BindMoves DEF Refolds, Moves
        <4> QED BY <4>1, <4>2
      <3>3. bound = [wires EXCEPT ![wire] = x]
        BY <2>1
      <3>4. x \in WireState /\ DOMAIN wires = Venues
        BY <3>2 DEF WireInv, WiresOk
      <3> HIDE DEF x, bound
      <3>5. Wire(bound, wire) = x
        BY <3>3, <3>4, WirePut
      <3> QED BY <3>1, <3>2, <3>5
    <2>2. CASE ~ (bind /\ v = wire)
      <3>1. bound[wire] = wires[wire]
        BY <2>2
      <3> HIDE DEF bound
      <3>2. Wire(bound, wire) = ws
        BY <3>1 DEF Wire
      <3> QED BY <3>2 DEF SameProofs
    <2> QED BY <2>1, <2>2
  <1> HIDE DEF bound
  <1>6. SameProofs(Wire(bound, wire), Wire(retired, wire))
    <2>1. CASE ends
      <3> DEFINE b == Wire(bound, wire)
                 c == o.cid
                 x == WithRole(b, {c}, "Terminal")
      <3>1. retired[wire] = IF bound[wire] # None /\ c \in MemberCids(bound[wire])
                            THEN WithRole(bound[wire], {c}, "Terminal") ELSE bound[wire]
        BY <1>4, <2>1 DEF terminalize_cid, ForMember
      <3>2. b = IF bound[wire] = None THEN venue_only ELSE bound[wire]
        BY DEF Wire, OrElse
      <3>3. SameProofs(b, x) /\ WireInv(x)
        BY <1>5, RetireProofs, WithRoleInv
      <3> HIDE DEF retired, x
      <3>4. Wire(retired, wire) = IF retired[wire] = None THEN venue_only ELSE retired[wire]
        BY DEF Wire, OrElse
      <3>5. CASE bound[wire] # None /\ c \in MemberCids(bound[wire])
        <4>1. retired[wire] = x
          BY <3>1, <3>2, <3>5 DEF x
        <4>2. x # None
          BY <1>4, <3>3 DEF WireInv
        <4> QED BY <3>3, <3>4, <4>1, <4>2
      <3>6. CASE ~ (bound[wire] # None /\ c \in MemberCids(bound[wire]))
        <4>1. Wire(retired, wire) = b
          BY <3>1, <3>2, <3>4, <3>6
        <4> QED BY <4>1 DEF SameProofs
      <3> QED BY <3>5, <3>6
    <2>2. CASE ~ ends
      BY <2>2 DEF SameProofs
    <2> QED BY <2>1, <2>2
  <1> HIDE DEF retired
  <1> QED BY <1>3, <1>5, <1>6, SameProofsTransitive DEF ws, after

LEMMA OrderProofs ==
  ASSUME NEW wires, WiresOk(wires), WireInv(Wire(wires, wire)), NEW row, NEW o,
         o.cid \in Cids, OrderTells(row, o), o.event # "OwnAction",
         o.cid \in MemberCids(Wire(wires, wire)) <=> row.ctx.venue_order_id = wire
  PROVE  SameProofs(Wire(wires, wire), Wire(FoldOrder(wires, o), wire))
  <1> DEFINE folded == FoldCore(wires, o)
             freed == /\ wires[wire] # None
                      /\ DischargesHold(wires[wire], wire, o)
                      /\ o.cid \in MemberCids(folded[wire])
                      /\ o.cid \notin non_terminal_cids(folded[wire])
                      /\ current(folded[wire]) = None
             after == FoldOrder(wires, o)
             ws == Wire(wires, wire)
             ms == Wire(folded, wire)
             x == [folded[wire] EXCEPT !.authority_hold = FALSE]
  <1>1. SameProofs(ws, ms)
    BY CoreProofs
  <1>2. WireInv(ms)
    BY CoreFolds DEF Refolds, Moves
  <1>3. wire \in Venues /\ None \notin WireState
    BY ObservationAssumption, WireAssumption
  <1>4. after[wire] = IF freed THEN x ELSE folded[wire]
    BY <1>3 DEF FoldOrder
  <1>5. ms = IF folded[wire] = None THEN venue_only ELSE folded[wire]
    BY DEF Wire, OrElse
  <1>6. Wire(after, wire) = IF after[wire] = None THEN venue_only ELSE after[wire]
    BY DEF Wire, OrElse
  <1>7. WiresOk(after) /\ WireInv(Wire(after, wire))
    BY OrderFolds DEF Refolds, Moves
  <1> HIDE DEF freed, folded, after, ms, ws
  <1>8. CASE ~ freed
    <2>1. Wire(after, wire) = ms
      BY <1>4, <1>5, <1>6, <1>8
    <2> QED BY <1>1, <2>1 DEF after, ws
  <1>9. CASE freed /\ folded[wire] # None
    <2>1. ms = folded[wire]
      BY <1>5, <1>9
    <2>2. SameProofs(ms, x) /\ x.members = ms.members /\ x \in WireState
      BY <1>2, <2>1, FreedProofs DEF WireInv, WireState
    <2> HIDE DEF x
    <2>3. Wire(after, wire) = x
      BY <1>3, <1>4, <1>6, <1>9, <2>2
    <2>4. SameProofs(ws, x)
      BY <1>1, <2>2, SameProofsTransitive
    <2> QED BY <2>3, <2>4 DEF after, ws
  <1>10. CASE freed /\ folded[wire] = None
    <2>1. WiresOk(folded)
      BY CoreFolds DEF folded
    <2>2. FALSE
      <3>1. wires[wire] # None /\ ws = wires[wire]
        BY <1>10 DEF freed, ws, Wire, OrElse
      <3>2. ws.proved_current_cid = o.cid /\ current(ws) = o.cid /\ o.cid # None
        BY <1>10, <3>1, RowAssumption DEF freed, DischargesHold
      <3>3. o.cid \in MemberCids(ws)
        BY <3>2, CurrentMember DEF ws
      <3>4. Refolds(ws, ms, NewlyBound(row, o), NewlyEnded(o))
        BY CoreFolds DEF ws, ms, folded
      <3>5. o.cid \in MemberCids(ms)
        BY <3>3, <3>4 DEF Refolds
      <3>6. ms = venue_only
        BY <1>5, <1>10
      <3> QED BY <3>5, <3>6, VenueOnlyInv
    <2> QED BY <2>2
  <1> QED BY <1>8, <1>9, <1>10

\* An own action comes alone: the generation of its wire advances.
LEMMA OrderBumps ==
  ASSUME NEW wires, NEW o, o.event = "OwnAction", o.halted = FALSE,
         DOMAIN o.core # {}, \A i \in DOMAIN o.core : o.core[i].rec = "OwnActionCid",
         WireInv(Wire(wires, wire)), o.cid \in MemberCids(Wire(wires, wire))
  PROVE  Wire(FoldOrder(wires, o), wire) = Bumped(Wire(wires, wire))
  <1> DEFINE folded == FoldCore(wires, o)
             after == FoldOrder(wires, o)
             ws == Wire(wires, wire)
  <1>1. folded = bump_generation(wires, o.cid)
    BY DEF FoldCore
  <1>2. wire \in Venues /\ None \notin WireState
    BY ObservationAssumption, WireAssumption
  <1>3. folded[wire] = IF wires[wire] # None /\ o.cid \in MemberCids(wires[wire])
                       THEN Bumped(wires[wire]) ELSE wires[wire]
    BY <1>1, <1>2 DEF bump_generation, ForMember, Bumped
  <1>4. ~ DischargesHold(wires[wire], wire, o)
    BY DEF DischargesHold
  <1> HIDE DEF folded
  <1>5. after[wire] = folded[wire]
    BY <1>2, <1>4 DEF FoldOrder, folded
  <1>6. wires[wire] # None /\ ws = wires[wire]
    BY VenueOnlyInv DEF Wire, OrElse
  <1>7. after[wire] = Bumped(ws)
    BY <1>3, <1>5, <1>6
  <1>8. Bumped(ws) # None
    <2>1. WireInv(Bumped(ws))
      BY BumpMoves DEF Refolds, Moves
    <2> QED BY <1>2, <2>1 DEF WireInv
  <1> HIDE DEF after, ws
  <1>9. Wire(after, wire) = Bumped(ws)
    BY <1>7, <1>8 DEF Wire, OrElse
  <1> QED BY <1>9 DEF after, ws

\* An order of the wire is told to no other.
LEMMA OthersOrder ==
  ASSUME NEW wires, OthersKnown(wires), NEW row, NEW o, OrderTells(row, o),
         o.row.ctx.venue_order_id \in {None, wire}
  PROVE  OthersKnown(FoldOrder(wires, o))
  <1> DEFINE has(rec) == \E i \in DOMAIN o.core : o.core[i].rec = rec
             k == CHOOSE i \in DOMAIN o.core : o.core[i].rec = "VenueBoundCid"
             u == o.core[k].venue
             bind == has("VenueBoundCid")
             put == [wires EXCEPT ![u] = bind_member(Wire(wires, u), o.cid)]
             bound == IF bind THEN put ELSE wires
             ends == has("OrderTerminal") \/ o.halted
             own == has("OwnActionCid")
             retired == IF ends THEN terminalize_cid(bound, o.cid) ELSE bound
             folded == FoldCore(wires, o)
             after == FoldOrder(wires, o)
  <1>1. folded = IF own THEN bump_generation(retired, o.cid) ELSE retired
    BY DEF FoldCore
  <1>2. bind => u = wire
    <2>1. /\ bind <=> o.row.ctx.venue_order_id # row.ctx.venue_order_id
          /\ bind => u = o.row.ctx.venue_order_id
      BY BoundRecord
    <2>2. row.ctx.venue_order_id # None => o.row.ctx.venue_order_id = row.ctx.venue_order_id
      BY DEF OrderTells
    <2> HIDE DEF bind, u
    <2> QED BY <2>1, <2>2
  <1>3. DOMAIN after = Venues
    BY DEF FoldOrder
  <1> HIDE DEF bind, k, ends, own, folded
  <1>4. ASSUME NEW v \in Venues, v # wire
        PROVE  after[v] = wires[v]
    <2>1. wires[v] # None => MemberCids(wires[v]) = {}
      <3>1. MemberCids(Wire(wires, v)) = {}
        BY <1>4 DEF OthersKnown
      <3> QED BY <3>1 DEF Wire, OrElse
    <2>2. bound[v] = wires[v]
      BY <1>2, <1>4
    <2> HIDE DEF bound
    <2>3. retired[v] = wires[v]
      <3>1. CASE ends
        <4>1. retired[v] = IF bound[v] # None /\ o.cid \in MemberCids(bound[v])
                           THEN WithRole(bound[v], {o.cid}, "Terminal") ELSE bound[v]
          BY <3>1 DEF terminalize_cid, ForMember
        <4> QED BY <2>1, <2>2, <4>1
      <3> QED BY <2>2, <3>1
    <2> HIDE DEF retired
    <2>4. folded[v] = wires[v]
      <3>1. CASE own
        <4>1. folded[v] = IF retired[v] # None /\ o.cid \in MemberCids(retired[v])
                          THEN Bumped(retired[v]) ELSE retired[v]
          BY <1>1, <3>1 DEF bump_generation, ForMember, Bumped
        <4> QED BY <2>1, <2>3, <4>1
      <3> QED BY <1>1, <2>3, <3>1
    <2>5. after[v] = IF /\ wires[v] # None
                        /\ DischargesHold(wires[v], v, o)
                        /\ o.cid \in MemberCids(folded[v])
                        /\ o.cid \notin non_terminal_cids(folded[v])
                        /\ current(folded[v]) = None
                     THEN [folded[v] EXCEPT !.authority_hold = FALSE] ELSE folded[v]
      BY DEF FoldOrder, folded
    <2> QED BY <2>1, <2>4, <2>5
  <1> HIDE DEF after
  <1>5. ASSUME NEW v \in Venues \ {wire}
        PROVE  Wire(after, v) = Wire(wires, v)
    BY <1>4, <1>5 DEF Wire
  <1>6. OthersKnown(after)
    BY <1>3, <1>5 DEF OthersKnown
  <1> QED BY <1>6 DEF after

\* A row that is bound is bound to the wire; one that is not is as Init made it.
RowKnown(r) ==
    /\ r.ctx.venue_order_id \in {None, wire}
    /\ r.ctx.venue_order_id = None => r = Row(Plain("SubmitStarted"), new_ctx, 2)
RowsKnown(rows) == \A c \in Cids : RowKnown(rows[c])

\* Every execution counts one and is a member's or nobody's.
EntriesKnown(inv, ws) ==
    /\ UnitEntries(inv)
    /\ \A f \in FillIds : inv.entries[f] # None
         => inv.entries[f].owner = None \/ inv.entries[f].owner \in MemberCids(ws)

MemoryKnown(rows, inv, wires) ==
    /\ OthersKnown(wires) /\ RowsKnown(rows) /\ EntriesKnown(inv, Wire(wires, wire))

\* The inductive invariant behind KnownIsTrue, beside Inv.
KnownInv == WireKnown(action, Ws, venue) /\ MemoryKnown(orders, inventory, reg.wires)

LEMMA OthersPut ==
  ASSUME NEW wires, OthersKnown(wires), NEW new
  PROVE  OthersKnown([wires EXCEPT ![wire] = new])
  <1> DEFINE after == [wires EXCEPT ![wire] = new]
  <1>1. DOMAIN after = Venues /\ \A v \in Venues \ {wire} : after[v] = wires[v]
    BY DEF OthersKnown
  <1> HIDE DEF after
  <1>2. ASSUME NEW v \in Venues \ {wire}
        PROVE  WireInv(Wire(after, v)) /\ MemberCids(Wire(after, v)) = {}
    <2>1. Wire(after, v) = Wire(wires, v)
      BY <1>1, <1>2 DEF Wire
    <2> QED BY <1>2, <2>1 DEF OthersKnown
  <1>3. OthersKnown(after)
    BY <1>1, <1>2 DEF OthersKnown
  <1> QED BY <1>3 DEF after

LEMMA ShellKnows ==
  ASSUME Shell
  PROVE  /\ WireInv(Ws) /\ RolesInv(Ws, orders) /\ Ws.held = OfWire(inventory)
         /\ RegSound(reg, orders) /\ Ws.generation \in Nat
         /\ Ws.amend_lineage \in Opt(AmendLineage)
  <1>1. WireInv(Ws) /\ RolesInv(Ws, orders) /\ Ws.held = OfWire(inventory)
        /\ RegSound(reg, orders)
    BY DEF Shell, Sound, WireSound, Ws
  <1> QED BY <1>1, WireFields

\* The wire is replaced by one with the same members.
LEMMA ReplacedKnown ==
  ASSUME Shell, KnownInv, NEW new \in WireState, MemberCids(new) = MemberCids(Ws),
         reg' = [reg EXCEPT !.wires[wire] = new], RowsKnown(orders'), UNCHANGED inventory,
         WireKnown(action', new, venue')
  PROVE  KnownInv'
  <1>1. IsReg(reg) /\ WiresOk(reg.wires)
    BY ShellKnows DEF RegSound
  <1> DEFINE wires == [reg.wires EXCEPT ![wire] = new]
  <1>2. Wire(wires, wire) = new
    BY <1>1, WirePut DEF WiresOk
  <1>3. OthersKnown(wires)
    BY OthersPut DEF KnownInv, MemoryKnown
  <1>4. reg' = [reg EXCEPT !.wires = wires]
    OBVIOUS
  <1> HIDE DEF wires
  <1>5. reg'.wires = wires
    <2>1. [reg EXCEPT !.wires = wires] = [ok |-> reg.ok, wires |-> wires, seen |-> reg.seen]
      BY <1>1, RegUpdated
    <2> QED BY <1>4, <2>1
  <1>6. Ws' = new
    BY <1>2, <1>5 DEF Ws
  <1>7. EntriesKnown(inventory', new)
    BY DEF KnownInv, MemoryKnown, EntriesKnown, Ws
  <1> QED BY <1>2, <1>3, <1>5, <1>6, <1>7 DEF KnownInv, MemoryKnown

\* Nothing of the shell changes.
LEMMA LocalKnown ==
  ASSUME KnownInv, UNCHANGED <<orders, inventory, reg>>, WireKnown(action', Ws, venue')
  PROVE  KnownInv'
  <1>1. Ws' = Ws
    BY DEF Ws
  <1> QED BY <1>1 DEF KnownInv, MemoryKnown

LEMMA VenueKnown ==
  ASSUME Inv, KnownInv, (\E f \in FillIds : VenueFill(f)) \/ VenueCancel \/ VenueApply
  PROVE  KnownInv'
  <1>1. UNCHANGED local /\ \E x : VenueChanged(x)
    BY VenueSteps
  <1>2. PICK x : VenueChanged(x)
    BY <1>1
  <1>3. WireKnown(action, Ws, venue) /\ Ws.generation \in Nat
    BY ShellKnows DEF KnownInv, Inv, Shell
  <1>4. /\ VenueSound(x) /\ venue' = Versioned(x) /\ x.versions = venue.versions
        /\ venue.status = "Resting" /\ Cardinality(venue.versions) < MaxVersion
    BY <1>2 DEF VenueChanged
  <1>5. CASE action' = action /\ x.cid = venue.cid /\ x.size = venue.size
    <2>1. WireKnown(action, Ws, Versioned(x))
      BY <1>3, <1>4, <1>5, KnownGrows
    <2> QED BY <1>1, <1>4, <1>5, <2>1, LocalKnown DEF local
  <1>6. CASE ~ (action' = action /\ x.cid = venue.cid /\ x.size = venue.size)
    <2>1. /\ action \in OwnActions /\ action # None /\ ~ action.applied
          /\ (action.new = None => action.bound)
          /\ x.cid = OrElse(action.new, venue.cid) /\ x.size = action.size
          /\ action' # None /\ action'.applied /\ action'.new = action.new
          /\ action'.bound = action.bound /\ action'.observed = action.observed
      BY <1>2, <1>6 DEF VenueChanged
    <2>2. WireKnown(action', Ws, Versioned(x))
      BY <1>3, <1>4, <2>1, KnownApplied
    <2> QED BY <1>1, <1>4, <2>2, LocalKnown DEF local
  <1> QED BY <1>5, <1>6

LEMMA SendDecreaseKnown ==
  ASSUME Inv, KnownInv, NEW n \in Decreases, SendDecrease(n)
  PROVE  KnownInv'
  <1>1. /\ action = None /\ current(Ws) # None /\ UNCHANGED local /\ venue' = venue
        /\ action'.new = None /\ ~ action'.applied /\ ~ action'.observed
    BY DEF SendDecrease
  <1>2. MemberCids(Ws) # {}
    BY <1>1, ShellKnows, CurrentMember DEF Inv, Shell
  <1>3. WireKnown(None, Ws, venue)
    BY <1>1 DEF KnownInv
  <1>4. WireKnown(action', Ws, venue)
    BY <1>1, <1>2, <1>3, KnownDecrease
  <1> QED BY <1>1, <1>4, LocalKnown DEF local

\* What a proof writes, beside the hold.
ProvedAs(ws, new, c, remaining, hold) ==
    new = [Proved(ws, c, remaining) EXCEPT !.authority_hold = hold]

LEMMA ProofFields ==
  ASSUME NEW ws, WireInv(ws), NEW c, NEW remaining, NEW hold,
         NEW new, ProvedAs(ws, new, c, remaining, hold)
  PROVE  /\ new.members = ws.members /\ new.generation = ws.generation
         /\ new.latest_user_order = ws.latest_user_order
         /\ new.amend_lineage = None /\ new.proved_current_cid = c
         /\ new.remaining_observation.remaining = remaining
         /\ new.remaining_observation.covered = ws.held
  <1> DEFINE obs == [remaining |-> remaining, covered |-> ws.held, generation |-> ws.generation]
             fresh == "Fresh"
             none == None
             p == [ws EXCEPT !.last = fresh, !.remaining_observation = obs,
                             !.proved_current_cid = c, !.amend_lineage = none]
  <1>1. new = [p EXCEPT !.authority_hold = hold]
    BY DEF Proved, ProvedAs
  <1>2. obs.remaining = remaining /\ obs.covered = ws.held /\ none = None
    OBVIOUS
  <1> HIDE DEF obs, fresh, none
  <1>3. /\ p.members = ws.members /\ p.generation = ws.generation
        /\ p.latest_user_order = ws.latest_user_order
        /\ p.amend_lineage = none /\ p.proved_current_cid = c
        /\ p.remaining_observation = obs
        /\ \A x : LET n == [p EXCEPT !.authority_hold = x]
                  IN /\ n.members = p.members /\ n.generation = p.generation
                     /\ n.latest_user_order = p.latest_user_order
                     /\ n.amend_lineage = p.amend_lineage
                     /\ n.proved_current_cid = p.proved_current_cid
                     /\ n.remaining_observation = p.remaining_observation
    BY DEF WireInv, WireState
  <1> HIDE DEF p
  <1>4. /\ new.members = p.members /\ new.generation = p.generation
        /\ new.latest_user_order = p.latest_user_order
        /\ new.amend_lineage = p.amend_lineage
        /\ new.proved_current_cid = p.proved_current_cid
        /\ new.remaining_observation = p.remaining_observation
    BY <1>1, <1>3
  <1> QED BY <1>2, <1>3, <1>4

\* A lineage, a frame or a hold replaces what it says and nothing else.
LEMMA LineageFields ==
  ASSUME NEW ws, WireInv(ws), NEW l
  PROVE  LET new == [ws EXCEPT !.amend_lineage = l]
         IN /\ new.members = ws.members /\ new.generation = ws.generation
            /\ new.amend_lineage = l
            /\ new.latest_user_order = ws.latest_user_order
            /\ new.proved_current_cid = ws.proved_current_cid
            /\ new.remaining_observation = ws.remaining_observation
  BY DEF WireInv, WireState

LEMMA FrameFields ==
  ASSUME NEW ws, WireInv(ws), NEW e, NEW p
  PROVE  LET new == [ws EXCEPT !.latest_user_order = e, !.latest_user_order_revision = p]
         IN /\ new.members = ws.members /\ new.generation = ws.generation
            /\ new.amend_lineage = ws.amend_lineage
            /\ new.latest_user_order = e
            /\ new.proved_current_cid = ws.proved_current_cid
            /\ new.remaining_observation = ws.remaining_observation
  BY DEF WireInv, WireState

LEMMA HoldFields ==
  ASSUME NEW ws, WireInv(ws), NEW p
  PROVE  LET new == [ws EXCEPT !.authority_hold = TRUE, !.authority_hold_revision = p]
         IN new.members = ws.members /\ SameProofs(ws, new)
  BY DEF WireInv, WireState, SameProofs

LEMMA SendAmendKnown ==
  ASSUME Inv, KnownInv, NEW c \in Cids, NEW n \in Amends, SendAmend(c, n)
  PROVE  KnownInv'
  <1> DEFINE l == Lineage(current(Ws), c, Ws.generation, "HttpPending", n)
  <1>1. /\ Shell /\ WireInv(Ws) /\ GapInv(Ws, ghost.gapped) /\ Ws.generation \in Nat
        /\ RolesInv(Ws, orders) /\ WireKnown(action, Ws, venue) /\ RowsKnown(orders)
    BY ShellWire, ShellKnows DEF Inv, Shell, KnownInv, MemoryKnown
  <1>2. /\ current(Ws) # None /\ UNCHANGED <<pos, ghost, venue, orders, inventory>>
        /\ reg' = FoldLineage(reg, wire, l)
        /\ durable' = [durable EXCEPT !.reg = FoldLineage(durable.reg, wire, l)]
        /\ action = None /\ orders[c].ctx.venue_order_id = None
        /\ action'.new = c /\ ~ action'.applied /\ ~ action'.bound /\ ~ action'.observed
    BY DEF SendAmend, CommitFold
  <1>3. current(Ws) \in Cids /\ MemberCids(Ws) # {}
    BY <1>1, <1>2, CurrentMember
  <1>4. c \notin MemberCids(Ws)
    BY <1>1, <1>2, NoneAssumption, ObservationAssumption DEF RolesInv
  <1>5. l \in AmendLineage
    BY <1>1, <1>3, WireFields, ObservationAssumption DEF Lineage, AmendLineage, AmendPhase
  <1>6. /\ l \in Opt(AmendLineage) /\ l # None /\ l.new_cid = c
        /\ l.pre_generation = Ws.generation
    BY <1>5, WireAssumption DEF Opt, Lineage
  <1>7. \A k \in ghost.gapped : k <= l.pre_generation
    BY <1>1, <1>6 DEF GapInv
  <1>8. action' # None
    <2> DEFINE d == current(Ws)
    <2>1. action' = [old |-> d, new |-> c, size |-> n,
                     applied |-> FALSE, rests |-> 0, bound |-> FALSE, observed |-> FALSE]
      BY DEF SendAmend
    <2>2. d \in Cids /\ n \in Nat \ {0} /\ c \in Opt(Cids)
      BY <1>3, ObservationAssumption DEF Opt
    <2> HIDE DEF d
    <2>3. action' \in OwnActions
      BY <2>1, <2>2 DEF OwnActions
    <2> QED BY <2>3, ActionAssumption
  <1> HIDE DEF l
  <1> DEFINE new == [Ws EXCEPT !.amend_lineage = l]
  <1>9. Replaces(new)
    BY <1>1, <1>2, LineageReplaces
  <1>10. Restated(Ws, new)
    BY <1>1, <1>6, <1>7, LineageRestates
  <1>11. /\ new.members = Ws.members /\ new.generation = Ws.generation
         /\ new.amend_lineage = l
         /\ new.latest_user_order = Ws.latest_user_order
         /\ new.proved_current_cid = Ws.proved_current_cid
         /\ new.remaining_observation = Ws.remaining_observation
    BY <1>1, LineageFields
  <1> HIDE DEF new
  <1>12. new \in WireState /\ MemberCids(new) = MemberCids(Ws)
    BY <1>10, <1>11, SameMembers DEF Restated
  <1>13. WireKnown(None, Ws, venue)
    BY <1>1, <1>2
  <1>14. WireKnown(action', new, venue)
    BY <1>1, <1>2, <1>3, <1>4, <1>6, <1>8, <1>11, <1>12, <1>13, KnownAmend
  <1> QED BY <1>1, <1>2, <1>9, <1>12, <1>14, ReplacedKnown DEF Replaces

LEMMA ActionRefusedKnown ==
  ASSUME Inv, KnownInv, ActionRefused
  PROVE  KnownInv'
  <1>1. /\ Shell /\ WireInv(Ws) /\ GapInv(Ws, ghost.gapped)
        /\ Ws.amend_lineage \in Opt(AmendLineage)
        /\ WireKnown(action, Ws, venue) /\ RowsKnown(orders)
    BY ShellWire, ShellKnows DEF Inv, Shell, KnownInv, MemoryKnown
  <1>2. /\ UNCHANGED <<pos, ghost, venue, orders, inventory>> /\ action' = None
        /\ action # None /\ ~ action.applied
    BY DEF ActionRefused, CommitFold
  <1>3. CASE action.new = None
    <2>1. reg' = reg
      BY <1>3 DEF ActionRefused, CommitFold
    <2> DEFINE new == Ws
    <2>2. /\ MemberCids(new) = MemberCids(Ws) /\ new.generation = Ws.generation
          /\ new.latest_user_order = Ws.latest_user_order
          /\ new.proved_current_cid = Ws.proved_current_cid
          /\ new.remaining_observation = Ws.remaining_observation
          /\ new.amend_lineage = IF action.new = None THEN Ws.amend_lineage ELSE None
      BY <1>3
    <2> HIDE DEF new
    <2>3. WireKnown(None, new, venue)
      BY <1>1, <1>2, <2>2, KnownRefused
    <2> QED BY <1>2, <2>1, <2>3, LocalKnown DEF new
  <1>4. CASE action.new # None
    <2> DEFINE l == None
    <2>1. /\ reg' = FoldLineage(reg, wire, l)
          /\ durable' = [durable EXCEPT !.reg = FoldLineage(durable.reg, wire, l)]
      BY <1>4 DEF ActionRefused, CommitFold
    <2>2. l = None /\ l \in Opt(AmendLineage)
      BY DEF Opt
    <2> HIDE DEF l
    <2> DEFINE new == [Ws EXCEPT !.amend_lineage = l]
    <2>3. Replaces(new)
      BY <1>1, <1>2, <2>1, LineageReplaces
    <2>4. Restated(Ws, new)
      BY <1>1, <2>2, LineageRestates
    <2>5. /\ new.members = Ws.members /\ new.generation = Ws.generation
          /\ new.amend_lineage = l
          /\ new.latest_user_order = Ws.latest_user_order
          /\ new.proved_current_cid = Ws.proved_current_cid
          /\ new.remaining_observation = Ws.remaining_observation
      BY <1>1, LineageFields
    <2> HIDE DEF new
    <2>6. new \in WireState /\ MemberCids(new) = MemberCids(Ws)
      BY <2>4, <2>5, SameMembers DEF Restated
    <2>7. WireKnown(None, new, venue)
      BY <1>1, <1>2, <1>4, <2>2, <2>5, <2>6, KnownRefused
    <2> QED BY <1>1, <1>2, <2>3, <2>6, <2>7, ReplacedKnown DEF Replaces
  <1> QED BY <1>3, <1>4

LEMMA LineagePhaseKnown ==
  ASSUME Inv, KnownInv, LineagePhase
  PROVE  KnownInv'
  <1>1. /\ Shell /\ WireInv(Ws) /\ GapInv(Ws, ghost.gapped)
        /\ WireKnown(action, Ws, venue) /\ RowsKnown(orders)
    BY ShellWire DEF Inv, Shell, KnownInv, MemoryKnown
  <1>2. PICK phase \in {"AppliedNeedsObservation", "Unknown", "RestDue"} :
          LET l == [Ws.amend_lineage EXCEPT !.phase = phase]
          IN /\ Ws.amend_lineage # None
             /\ reg' = FoldLineage(reg, wire, l)
             /\ durable' = [durable EXCEPT !.reg = FoldLineage(durable.reg, wire, l)]
             /\ UNCHANGED <<orders, inventory, pos, ghost, remote>>
    BY DEF LineagePhase, CommitFold
  <1> DEFINE old == Ws.amend_lineage
             l == [old EXCEPT !.phase = phase]
  <1>3. old \in AmendLineage
    BY <1>1, <1>2, WireFields DEF Opt
  <1>4. l \in AmendLineage /\ l.pre_generation = old.pre_generation /\ l.new_cid = old.new_cid
    <2> HIDE DEF old
    <2> QED BY <1>3 DEF AmendLineage, AmendPhase
  <1>5. \A k \in ghost.gapped : k <= l.pre_generation
    BY <1>1, <1>2, <1>4 DEF GapInv
  <1>6. l \in Opt(AmendLineage) /\ l # None
    BY <1>4, WireAssumption DEF Opt
  <1>7. /\ reg' = FoldLineage(reg, wire, l)
        /\ durable' = [durable EXCEPT !.reg = FoldLineage(durable.reg, wire, l)]
        /\ UNCHANGED <<orders, inventory, remote>>
    BY <1>2
  <1> HIDE DEF l
  <1> DEFINE new == [Ws EXCEPT !.amend_lineage = l]
  <1>8. Replaces(new)
    BY <1>1, <1>7, LineageReplaces
  <1>9. Restated(Ws, new)
    BY <1>1, <1>5, <1>6, LineageRestates
  <1>10. /\ new.members = Ws.members /\ new.generation = Ws.generation
         /\ new.amend_lineage = l
         /\ new.latest_user_order = Ws.latest_user_order
         /\ new.proved_current_cid = Ws.proved_current_cid
         /\ new.remaining_observation = Ws.remaining_observation
    BY <1>1, LineageFields
  <1> HIDE DEF new
  <1>11. new \in WireState /\ MemberCids(new) = MemberCids(Ws)
    BY <1>9, <1>10, SameMembers DEF Restated
  <1>12. WireKnown(action, new, venue)
    BY <1>1, <1>2, <1>4, <1>6, <1>10, <1>11, KnownRestated
  <1> QED BY <1>1, <1>7, <1>8, <1>11, <1>12, ReplacedKnown DEF Replaces, remote

LEMMA UserOrderReceivedKnown ==
  ASSUME Inv, KnownInv, UserOrderReceived
  PROVE  KnownInv'
  <1>1. /\ Shell /\ WireInv(Ws) /\ GapInv(Ws, ghost.gapped) /\ pos \in Nat
        /\ VenueSound(venue) /\ WireKnown(action, Ws, venue) /\ RowsKnown(orders)
    BY ShellWire DEF Inv, Shell, KnownInv, MemoryKnown
  <1>2. PICK e \in venue.versions :
          /\ reg' = FoldFrame(reg, wire, pos, e) /\ UNCHANGED <<orders, inventory, remote>>
    BY DEF UserOrderReceived, CommitFold
  <1> DEFINE p == pos + 1
             new == [Ws EXCEPT !.latest_user_order = e, !.latest_user_order_revision = p]
  <1>3. e \in UserOrderEvidence
    BY <1>1 DEF VenueSound
  <1>4. Restated(Ws, new)
    BY <1>1, <1>3, FrameRestates
  <1>5. reg' = [reg EXCEPT !.wires[wire] = new]
    BY <1>2 DEF FoldFrame, Ws
  <1> HIDE DEF p
  <1>6. /\ new.members = Ws.members /\ new.generation = Ws.generation
        /\ new.amend_lineage = Ws.amend_lineage
        /\ new.latest_user_order = e
        /\ new.proved_current_cid = Ws.proved_current_cid
        /\ new.remaining_observation = Ws.remaining_observation
    BY <1>1, FrameFields
  <1> HIDE DEF new
  <1>7. new \in WireState /\ MemberCids(new) = MemberCids(Ws)
    BY <1>4, <1>6, SameMembers DEF Restated
  <1>8. WireKnown(action, new, venue)
    BY <1>1, <1>6, <1>7, KnownRestated
  <1> QED BY <1>1, <1>2, <1>5, <1>7, <1>8, ReplacedKnown DEF remote

LEMMA OrderAuthorityHoldKnown ==
  ASSUME Inv, KnownInv, OrderAuthorityHold
  PROVE  KnownInv'
  <1>1. /\ Shell /\ WireInv(Ws) /\ GapInv(Ws, ghost.gapped) /\ pos \in Nat
        /\ WireKnown(action, Ws, venue) /\ RowsKnown(orders)
    BY ShellWire DEF Inv, Shell, KnownInv, MemoryKnown
  <1>2. reg' = FoldHold(reg, wire, pos) /\ UNCHANGED <<orders, inventory, remote>>
    BY DEF OrderAuthorityHold, CommitFold
  <1> DEFINE p == pos + 1
             new == [Ws EXCEPT !.authority_hold = TRUE, !.authority_hold_revision = p]
  <1>3. Restated(Ws, new)
    BY <1>1, HoldRestates
  <1>4. reg' = [reg EXCEPT !.wires[wire] = new]
    BY <1>2 DEF FoldHold, Ws
  <1> HIDE DEF p
  <1>5. new.members = Ws.members /\ SameProofs(Ws, new)
    BY <1>1, HoldFields
  <1> HIDE DEF new
  <1>6. new \in WireState /\ MemberCids(new) = MemberCids(Ws)
    BY <1>3, <1>5, SameMembers DEF Restated
  <1>7. MemberCids(Ws) = {} => MemberCids(new) \subseteq {first}
    BY <1>6
  <1>8. WireKnown(action, new, venue)
    BY <1>1, <1>5, <1>6, <1>7, KnownJoins
  <1> QED BY <1>1, <1>2, <1>4, <1>6, <1>8, ReplacedKnown DEF remote

LEMMA ProofCommittedKnown ==
  ASSUME Inv, KnownInv, NEW new, ProofCommitted(new), Restated(Ws, new),
         WireKnown(action, new, venue)
  PROVE  KnownInv'
  <1>1. reg' = [reg EXCEPT !.wires[wire] = new] /\ UNCHANGED <<orders, inventory, remote>>
    BY DEF ProofCommitted, CommitFold, FoldProof
  <1>2. new \in WireState /\ MemberCids(new) = MemberCids(Ws)
    BY SameMembers DEF Restated
  <1>3. Shell /\ RowsKnown(orders)
    BY DEF Inv, Shell, KnownInv, MemoryKnown
  <1> QED BY <1>1, <1>2, <1>3, ReplacedKnown DEF remote

\* The executions held are as many as they sum up to.
LEMMA WireCounted ==
  ASSUME Shell, KnownInv
  PROVE  Cardinality(Ws.held) \in Nat /\ SumHeld(Ws, inventory) = Cardinality(Ws.held)
  <1>1. Ws.held = OfWire(inventory) /\ UnitEntries(inventory)
    BY ShellKnows DEF KnownInv, MemoryKnown, EntriesKnown
  <1> QED BY <1>1, HeldCounted

LEMMA FrameProofKnown ==
  ASSUME Inv, KnownInv, apply_order_state_resting
  PROVE  KnownInv'
  <1> DEFINE new == prepare_order_state_resting(Ws, inventory)
             e == Ws.latest_user_order
             c == e.cid
             n == e.remaining
             hold == Ws.authority_hold
             h == Cardinality(Ws.held)
  <1>1. ProofCommitted(new) /\ new # None
    BY DEF apply_order_state_resting, ProofCommitted
  <1>2. /\ Shell /\ WireInv(Ws) /\ GapInv(Ws, ghost.gapped) /\ Ws.generation \in Nat
        /\ Ws.amend_lineage \in Opt(AmendLineage) /\ VenueSound(venue)
        /\ WireKnown(action, Ws, venue)
    BY ShellWire, ShellKnows DEF Inv, Shell, KnownInv
  <1>3. Restated(Ws, new)
    BY <1>1, <1>2, FrameProves
  <1>4. /\ e # None /\ e.status = "Resting" /\ FrameProvesGeneration(Ws, e)
        /\ e.filled = SumHeld(Ws, inventory) /\ new = Proved(Ws, c, n)
    BY <1>1 DEF prepare_order_state_resting
  <1>5. h \in Nat /\ e.filled = h
    BY <1>2, <1>4, WireCounted
  <1>6. /\ e \in venue.versions /\ (venue.status = "Resting" => e.remaining + e.filled = e.initial)
    BY <1>2, <1>4 DEF WireKnown, VersionsKnown, VersionKnown
  <1>7. c # None /\ n \in Nat
    BY <1>2, <1>6, RowAssumption DEF VenueSound, UserOrderEvidence
  <1>8. \E v \in venue.versions : /\ v.cid = c
                                  /\ venue.status = "Resting" => v.initial = n + h
    <2> HIDE DEF h
    <2> QED BY <1>5, <1>6
  <1>9. IF Ws.amend_lineage # None
        THEN Ws.generation = Ws.amend_lineage.pre_generation + 1
             /\ c = Ws.amend_lineage.new_cid
        ELSE Ws.generation = 0 \/ Ws.proved_current_cid = c
    BY <1>4 DEF FrameProvesGeneration
  <1>10. ProvedAs(Ws, new, c, n, hold)
    <2>1. Proved(Ws, c, n) = [Proved(Ws, c, n) EXCEPT !.authority_hold = hold]
      BY <1>2 DEF Proved, WireInv, WireState
    <2> QED BY <1>4, <2>1 DEF ProvedAs
  <1> HIDE DEF new, c, n, hold
  <1>11. /\ new.members = Ws.members /\ new.generation = Ws.generation
         /\ new.latest_user_order = Ws.latest_user_order
         /\ new.amend_lineage = None /\ new.proved_current_cid = c
         /\ new.remaining_observation.remaining = n
         /\ new.remaining_observation.covered = Ws.held
    BY <1>2, <1>10, ProofFields
  <1>12. MemberCids(new) = MemberCids(Ws)
    BY <1>11, SameMembers
  <1>13. WireKnown(action, new, venue)
    BY <1>2, <1>7, <1>8, <1>9, <1>11, <1>12, KnownProved
  <1> QED BY <1>1, <1>3, <1>13, ProofCommittedKnown

LEMMA RestProofKnown ==
  ASSUME Inv, KnownInv, apply_rest_order_proof
  PROVE  KnownInv'
  <1>1. PICK s \in venue.versions :
          ProofCommitted(prepare_rest_order_proof(Ws, inventory, s.cid, s.filled,
                                                  s.remaining, s.initial))
    BY DEF apply_rest_order_proof
  <1> DEFINE new == prepare_rest_order_proof(Ws, inventory, s.cid, s.filled, s.remaining, s.initial)
             c == s.cid
             n == s.remaining
             hold == FALSE
             h == Cardinality(Ws.held)
  <1>2. ProofCommitted(new) /\ new # None
    BY <1>1 DEF ProofCommitted
  <1>3. /\ Shell /\ WireInv(Ws) /\ GapInv(Ws, ghost.gapped) /\ Ws.generation \in Nat
        /\ Ws.amend_lineage \in Opt(AmendLineage) /\ VenueSound(venue)
        /\ WireKnown(action, Ws, venue)
    BY ShellWire, ShellKnows DEF Inv, Shell, KnownInv
  <1>4. c # None /\ n \in Nat /\ s.initial \in Nat
    BY <1>3, RowAssumption DEF VenueSound, UserOrderEvidence
  <1>5. Restated(Ws, new)
    BY <1>2, <1>3, <1>4, RestProves
  <1>6. /\ Ws.amend_lineage # None /\ Ws.amend_lineage.new_cid = c
        /\ Ws.generation = Ws.amend_lineage.pre_generation + 1
        /\ s.filled + n = s.initial /\ s.filled = SumHeld(Ws, inventory)
        /\ ProvedAs(Ws, new, c, n, hold)
    BY <1>2 DEF prepare_rest_order_proof, ProvedAs
  <1>7. h \in Nat /\ s.filled = h
    BY <1>3, <1>6, WireCounted
  <1>8. \E v \in venue.versions : /\ v.cid = c
                                  /\ venue.status = "Resting" => v.initial = n + h
    <2> HIDE DEF h
    <2>1. s.initial = s.remaining + h
      BY <1>4, <1>6, <1>7
    <2> QED BY <2>1
  <1>9. IF Ws.amend_lineage # None
        THEN Ws.generation = Ws.amend_lineage.pre_generation + 1
             /\ c = Ws.amend_lineage.new_cid
        ELSE Ws.generation = 0 \/ Ws.proved_current_cid = c
    BY <1>6
  <1> HIDE DEF new, c, n, hold
  <1>10. /\ new.members = Ws.members /\ new.generation = Ws.generation
         /\ new.latest_user_order = Ws.latest_user_order
         /\ new.amend_lineage = None /\ new.proved_current_cid = c
         /\ new.remaining_observation.remaining = n
         /\ new.remaining_observation.covered = Ws.held
    BY <1>3, <1>6, ProofFields
  <1>11. MemberCids(new) = MemberCids(Ws)
    BY <1>10, SameMembers
  <1>12. WireKnown(action, new, venue)
    BY <1>3, <1>4, <1>8, <1>9, <1>10, <1>11, KnownProved
  <1> QED BY <1>2, <1>5, <1>12, ProofCommittedKnown

LEMMA RoundOpensKnown ==
  ASSUME Inv, KnownInv, RoundBegin \/ \E complete \in BOOLEAN : RoundPage(complete)
  PROVE  KnownInv'
  <1>1. UNCHANGED <<orders, inventory, reg, remote>>
    BY DEF RoundBegin, RoundPage
  <1>2. WireKnown(action', Ws, venue')
    BY <1>1 DEF KnownInv, remote
  <1> QED BY <1>1, <1>2, LocalKnown

LEMMA RestartKnown ==
  ASSUME Inv, KnownInv, Restart
  PROVE  KnownInv'
  <1>1. /\ UNCHANGED remote /\ reg' = durable.reg
        /\ inventory' = durable.inventory.inventory
        /\ orders' = [c \in Cids |-> durable.orders[c].row]
    BY DEF Restart
  <1>2. durable = Restored(orders, inventory, reg)
    BY DEF Inv
  <1> DEFINE x == InventoryRebuilt(inventory)
             y == [c \in Cids |-> RowRebuilt(orders[c])]
  <1>3. durable.inventory = x /\ durable.orders = y /\ durable.reg = reg
    <2>1. durable = [inventory |-> x, orders |-> y, reg |-> reg]
      BY <1>2 DEF Restored
    <2> HIDE DEF x, y
    <2> QED BY <2>1
  <1>4. x.inventory = inventory
    BY DEF InventoryRebuilt
  <1>5. ASSUME NEW c \in Cids
        PROVE  orders'[c] = orders[c]
    <2>1. RowRebuilt(orders[c]).row = orders[c]
      BY DEF RowRebuilt
    <2>2. orders'[c] = y[c].row
      BY <1>1, <1>3
    <2> QED BY <2>1, <2>2
  <1>6. inventory' = inventory /\ reg' = reg
    BY <1>1, <1>3, <1>4
  <1>7. RowsKnown(orders')
    BY <1>5 DEF KnownInv, MemoryKnown, RowsKnown
  <1>8. Ws' = Ws
    BY <1>6 DEF Ws
  <1> QED BY <1>1, <1>6, <1>7, <1>8 DEF KnownInv, MemoryKnown, remote

LEMMA RoundFinishKnown ==
  ASSUME Inv, KnownInv, RoundFinish
  PROVE  KnownInv'
  <1>1. /\ Shell /\ WireInv(Ws) /\ RolesInv(Ws, orders) /\ VenueSound(venue)
        /\ Sound(orders, inventory, reg, ghost.audited, ghost.gapped)
        /\ WireKnown(action, Ws, venue) /\ RowsKnown(orders) /\ GhostSound(ghost)
    BY ShellWire, ShellKnows DEF Inv, Shell, KnownInv, MemoryKnown
  <1>2. PICK s \in venue.versions :
          \E t \in {finish(wire, Ws, inventory, orders, round.data, RowOf(s))} :
            IF t # None THEN Finished(t) ELSE UNCHANGED <<orders, reg, durable, ghost>>
    BY DEF RoundFinish
  <1>3. UNCHANGED <<inventory, remote>>
    BY DEF RoundFinish
  <1> DEFINE row == RowOf(s)
             t == finish(wire, Ws, inventory, orders, round.data, row)
             h == Cardinality(Ws.held)
  <1>4. ObservedRow(row) /\ row.filled = s.filled /\ row.remaining = s.remaining
    BY <1>1, RowOfVersion DEF VenueSound, RowOf
  <1>5. IF t # None THEN Finished(t) ELSE UNCHANGED <<orders, reg, durable, ghost>>
    BY <1>2
  <1>6. CASE t = None
    <2>1. WireKnown(action', Ws, venue')
      BY <1>1, <1>3 DEF remote
    <2> QED BY <1>3, <1>5, <1>6, <2>1, LocalKnown
  <1>7. CASE t # None
    <2> HIDE DEF row
    <2>1. PICK outcome \in ObservationOutcome, fw \in Nat :
            /\ \E now : RoundTxn(Ws, orders, row, outcome, fw, now, t)
            /\ fw >= Ws.filled_hw /\ (outcome = "Fresh" => Ws.generation = 0)
      BY <1>1, <1>4, <1>7, FinishTxn
    <2>2. PICK now : RoundTxn(Ws, orders, row, outcome, fw, now, t)
      BY <2>1
    <2> DEFINE new == t.wire_after
    <2>3. /\ new.latest_user_order = Ws.latest_user_order
          /\ new.remaining_observation # None =>
               /\ Ws.generation = 0 /\ row.filled = SumHeld(Ws, inventory)
               /\ new.remaining_observation.covered = Ws.held
               /\ new.remaining_observation.remaining = row.remaining
      BY <1>1, <1>7, FreshAgrees
    <2>4. Finished(t)
      BY <1>5, <1>7
    <2> HIDE DEF t
    <2> DEFINE rows2 == apply_rows(t, orders)
    <2>5. RowsFollow(Ws, orders, rows2, t)
      BY <1>1, <1>4, <2>1, <2>2, RoundKeeps DEF Ws
    <2>6. orders' = rows2 /\ reg' = [reg EXCEPT !.wires[wire] = new]
      BY <1>1, <2>4, FinishedWrites
    <2> HIDE DEF rows2
    <2>7. PICK pending \in BOOLEAN :
            new = WireAfter(Ws, outcome, fw, row, t.members_after, pending)
      BY <2>2 DEF RoundTxn
    <2>8. Rounded(Ws, new, outcome, fw, EndedIn(t.members_after))
      BY <1>1, <1>4, <2>7, WireRounded
    <2> HIDE DEF new
    <2>9. MemberCids(new) = MemberCids(Ws)
      BY <1>1, <2>1, <2>8, RoundMoves
    <2>10. /\ new \in WireState /\ new.generation = Ws.generation
           /\ new.amend_lineage = Ws.amend_lineage
           /\ new.proved_current_cid = Ws.proved_current_cid
      BY <2>8 DEF Rounded
    <2>11. SumHeld(Ws, inventory) = h
      BY <1>1, WireCounted
    <2>12. new.remaining_observation # None =>
             /\ Ws.generation = 0
             /\ new.remaining_observation.covered = Ws.held
             /\ \E v \in venue.versions : /\ new.remaining_observation.remaining = v.remaining
                                          /\ v.filled = Cardinality(Ws.held)
      BY <1>4, <2>3, <2>11
    <2>13. WireKnown(action, new, venue)
      BY <1>1, <2>3, <2>9, <2>10, <2>12, KnownRounded
    <2>14. RowsKnown(orders')
      <3> SUFFICES ASSUME NEW c \in Cids
                   PROVE  RowKnown(rows2[c])
        BY <2>6 DEF RowsKnown
      <3>1. RowKnown(orders[c])
        BY <1>1 DEF RowsKnown
      <3>2. /\ rows2[c].ctx.venue_order_id = orders[c].ctx.venue_order_id
            /\ c \notin non_terminal_cids(Ws) => rows2[c] = orders[c]
        BY <2>5 DEF RowsFollow
      <3>3. CASE c \in non_terminal_cids(Ws)
        <4>1. orders[c].ctx.venue_order_id = wire /\ wire # None
          BY <1>1, <3>3, NoneAssumption, ObservationAssumption DEF RolesInv
        <4> QED BY <3>2, <4>1 DEF RowKnown
      <3> QED BY <3>1, <3>2, <3>3
    <2> QED BY <1>1, <1>3, <2>6, <2>9, <2>10, <2>13, <2>14, ReplacedKnown DEF remote
  <1> QED BY <1>6, <1>7

-----------------------------------------------------------------------------
(* An order event prepared                                                 *)

\* A response without fills leaves the context bound, whatever it decides.
LEMMA ZeroFillCtx ==
  ASSUME NEW g, NEW w, WorkInv(g, w), NEW r, Bound(w, r.venue)
  PROVE  ZeroFillResponse(w, r).work.ctx.venue_order_id = r.venue
  <1> DEFINE x == note_authority_complete(w, TRUE)
             v == r.venue
             c == w.ctx
  <1>1. WorkInv(g, x) /\ x.ctx.venue_order_id = v /\ w.ctx.venue_order_id = v
    BY AuthorityWork, BoundGrows DEF Follows, Bound
  <1>2. WorkTyped(x) /\ WorkTyped(w)
    BY <1>1 DEF WorkInv
  <1> HIDE DEF x
  <1>3. \A p, k : try_finalize_terminal(x, p, v, k).work.ctx = x.ctx
    BY <1>2, TryFinalizeCtx
  <1>4. /\ \A s : accept(s, w).work.ctx = w.ctx
        /\ \A reason : halt_with_reason(reason, w).work.ctx = w.ctx
    BY <1>2, OutcomeCtx
  <1>5. route_live_or_filled(w, v).work.ctx.venue_order_id = v
    <2>1. route_live_or_filled(w, v)
            \in {halt_with_reason("OverFill", w),
                 try_finalize_terminal(x, Proposed("Filled", c.attributed_fill_qty, 0), v,
                                       "Filled"),
                 accept(Accepted(v), w),
                 accept(Partial(v, c.attributed_fill_qty, remaining_qty_checked(c)), w)}
      BY DEF route_live_or_filled, x
    <2> QED BY <1>1, <1>3, <1>4, <2>1
  <1>6. ZeroFillResponse(w, r)
          \in {try_finalize_terminal(x, ProposedCanceled, v, "Canceled"),
               accept(Accepted(v), w), route_live_or_filled(w, v),
               halt_with_reason("ResponseZeroButLocalFills", w),
               halt_with_reason("CrossCheckMismatch", w)}
    BY DEF ZeroFillResponse, x
  <1> HIDE DEF v
  <1>7. ZeroFillResponse(w, r).work.ctx.venue_order_id = v
    BY <1>1, <1>3, <1>4, <1>5, <1>6
  <1> QED BY <1>7 DEF v

\* The first row of an order, which no answer has reached yet.
Started == Row(Plain("SubmitStarted"), new_ctx, 2)

LEMMA StartedSound ==
  /\ RowSound(Started) /\ Started.state.kind = "SubmitStarted"
  /\ Started.state = Plain("SubmitStarted") /\ Started.ctx = new_ctx
  /\ ~ is_restart_frozen(Started.state)
  /\ new_ctx.venue_order_id = None /\ AppliedIds(new_ctx) = {}
  <1>1. /\ Started.state = Plain("SubmitStarted") /\ Started.ctx = new_ctx /\ Started.seq = 2
        /\ Started = Row(Started.state, Started.ctx, Started.seq)
    BY DEF Started, Row
  <1>2. StateInv(Plain("SubmitStarted"), new_ctx) /\ Plain("SubmitStarted").kind = "SubmitStarted"
    BY PlainStates
  <1>3. CtxInv(new_ctx)
    BY NewCtx
  <1>4. new_ctx.venue_order_id = None /\ AppliedIds(new_ctx) = {}
    BY DEF new_ctx, AppliedIds
  <1>5. ~ is_restart_frozen(Started.state)
    BY <1>1, <1>2 DEF is_restart_frozen, Terminals
  <1> QED BY <1>1, <1>2, <1>3, <1>4, <1>5 DEF RowSound

\* The answer of the venue binds it, here without a fill.
LEMMA AnswerBinds ==
  ASSUME NEW n \in Nat
  PROVE  apply_submit_response(NoWork(new_ctx), Response0(n)).work.ctx.venue_order_id = wire
  <1> DEFINE g == From(Started, {})
             w == NoWork(new_ctx)
             r == Response0(n)
             logged == AppendFsync(w, SubmitResponseRecord(r.venue, SnapshotOf(r)))
             named == bind_venue_id(logged, r.venue)
             bound == [named EXCEPT !.ctx = note_venue_remaining(named.ctx, r.remaining_count)]
             o == apply_submit_response(w, r)
  <1>1. r.venue = wire /\ r.fill_count = 0 /\ r.remaining_count = n /\ wire \in Venues
    BY ObservationAssumption DEF Response0
  <1>2. WorkInv(g, w) /\ w.ctx = new_ctx
    BY StartedSound, StartWork
  <1>3. BindError(w.ctx, r.venue) = None
    BY <1>2, StartedSound DEF BindError
  <1>4. o = ZeroFillResponse(bound, r)
    BY <1>1, <1>3 DEF apply_submit_response
  <1> HIDE DEF o, w, r, g
  <1>5. WorkInv(g, logged) /\ logged.ctx = w.ctx
    <2>1. SubmitResponseRecord(r.venue, SnapshotOf(r)).rec \notin Reserved
      BY Unreserved
    <2> QED BY <1>2, <2>1, LogWork
  <1> HIDE DEF logged
  <1>6. WorkInv(g, named) /\ named.ctx.venue_order_id = r.venue
    BY <1>1, <1>3, <1>5, BindWork DEF Follows
  <1> HIDE DEF named
  <1>7. WorkInv(g, bound) /\ Bound(bound, r.venue)
    <2> DEFINE d == note_venue_remaining(named.ctx, r.remaining_count)
    <2>1. r.remaining_count \in Opt(Nat)
      BY <1>1 DEF Opt
    <2>2. CtxInv(d) /\ Quiet(named.ctx, d) /\ d.venue_order_id = named.ctx.venue_order_id
      BY <1>6, <2>1, NoteRemainingInv DEF WorkInv
    <2> HIDE DEF d
    <2>3. WorkInv(g, [named EXCEPT !.ctx = d]) /\ [named EXCEPT !.ctx = d].ctx = d
      BY <1>6, <2>2, QuietContext
    <2> QED BY <1>1, <1>6, <2>2, <2>3 DEF Bound, d
  <1> HIDE DEF bound
  <1>8. o.work.ctx.venue_order_id = wire
    BY <1>1, <1>4, <1>7, ZeroFillCtx
  <1> QED BY <1>8 DEF o, w, r

\* What is prepared of an order event, in terms of what the core did.
LEMMA OrderTransaction ==
  ASSUME NEW input, ValidInput(input), input.kind = "order", NEW row, RowSound(row), NEW inv
  PROVE  LET core == apply_event(row, input.event, <<>>)
             t == prepare_order_event(input, row, inv)
         IN /\ After(t, row).ctx = core.work.ctx
            /\ t.record # None =>
                 /\ t.changed /\ OrderChanged(row, core)
                 /\ t.record.order.event = input.event.type
                 /\ t.record.order.core = core.work.log
                 /\ t.record.order.halted = (core.outcome = "Halt")
  <1> DEFINE core == apply_event(row, input.event, <<>>)
             t == prepare_order_event(input, row, inv)
             page == <<>>
             changed == input.kind # "norow" /\ OrderChanged(row, core)
             after == IF changed THEN RowAfter(row, core) ELSE None
             order == [cid |-> input.cid, changed |-> changed, row |-> after,
                       event |-> input.event.type,
                       core |-> IF changed THEN core.work.log ELSE <<>>,
                       halted |-> changed /\ core.outcome = "Halt"]
             x == Executions(page, page)
  <1>1. /\ input.event \in OrderEvent /\ input.event.type # "Fill"
    BY DEF ValidInput
  <1>2. t = Transaction(input, row, core, inv, page, page)
    BY DEF prepare_order_event
  <1>3. CoreSound(From(row, {}), row, core)
    <2>1. {} \in SUBSET FillRecord /\ <<>> \in Seq({})
      OBVIOUS
    <2> QED BY <1>1, <2>1, ApplyEventSound
  <1> HIDE DEF core
  <1>4. After(t, row).ctx = core.work.ctx
    BY <1>2, <1>3, ContextAfter
  <1>5. t.changed = changed /\ (t.record # None => changed /\ t.record = [order |-> order, executions |-> x])
    BY <1>2 DEF Transaction, Executions
  <1>6. changed => /\ order.event = input.event.type /\ order.core = core.work.log
                   /\ order.halted = (core.outcome = "Halt")
    OBVIOUS
  <1>7. changed => OrderChanged(row, core)
    OBVIOUS
  <1> HIDE DEF t, order, x, changed
  <1>8. t.record # None => t.record.order = order
    BY <1>5
  <1>9. t.record # None =>
          /\ t.changed /\ OrderChanged(row, core)
          /\ t.record.order.event = input.event.type
          /\ t.record.order.core = core.work.log
          /\ t.record.order.halted = (core.outcome = "Halt")
    BY <1>5, <1>6, <1>7, <1>8
  <1> QED BY <1>4, <1>9 DEF core, t

\* The order events of the shell.
ShellEvent(ev) ==
    \/ \E n \in Nat : ev = [type |-> "SubmitResponse", arg |-> Response0(n)]
    \/ ev.type \in {"OwnAction", "UserOrderTerminalClaim"}

\* An order that no answer has reached is bound by an answer and ignores the rest.
LEMMA StartedEvents ==
  ASSUME NEW ev, ShellEvent(ev)
  PROVE  LET core == apply_event(Started, ev, <<>>)
         IN OrderChanged(Started, core) => core.work.ctx.venue_order_id = wire
  <1> DEFINE s == Started.state
             w == NoWork(new_ctx)
             core == apply_event(Started, ev, <<>>)
  <1>1. s.kind = "SubmitStarted" /\ ~ is_restart_frozen(s) /\ Started.ctx = new_ctx
    BY StartedSound
  <1>2. ev.type \notin {"Fill", "CloseSubmission"}
    BY DEF ShellEvent
  <1>3. core = LiveEvent(s, w, ev, <<>>)
    BY <1>1, <1>2 DEF apply_event
  <1> HIDE DEF core, s, w
  <1>4. CASE \E n \in Nat : ev = [type |-> "SubmitResponse", arg |-> Response0(n)]
    <2>1. PICK n \in Nat : ev = [type |-> "SubmitResponse", arg |-> Response0(n)]
      BY <1>4
    <2>2. ev.type = "SubmitResponse" /\ ev.arg = Response0(n)
      BY <2>1
    <2>3. core = apply_submit_response(w, Response0(n))
      BY <1>1, <1>3, <2>2 DEF LiveEvent
    <2>4. apply_submit_response(w, Response0(n)).work.ctx.venue_order_id = wire
      BY AnswerBinds DEF w
    <2> QED BY <2>3, <2>4 DEF core
  <1>5. CASE ev.type \in {"OwnAction", "UserOrderTerminalClaim"}
    <2>1. core = reject(s, w)
      BY <1>1, <1>3, <1>5 DEF LiveEvent, LiveKinds, PendingKinds
    <2>2. core.outcome = "Reject"
      BY <2>1 DEF reject
    <2> QED BY <2>2 DEF OrderChanged, core
  <1> QED BY <1>4, <1>5 DEF ShellEvent

\* An order's own action is recorded, alone.
LEMMA OwnActs ==
  ASSUME NEW row, RowSound(row), NEW ev, ev.type = "OwnAction"
  PROVE  LET core == apply_event(row, ev, <<>>)
         IN OrderChanged(row, core) =>
              /\ core.outcome = "Accept" /\ core.work.log = <<OwnActionRecord>>
              /\ core.work.ctx = row.ctx
  <1> DEFINE s == row.state
             w == NoWork(row.ctx)
             x == AppendFsync(w, OwnActionRecord)
             core == apply_event(row, ev, <<>>)
  <1>1. WorkTyped(w) /\ w.ctx = row.ctx /\ w.log = <<>>
    BY NoWorkTyped
  <1>2. core \in {reject(s, w), LiveEvent(s, w, ev, <<>>)}
    BY DEF apply_event
  <1>3. LiveEvent(s, w, ev, <<>>) \in {reject(s, w), accept(s, x)}
    BY DEF LiveEvent
  <1> HIDE DEF core, w
  <1>4. x.ctx = row.ctx /\ x.log = <<OwnActionRecord>>
    <2>1. x.ctx = w.ctx
      BY <1>1, AppendWork
    <2>2. x.log = Append(w.log, OwnActionRecord)
      BY <1>1 DEF AppendFsync, WorkTyped
    <2>3. Append(<<>>, OwnActionRecord) = <<OwnActionRecord>>
      OBVIOUS
    <2> QED BY <1>1, <2>1, <2>2, <2>3
  <1> HIDE DEF x
  <1>5. CASE core = reject(s, w)
    <2>1. core.outcome = "Reject"
      BY <1>5 DEF reject
    <2> QED BY <2>1 DEF OrderChanged, core
  <1>6. CASE core = accept(s, x)
    <2>1. core.outcome = "Accept" /\ core.work = x
      BY <1>6 DEF accept
    <2> QED BY <1>4, <2>1 DEF core
  <1> QED BY <1>2, <1>3, <1>5, <1>6

\* What a recorded order event does to its row and tells the registry.
OrderOutcome(t, input, row) ==
    LET o == t.record.order IN
    /\ t.changed /\ After(t, row).ctx.venue_order_id = wire
    /\ input.event.type = "OwnAction" =>
         /\ row.ctx.venue_order_id = wire
         /\ o.halted = FALSE /\ DOMAIN o.core # {}
         /\ \A i \in DOMAIN o.core : o.core[i].rec = "OwnActionCid"

LEMMA OrderRecorded ==
  ASSUME NEW input, ValidInput(input), input.kind = "order", ShellEvent(input.event),
         NEW row, RowSound(row), RowKnown(row), NEW inv \in MarketInventory,
         prepare_order_event(input, row, inv).record # None
  PROVE  OrderOutcome(prepare_order_event(input, row, inv), input, row)
  <1> DEFINE core == apply_event(row, input.event, <<>>)
             t == prepare_order_event(input, row, inv)
             o == t.record.order
  <1>1. /\ After(t, row).ctx = core.work.ctx
        /\ t.changed /\ OrderChanged(row, core) /\ o.event = input.event.type
        /\ o.core = core.work.log /\ o.halted = (core.outcome = "Halt")
    BY OrderTransaction
  <1>2. core.work.ctx.venue_order_id = wire
    <2>1. CASE row.ctx.venue_order_id = None
      <3>1. row = Started
        BY <2>1 DEF RowKnown, Started
      <3> HIDE DEF t, o
      <3> QED BY <1>1, <3>1, StartedEvents
    <2>2. CASE row.ctx.venue_order_id # None
      <3>1. row.ctx.venue_order_id = wire
        BY <2>2 DEF RowKnown
      <3>2. CoreSound(From(row, {}), row, core)
        <4>1. {} \in SUBSET FillRecord /\ <<>> \in Seq({})
          OBVIOUS
        <4>2. input.event \in OrderEvent /\ input.event.type # "Fill"
          BY DEF ValidInput
        <4> QED BY <4>1, <4>2, ApplyEventSound
      <3> HIDE DEF core
      <3> QED BY <2>2, <3>1, <3>2 DEF CoreSound, CoreTells
    <2> QED BY <2>1, <2>2
  <1>3. ASSUME input.event.type = "OwnAction"
        PROVE  /\ row.ctx.venue_order_id = wire
               /\ o.halted = FALSE /\ DOMAIN o.core # {}
               /\ \A i \in DOMAIN o.core : o.core[i].rec = "OwnActionCid"
    <2>1. /\ core.outcome = "Accept" /\ core.work.log = <<OwnActionRecord>>
          /\ core.work.ctx = row.ctx
      BY <1>1, <1>3, OwnActs
    <2> HIDE DEF core, t
    <2>2. DOMAIN o.core = {1} /\ o.core[1] = OwnActionRecord
      BY <1>1, <2>1
    <2>3. OwnActionRecord.rec = "OwnActionCid"
      BY DEF OwnActionRecord
    <2> QED BY <1>1, <1>2, <2>1, <2>2, <2>3
  <1> HIDE DEF core, t, o
  <1>4. OrderOutcome(t, input, row)
    BY <1>1, <1>2, <1>3 DEF OrderOutcome, o
  <1> QED BY <1>4 DEF t

-----------------------------------------------------------------------------
(* What a recorded transaction leaves of the knowledge                     *)

\* A record names the event of its input.
LEMMA EventRecorded ==
  ASSUME NEW input, ValidInput(input), NEW rows, NEW inv,
         Prepared(input, rows, inv).record # None
  PROVE  Prepared(input, rows, inv).record.order.event = input.event.type
  <1>1. ASSUME NEW row, NEW core, NEW page, NEW out,
               Transaction(input, row, core, inv, page, out).record # None
        PROVE  Transaction(input, row, core, inv, page, out).record.order.event
                 = input.event.type
    <2> DEFINE t == Transaction(input, row, core, inv, page, out)
               changed == input.kind # "norow" /\ OrderChanged(row, core)
               after == IF changed THEN RowAfter(row, core) ELSE None
               order == [cid |-> input.cid, changed |-> changed, row |-> after,
                         event |-> input.event.type,
                         core |-> IF changed THEN core.work.log ELSE <<>>,
                         halted |-> changed /\ core.outcome = "Halt"]
               x == Executions(page, out)
    <2>1. t.record \in {None, [order |-> order, executions |-> x]}
      BY DEF Transaction, Executions
    <2>2. order.event = input.event.type
      OBVIOUS
    <2> HIDE DEF order, x
    <2>3. t.record # None => t.record.order = order
      BY <2>1
    <2> QED BY <1>1, <2>2, <2>3
  <1> DEFINE u == Prepared(input, rows, inv)
             acc == AdjudicateBatch(input.cid, rows[input.cid], inv, input.page)
             pre == Judged(input.cid, inv, acc, input.page)
             fills == rebuild_event_with_fills(input.page, pre, acc)
             call == CoreCall(input.cid, rows[input.cid], input.event, pre, fills)
             sent == apply_event(rows[input.cid], input.event, <<>>)
  <1>2. CASE input.kind = "order"
    <2>1. u = Transaction(input, rows[input.cid], sent, inv, <<>>, <<>>)
      BY <1>2 DEF Prepared, prepare_order_event
    <2> HIDE DEF u, sent
    <2> QED BY <1>1, <2>1 DEF u
  <1>3. CASE input.kind = "batch"
    <2>1. u = CompleteBatch(input, rows[input.cid], inv, acc, pre, call)
      BY <1>3 DEF Prepared, prepare_execution_batch, Judged
    <2> HIDE DEF u, acc, pre, call
    <2>2. \E out : u = Transaction(input, rows[input.cid], call, inv, input.page, out)
      BY <2>1 DEF CompleteBatch
    <2> QED BY <1>1, <2>2 DEF u
  <1>4. CASE input.kind = "norow"
    <2>1. \E v : u = Transaction(input, None, None, inv, input.page, <<v>>)
      BY <1>4 DEF Prepared, prepare_execution_norow
    <2> HIDE DEF u
    <2> QED BY <1>1, <2>1 DEF u
  <1> QED BY <1>2, <1>3, <1>4 DEF ValidInput

\* The row an input names, once its transaction is applied.
BindsRow(t, input, rows) ==
    input.kind # "norow" => After(t, rows[input.cid]).ctx.venue_order_id = wire

LEMMA TransactionRows ==
  ASSUME NEW t, NEW input, ValidInput(input), t.input = input,
         t.changed => input.kind # "norow",
         NEW rows, DOMAIN rows = Cids, RowsKnown(rows), BindsRow(t, input, rows)
  PROVE  LET rows2 == RowsAfter(t, rows)
         IN /\ RowsKnown(rows2)
            /\ \A c \in Cids : rows2[c] # rows[c] => input.kind # "norow" /\ c = input.cid
            /\ input.kind # "norow" => rows2[input.cid].ctx.venue_order_id = wire
  <1> DEFINE rows2 == RowsAfter(t, rows)
             k == input.cid
  <1>1. input.kind # "norow" => k \in Cids
    BY DEF ValidInput
  <1>2. /\ t.changed => rows2 = [rows EXCEPT ![k] = t.after]
        /\ ~ t.changed => rows2 = rows
    BY DEF RowsAfter
  <1>3. \A c \in Cids : rows2[c] # rows[c] => input.kind # "norow" /\ c = k
    BY <1>1, <1>2
  <1>4. input.kind # "norow" => rows2[k] = After(t, rows[k])
    BY <1>1, <1>2 DEF After
  <1>5. input.kind # "norow" => rows2[k].ctx.venue_order_id = wire
    BY <1>4 DEF BindsRow
  <1> HIDE DEF rows2, k
  <1>6. wire # None
    BY NoneAssumption, ObservationAssumption
  <1>7. ASSUME NEW c \in Cids
        PROVE  RowKnown(rows2[c])
    <2>1. CASE rows2[c] = rows[c]
      BY <2>1 DEF RowsKnown
    <2>2. CASE rows2[c] # rows[c]
      <3>1. rows2[c].ctx.venue_order_id = wire
        BY <1>3, <1>5, <2>2
      <3> QED BY <1>6, <3>1 DEF RowKnown
    <2> QED BY <2>1, <2>2
  <1>8. RowsKnown(rows2)
    BY <1>7 DEF RowsKnown
  <1> QED BY <1>3, <1>5, <1>8 DEF rows2, k

\* The members of the wire afterwards: the order of the input may have joined.
JoinedBy(input, ws, new) ==
    /\ MemberCids(ws) \subseteq MemberCids(new)
    /\ \A c \in MemberCids(new) :
         c \in MemberCids(ws) \/ (input.kind # "norow" /\ c = input.cid)
    /\ input.kind # "norow" => input.cid \in MemberCids(new)

LEMMA TransactionMembers ==
  ASSUME NEW input, ValidInput(input), NEW rows, RowsKnown(rows), NEW rows2,
         \A c \in Cids : rows2[c] # rows[c] => input.kind # "norow" /\ c = input.cid,
         input.kind # "norow" => rows2[input.cid].ctx.venue_order_id = wire,
         NEW ws, WireInv(ws), RolesInv(ws, rows), NEW new, WireInv(new), RolesInv(new, rows2)
  PROVE  JoinedBy(input, ws, new)
  <1>1. /\ MemberCids(ws) \subseteq Cids /\ MemberCids(new) \subseteq Cids
        /\ input.kind # "norow" => input.cid \in Cids
    BY MembersOrders DEF ValidInput
  <1>2. /\ \A c \in Cids : c \in MemberCids(ws) <=> rows[c].ctx.venue_order_id = wire
        /\ \A c \in Cids : c \in MemberCids(new) <=> rows2[c].ctx.venue_order_id = wire
    BY DEF RolesInv
  <1>3. ASSUME NEW c \in MemberCids(ws)
        PROVE  c \in MemberCids(new)
    BY <1>1, <1>2
  <1>4. ASSUME NEW c \in MemberCids(new), c \notin MemberCids(ws)
        PROVE  input.kind # "norow" /\ c = input.cid
    <2>1. rows2[c] # rows[c]
      BY <1>1, <1>2, <1>4
    <2> QED BY <1>1, <2>1
  <1>5. input.kind # "norow" => input.cid \in MemberCids(new)
    BY <1>1, <1>2
  <1> QED BY <1>3, <1>4, <1>5 DEF JoinedBy

\* The entries afterwards: of size 1, and owned by members.
LEMMA TransactionEntries ==
  ASSUME NEW t, NEW input, ValidInput(input), NEW row, NEW inv \in MarketInventory,
         TransactionSound(t, input, row, inv), \A i \in DOMAIN input.page : input.page[i].qty = 1,
         NEW inv2,
         \A f \in FillIds : inv2.entries[f] = OrElse(t.entries[f], inv.entries[f]),
         NEW ws, EntriesKnown(inv, ws), NEW new, JoinedBy(input, ws, new)
  PROVE  EntriesKnown(inv2, new)
  <1>1. /\ IsFiniteSet(KnownIds(inv)) /\ IsFiniteSet(Planned(t.entries))
        /\ \A f \in FillIds : inv.entries[f] # None =>
             /\ inv.entries[f].qty = 1
             /\ inv.entries[f].owner = None \/ inv.entries[f].owner \in MemberCids(ws)
    BY DEF EntriesKnown, UnitEntries, TransactionSound
  <1>2. /\ \A f \in FillIds : PlanSound(Beneficiary(input), inv.entries[f], t.entries[f])
        /\ \A f \in FillIds : t.entries[f] # None /\ inv.entries[f] = None
             => \E i \in DOMAIN input.page : t.entries[f].qty = input.page[i].qty
    BY DEF TransactionSound
  <1>3. Beneficiary(input) = None \/ Beneficiary(input) \in MemberCids(new)
    BY DEF Beneficiary, JoinedBy
  <1>4. MemberCids(ws) \subseteq MemberCids(new)
    BY DEF JoinedBy
  <1>5. IsFiniteSet(KnownIds(inv2))
    <2>1. KnownIds(inv2) \subseteq KnownIds(inv) \cup Planned(t.entries)
      BY DEF KnownIds, Planned, OrElse
    <2>2. IsFiniteSet(KnownIds(inv) \cup Planned(t.entries))
      BY <1>1, FS_Union
    <2> QED BY <2>1, <2>2, FS_Subset
  <1>6. ASSUME NEW f \in FillIds, inv2.entries[f] # None
        PROVE  /\ inv2.entries[f].qty = 1
               /\ inv2.entries[f].owner = None \/ inv2.entries[f].owner \in MemberCids(new)
    <2> DEFINE p == inv.entries[f]
               n == t.entries[f]
               m == inv2.entries[f]
    <2>1. /\ m = OrElse(n, p) /\ PlanSound(Beneficiary(input), p, n) /\ m # None
          /\ n # None /\ p = None => \E i \in DOMAIN input.page : n.qty = input.page[i].qty
          /\ p # None => p.qty = 1 /\ (p.owner = None \/ p.owner \in MemberCids(ws))
      BY <1>1, <1>2, <1>6
    <2> HIDE DEF m, n, p
    <2>2. CASE n = None
      BY <1>4, <2>1, <2>2 DEF OrElse, m
    <2>3. CASE n # None /\ p = None
      <3>1. m = n /\ n.qty = 1 /\ n.owner \in {None, Beneficiary(input)}
        BY <2>1, <2>3 DEF OrElse, PlanSound
      <3> QED BY <1>3, <3>1 DEF m
    <2>4. CASE n # None /\ p # None
      <3>1. m = n /\ n.qty = p.qty /\ n.owner \in {p.owner, Beneficiary(input)}
        BY <2>1, <2>4 DEF OrElse, PlanSound, Raised
      <3> QED BY <1>3, <1>4, <2>1, <2>4, <3>1 DEF m
    <2> QED BY <2>2, <2>3, <2>4
  <1> QED BY <1>5, <1>6 DEF EntriesKnown, UnitEntries
\* The order part of a transaction: what is proved of the wire stays, unless the
\* order's own action is recorded.
LEMMA OrderPartKnown ==
  ASSUME NEW t, NEW input, ValidInput(input), NEW rows, NEW inv, MemorySound(rows, inv),
         TransactionSound(t, input, RowFor(input, rows), inv), t.record # None,
         NEW wires, WiresOk(wires), WireInv(Wire(wires, wire)),
         RolesInv(Wire(wires, wire), rows), OthersKnown(wires), BindsRow(t, input, rows)
  PROVE  LET o == t.record.order
             after == OrderedWires(wires, o)
         IN /\ OthersKnown(after)
            /\ o.event # "OwnAction" => SameProofs(Wire(wires, wire), Wire(after, wire))
            /\ (/\ t.changed /\ o.event = "OwnAction" /\ o.halted = FALSE
                /\ DOMAIN o.core # {} /\ \A i \in DOMAIN o.core : o.core[i].rec = "OwnActionCid"
                /\ rows[input.cid].ctx.venue_order_id = wire)
                 => Wire(after, wire) = Bumped(Wire(wires, wire))
  <1> DEFINE o == t.record.order
             after == OrderedWires(wires, o)
             c == input.cid
  <1>1. /\ t.changed \in BOOLEAN /\ t.input = input /\ t.row = RowFor(input, rows)
        /\ t.changed => input.kind # "norow" /\ c \in Cids
    BY DEF TransactionSound, ValidInput
  <1>2. /\ t.changed => OrderTells(t.row, o)
        /\ o.cid = c /\ o.changed = t.changed /\ o.row = t.after
    BY <1>1 DEF TransactionSound, RecordSound
  <1>3. CASE t.changed
    <2>1. /\ o.cid \in Cids /\ o.cid = c /\ OrderTells(rows[o.cid], o) /\ o.changed
      BY <1>1, <1>2, <1>3 DEF RowFor
    <2>2. o.row.ctx.venue_order_id = wire
      BY <1>1, <1>2, <1>3 DEF BindsRow, After
    <2>3. after = FoldOrder(wires, o)
      BY <2>1 DEF OrderedWires
    <2>4. o.cid \in MemberCids(Wire(wires, wire)) <=> rows[o.cid].ctx.venue_order_id = wire
      BY <2>1 DEF RolesInv
    <2> HIDE DEF o
    <2>5. OthersKnown(FoldOrder(wires, o))
      BY <2>1, <2>2, OthersOrder
    <2>6. o.event # "OwnAction" => SameProofs(Wire(wires, wire), Wire(FoldOrder(wires, o), wire))
      BY <2>1, <2>4, OrderProofs
    <2>7. (/\ o.event = "OwnAction" /\ o.halted = FALSE
           /\ DOMAIN o.core # {} /\ \A i \in DOMAIN o.core : o.core[i].rec = "OwnActionCid"
           /\ rows[o.cid].ctx.venue_order_id = wire)
            => Wire(FoldOrder(wires, o), wire) = Bumped(Wire(wires, wire))
      BY <2>4, OrderBumps
    <2> HIDE DEF after
    <2>8. /\ OthersKnown(after)
          /\ o.event # "OwnAction" => SameProofs(Wire(wires, wire), Wire(after, wire))
          /\ (/\ t.changed /\ o.event = "OwnAction" /\ o.halted = FALSE
              /\ DOMAIN o.core # {} /\ \A i \in DOMAIN o.core : o.core[i].rec = "OwnActionCid"
              /\ rows[c].ctx.venue_order_id = wire)
               => Wire(after, wire) = Bumped(Wire(wires, wire))
      BY <2>1, <2>3, <2>5, <2>6, <2>7
    <2> QED BY <2>8 DEF after, o
  <1>4. CASE ~ t.changed
    <2>1. after = wires
      BY <1>2, <1>4 DEF OrderedWires
    <2>2. SameProofs(Wire(wires, wire), Wire(wires, wire))
      BY DEF SameProofs
    <2> QED BY <1>4, <2>1, <2>2
  <1> QED BY <1>1, <1>3, <1>4

\* What a transaction needs, and what it leaves, when it records an own action.
OwnActionOf(t, input, rows) ==
    LET o == t.record.order IN
    /\ t.changed /\ o.halted = FALSE /\ DOMAIN o.core # {}
    /\ \A i \in DOMAIN o.core : o.core[i].rec = "OwnActionCid"
    /\ rows[input.cid].ctx.venue_order_id = wire

Superseded(ws, new) ==
    /\ new.generation = ws.generation + 1 /\ new.amend_lineage = ws.amend_lineage
    /\ new.latest_user_order = ws.latest_user_order
    /\ new.proved_current_cid = None /\ new.remaining_observation = None

\* The registry after a transaction.
LEMMA TransactionProofs ==
  ASSUME NEW t, NEW input, ValidInput(input), Len(input.page) <= 1, NEW rows, NEW inv,
         MemorySound(rows, inv),
         TransactionSound(t, input, RowFor(input, rows), inv), t.record # None,
         NEW wires, WiresOk(wires), WireInv(Wire(wires, wire)),
         RolesInv(Wire(wires, wire), rows), OthersKnown(wires), BindsRow(t, input, rows),
         Wire(wires, wire).generation < U64Max
  PROVE  LET o == t.record.order
             ws == Wire(wires, wire)
             after == fold_executions(OrderedWires(wires, o), t.record.executions)
             new == Wire(after, wire)
         IN /\ OthersKnown(after)
            /\ o.event # "OwnAction" => SameProofs(ws, new)
            /\ o.event = "OwnAction" /\ OwnActionOf(t, input, rows) => Superseded(ws, new)
  <1> DEFINE o == t.record.order
             xs == t.record.executions
             ws == Wire(wires, wire)
             mid == OrderedWires(wires, o)
             wm == Wire(mid, wire)
             after == fold_executions(mid, xs)
             new == Wire(after, wire)
  <1>1. /\ OthersKnown(mid)
        /\ o.event # "OwnAction" => SameProofs(ws, wm)
        /\ o.event = "OwnAction" /\ OwnActionOf(t, input, rows) => wm = Bumped(ws)
    BY OrderPartKnown DEF OwnActionOf
  <1>2. WiresOk(mid) /\ WireInv(wm)
    BY TransactionOrder DEF Moves
  <1>3. /\ Len(xs) = 0 \/ Len(xs) = 1
        /\ Len(xs) = 1 => xs[1].id \in FillIds
    <2>1. t.input = input
      BY DEF TransactionSound
    <2>2. /\ DOMAIN xs = DOMAIN input.page /\ Len(xs) = Len(input.page)
          /\ \A i \in DOMAIN xs : xs[i].id = input.page[i].id
      BY <2>1 DEF TransactionSound, RecordSound
    <2>3. input.page \in Seq(Evidence)
      BY DEF ValidInput
    <2> DEFINE page == input.page
    <2> HIDE DEF page, xs
    <2>4. Len(page) \in Nat /\ Len(page) <= 1 /\ DOMAIN page = 1..Len(page)
          /\ \A i \in DOMAIN page : page[i] \in Evidence
      BY <2>3 DEF page
    <2>5. Len(xs) = Len(page) /\ \A i \in DOMAIN page : xs[i].id = page[i].id
      BY <2>2 DEF page
    <2>6. Len(page) = 1 => xs[1].id \in FillIds
      <3>1. CASE Len(page) = 1
        <4>1. 1 \in DOMAIN page
          BY <2>4, <3>1
        <4>2. xs[1].id = page[1].id /\ page[1] \in Evidence
          BY <2>4, <2>5, <4>1
        <4> QED BY <4>2 DEF Evidence
      <3> QED BY <3>1
    <2> QED BY <2>4, <2>5, <2>6
  <1> HIDE DEF mid, xs
  <1>4. SameProofs(wm, new) /\ OthersKnown(after)
    BY <1>1, <1>2, <1>3, ExecutionsKnown
  <1> HIDE DEF after, wm, ws, new
  <1>5. o.event # "OwnAction" => SameProofs(ws, new)
    BY <1>1, <1>4, SameProofsTransitive
  <1>6. o.event = "OwnAction" /\ OwnActionOf(t, input, rows) => Superseded(ws, new)
    <2>1. WireInv(ws) /\ ws.generation < U64Max
      BY DEF ws
    <2>2. LET b == Bumped(ws)
          IN /\ b.generation = ws.generation + 1 /\ b.amend_lineage = ws.amend_lineage
             /\ b.latest_user_order = ws.latest_user_order
             /\ b.proved_current_cid = None /\ b.remaining_observation = None
      BY <2>1, BumpProofs
    <2> QED BY <1>1, <1>4, <2>2 DEF SameProofs, Superseded
  <1> QED BY <1>4, <1>5, <1>6 DEF after, new, ws, mid, xs
\* Memory and registry after a transaction.
LEMMA TransactionKnown ==
  ASSUME NEW t, NEW input, ValidInput(input), Len(input.page) <= 1, NEW rows, NEW inv,
         \A i \in DOMAIN input.page : input.page[i].qty = 1,
         MemorySound(rows, inv), TransactionSound(t, input, RowFor(input, rows), inv),
         t.record # None, inv.generation + Len(input.page) <= MaxGeneration,
         NEW audited, NEW gapped,
         NEW g, RegSound(g, rows), WireSound(Wire(g.wires, wire), rows, inv, audited, gapped),
         MemoryKnown(rows, inv, g.wires), BindsRow(t, input, rows),
         Wire(g.wires, wire).generation < U64Max
  PROVE  LET o == t.record.order
             ws == Wire(g.wires, wire)
             g2 == FoldTransaction(g, t.record)
             new == Wire(g2.wires, wire)
         IN /\ MemoryKnown(RowsAfter(t, rows), InventoryAfter(t, inv), g2.wires)
            /\ JoinedBy(input, ws, new)
            /\ o.event # "OwnAction" => SameProofs(ws, new)
            /\ o.event = "OwnAction" /\ OwnActionOf(t, input, rows) => Superseded(ws, new)
  <1> DEFINE o == t.record.order
             ws == Wire(g.wires, wire)
             g2 == FoldTransaction(g, t.record)
             wires2 == g2.wires
             new == Wire(wires2, wire)
             rows2 == RowsAfter(t, rows)
             inv2 == InventoryAfter(t, inv)
  <1>1. Sound(rows2, inv2, g2, audited, gapped)
    BY TransactionKeeps
  <1>2. \A f \in FillIds : inv2.entries[f] = OrElse(t.entries[f], inv.entries[f])
    BY TransactionMemory
  <1>3. wires2 = fold_executions(OrderedWires(g.wires, o), t.record.executions)
    <2> DEFINE s == SeenAfter(g.seen, o)
               w2 == fold_executions(OrderedWires(g.wires, o), t.record.executions)
    <2>1. g2 = [ok |-> g.ok, wires |-> w2, seen |-> s]
      BY TransactionRegistry, ZenonT(60)
    <2> HIDE DEF g2, w2, s
    <2> QED BY <2>1 DEF w2
  <1>4. /\ WireInv(ws) /\ RolesInv(ws, rows) /\ WiresOk(g.wires)
        /\ OthersKnown(g.wires) /\ RowsKnown(rows) /\ EntriesKnown(inv, ws)
        /\ DOMAIN rows = Cids /\ inv \in MarketInventory
    BY DEF WireSound, RegSound, MemoryKnown, MemorySound
  <1>5. /\ OthersKnown(wires2)
        /\ o.event # "OwnAction" => SameProofs(ws, new)
        /\ o.event = "OwnAction" /\ OwnActionOf(t, input, rows) => Superseded(ws, new)
    <2> DEFINE wires == g.wires
    <2>1. /\ WiresOk(wires) /\ WireInv(Wire(wires, wire)) /\ RolesInv(Wire(wires, wire), rows)
          /\ OthersKnown(wires) /\ Wire(wires, wire).generation < U64Max
      BY <1>4
    <2>2. ws = Wire(wires, wire)
      OBVIOUS
    <2>3. wires2 = fold_executions(OrderedWires(wires, o), t.record.executions)
      BY <1>3
    <2> HIDE DEF wires, g2, wires2, ws
    <2>4. LET w == Wire(wires, wire)
              after == fold_executions(OrderedWires(wires, t.record.order), t.record.executions)
              n == Wire(after, wire)
          IN /\ OthersKnown(after)
             /\ t.record.order.event # "OwnAction" => SameProofs(w, n)
             /\ t.record.order.event = "OwnAction" /\ OwnActionOf(t, input, rows)
                  => Superseded(w, n)
      BY <2>1, TransactionProofs
    <2> QED BY <2>2, <2>3, <2>4
  <1>6. /\ t.input = input /\ (t.changed => input.kind # "norow")
    BY DEF TransactionSound
  <1>7. /\ WireInv(new) /\ RolesInv(new, rows2)
    BY <1>1 DEF Sound, WireSound
  <1> HIDE DEF new, ws, wires2, g2
  <1>8. /\ RowsKnown(rows2)
        /\ \A c \in Cids : rows2[c] # rows[c] => input.kind # "norow" /\ c = input.cid
        /\ input.kind # "norow" => rows2[input.cid].ctx.venue_order_id = wire
    BY <1>4, <1>6, TransactionRows
  <1> HIDE DEF rows2, inv2
  <1>9. JoinedBy(input, ws, new)
    BY <1>4, <1>7, <1>8, TransactionMembers
  <1>10. EntriesKnown(inv2, new)
    BY <1>2, <1>4, <1>9, TransactionEntries
  <1>11. MemoryKnown(rows2, inv2, wires2)
    BY <1>5, <1>8, <1>10 DEF MemoryKnown, new
  <1> QED BY <1>5, <1>9, <1>11 DEF new, ws, wires2, g2, rows2, inv2

\* A transaction that is prepared, recorded and applied at once.
LEMMA PreparedKnown ==
  ASSUME NEW rows, NEW inv, NEW g, NEW audited, NEW gapped,
         Sound(rows, inv, g, audited, gapped), MemoryKnown(rows, inv, g.wires),
         NEW input, ValidInput(input), Len(input.page) <= 1,
         \A i \in DOMAIN input.page : input.page[i].qty = 1,
         inv.generation + Len(input.page) <= MaxGeneration,
         Prepared(input, rows, inv).record # None,
         BindsRow(Prepared(input, rows, inv), input, rows),
         Wire(g.wires, wire).generation < U64Max
  PROVE  LET t == Prepared(input, rows, inv)
             ws == Wire(g.wires, wire)
             g2 == FoldTransaction(g, t.record)
             new == Wire(g2.wires, wire)
         IN /\ MemoryKnown(RowsAfter(t, rows), InventoryAfter(t, inv), g2.wires)
            /\ JoinedBy(input, ws, new)
            /\ input.event.type # "OwnAction" => SameProofs(ws, new)
            /\ input.event.type = "OwnAction" /\ OwnActionOf(t, input, rows)
                 => Superseded(ws, new)
  <1> DEFINE row == RowFor(input, rows)
             t == Prepared(input, rows, inv)
  <1>1. MemorySound(rows, inv) /\ RegSound(g, rows)
        /\ WireSound(Wire(g.wires, wire), rows, inv, audited, gapped)
    BY DEF Sound
  <1>2. TransactionSound(t, input, RowFor(input, rows), inv)
    <2>1. inv \in MarketInventory /\ (input.kind # "norow" => RowSound(row))
          /\ (input.kind = "norow" => row = None)
      BY <1>1 DEF MemorySound, RowFor, ValidInput
    <2>2. t = PreparedFrom(input, row, inv)
      BY PreparedOfRow
    <2> HIDE DEF row
    <2>3. TransactionSound(PreparedFrom(input, row, inv), input, row, inv)
      BY <2>1, PreparedSound
    <2>4. TransactionSound(t, input, row, inv)
      BY <2>2, <2>3
    <2> QED BY <2>4 DEF row
  <1>3. /\ t.record # None /\ BindsRow(t, input, rows)
        /\ t.record.order.event = input.event.type
    BY EventRecorded
  <1> HIDE DEF t
  <1>4. LET g2 == FoldTransaction(g, t.record)
            ws == Wire(g.wires, wire)
            new == Wire(g2.wires, wire)
        IN /\ MemoryKnown(RowsAfter(t, rows), InventoryAfter(t, inv), g2.wires)
           /\ JoinedBy(input, ws, new)
           /\ t.record.order.event # "OwnAction" => SameProofs(ws, new)
           /\ t.record.order.event = "OwnAction" /\ OwnActionOf(t, input, rows)
                => Superseded(ws, new)
    BY <1>1, <1>2, <1>3, TransactionKnown
  <1>5. LET g2 == FoldTransaction(g, t.record)
            ws == Wire(g.wires, wire)
            new == Wire(g2.wires, wire)
        IN /\ MemoryKnown(RowsAfter(t, rows), InventoryAfter(t, inv), g2.wires)
           /\ JoinedBy(input, ws, new)
           /\ input.event.type # "OwnAction" => SameProofs(ws, new)
           /\ input.event.type = "OwnAction" /\ OwnActionOf(t, input, rows)
                => Superseded(ws, new)
    BY <1>3, <1>4
  <1> QED BY <1>5 DEF t

\* Fields of the inputs.
LEMMA OrderInputIs ==
  ASSUME NEW c, NEW type, NEW arg
  PROVE  LET i == OrderInput(c, type, arg)
         IN /\ i.kind = "order" /\ i.cid = c /\ i.page = <<>>
            /\ i.event = [type |-> type, arg |-> arg] /\ i.event.type = type
  <1> DEFINE ev == [type |-> type, arg |-> arg]
             i == OrderInput(c, type, arg)
  <1>1. ev.type = type
    OBVIOUS
  <1>2. i = [kind |-> "order", cid |-> c, event |-> ev, page |-> <<>>]
    BY DEF OrderInput
  <1> HIDE DEF ev
  <1>3. i.kind = "order" /\ i.cid = c /\ i.event = ev /\ i.page = <<>>
    BY <1>2
  <1> HIDE DEF i
  <1> QED BY <1>1, <1>3 DEF i, ev

LEMMA FillInputIs ==
  ASSUME NEW c, NEW f, NEW v
  PROVE  LET i == FillInput(c, E(f, v))
         IN /\ i.kind = (IF c = None THEN "norow" ELSE "batch") /\ i.cid = c
            /\ i.event.type = "Fill"
            /\ \A k \in DOMAIN i.page : i.page[k].qty = 1
  <1> DEFINE ev == [type |-> "Fill", arg |-> None]
             kd == IF c = None THEN "norow" ELSE "batch"
             e == E(f, v)
             p == <<e>>
             i == FillInput(c, e)
  <1>1. e.qty = 1 /\ ev.type = "Fill"
    BY DEF E
  <1>2. i = [kind |-> kd, cid |-> c, event |-> ev, page |-> p]
    BY DEF FillInput
  <1> HIDE DEF e
  <1>3. \A k \in DOMAIN p : p[k].qty = 1
    <2>1. ASSUME NEW k \in DOMAIN p
          PROVE  p[k] = e
      OBVIOUS
    <2> HIDE DEF p
    <2> QED BY <1>1, <2>1
  <1> HIDE DEF ev, kd, p
  <1>4. i.kind = kd /\ i.cid = c /\ i.event = ev /\ i.page = p
    BY <1>2
  <1> HIDE DEF i
  <1> QED BY <1>1, <1>3, <1>4 DEF i, kd, e

\* What an offer does to the own action in flight, and whom its input may join.
OfferKnown(o) ==
    LET i == o.input IN
    /\ \A k \in DOMAIN i.page : i.page[k].qty = 1
    /\ i.kind = "order" => ShellEvent(i.event)
    /\ i.kind = "batch" => i.cid \in MemberCids(Ws)
    /\ i.event.type = "OwnAction" => i.kind = "order"
    /\ MemberCids(Ws) = {} => i.kind = "norow" \/ i.cid = first
    /\ o.paged => o.action = action /\ i.event.type # "OwnAction"
    /\ \/ i.event.type # "OwnAction" /\ o.action = action
       \/ /\ i.event.type # "OwnAction" /\ i.kind = "order"
          /\ action # None /\ action.applied /\ ~ action.bound
          /\ i.cid = action.new /\ action.new # None
          /\ o.action = InFlight([action EXCEPT !.bound = TRUE])
       \/ /\ i.event.type = "OwnAction"
          /\ action # None /\ action.applied /\ ~ action.observed
          /\ o.action = InFlight([action EXCEPT !.observed = TRUE])

\* An order input that leaves the own action in flight.
LEMMA OrderOffered ==
  ASSUME NEW c, NEW type, NEW arg, type # "OwnAction",
         ShellEvent([type |-> type, arg |-> arg]), MemberCids(Ws) = {} => c = first
  PROVE  OfferKnown(Offer(OrderInput(c, type, arg), action, FALSE))
  <1> DEFINE i == OrderInput(c, type, arg)
             o == Offer(i, action, FALSE)
  <1>1. /\ i.kind = "order" /\ i.cid = c /\ i.page = <<>>
        /\ i.event = [type |-> type, arg |-> arg] /\ i.event.type = type
    BY OrderInputIs
  <1> HIDE DEF i
  <1>2. o.input = i /\ o.action = action /\ o.paged = FALSE
    BY DEF Offer
  <1> HIDE DEF o
  <1>3. \A k \in DOMAIN i.page : i.page[k].qty = 1
    BY <1>1
  <1>4. OfferKnown(o)
    BY <1>1, <1>2, <1>3 DEF OfferKnown
  <1> QED BY <1>4 DEF o, i

\* An execution is routed to a member.
LEMMA FillOffered ==
  ASSUME Shell, KnownInv, NEW f \in FillIds, NEW v, NEW paged \in BOOLEAN
  PROVE  OfferKnown(Offer(Delivered(f, v), action, paged))
  <1> DEFINE c == IF v = None THEN None ELSE route(reg.wires, wire, f, inventory)
             i == FillInput(c, E(f, v))
             o == Offer(i, action, paged)
  <1>1. c # None => c \in MemberCids(Ws)
    <2> DEFINE ms == Ws.members
               e == inventory.entries[f]
    <2>1. e # None => e.owner = None \/ e.owner \in MemberCids(Ws)
      BY DEF KnownInv, MemoryKnown, EntriesKnown, Ws
    <2>2. Len(ms) = 1 => ms[1].cid \in MemberCids(Ws)
      <3>1. MembersInv(ms)
        BY ShellWire DEF WireInv
      <3>2. Len(ms) = 1 => 1 \in DOMAIN ms
        BY <3>1, MembersSeq
      <3> QED BY <3>2 DEF MemberCids
    <2>3. route(reg.wires, wire, f, inventory)
            = IF e # None /\ e.owner # None THEN e.owner
              ELSE IF Len(ms) = 1 THEN ms[1].cid ELSE None
      BY DEF route, Ws
    <2> HIDE DEF e, ms
    <2> QED BY <2>1, <2>2, <2>3
  <1>2. Delivered(f, v) = i
    BY DEF Delivered
  <1> HIDE DEF c
  <1>3. /\ i.kind = (IF c = None THEN "norow" ELSE "batch") /\ i.cid = c
        /\ i.event.type = "Fill"
        /\ \A k \in DOMAIN i.page : i.page[k].qty = 1
    BY FillInputIs
  <1> HIDE DEF i
  <1>4. o.input = i /\ o.action = action /\ o.paged = paged
    BY DEF Offer
  <1> HIDE DEF o
  <1>5. OfferKnown(o)
    BY <1>1, <1>3, <1>4 DEF OfferKnown
  <1> QED BY <1>2, <1>5 DEF o

LEMMA OffersKnown ==
  ASSUME Inv, KnownInv, NEW o \in Offers
  PROVE  OfferKnown(o)
  <1>1. /\ Shell /\ venue.fills \subseteq FillIds
        /\ action # None => action \in OwnActions /\ (action.new = None => action.bound)
    BY DEF Inv, Shell, VenueSound, ActionSound
  <1>2. WireKnown(action, Ws, venue)
    BY DEF KnownInv
  <1>3. CASE o \in CreateAnswered
    <2>1. o = Offer(OrderInput(first, "SubmitResponse", Response0(Qty)), action, FALSE)
      BY <1>3 DEF CreateAnswered
    <2>2. ShellEvent([type |-> "SubmitResponse", arg |-> Response0(Qty)])
      BY QtyAssumption DEF ShellEvent
    <2> QED BY <2>1, <2>2, OrderOffered
  <1>4. CASE o \in FillDelivered
    <2>1. PICK v \in Deliveries, f \in venue.fills : o = Offer(Delivered(f, v), action, FALSE)
      <3>1. PICK v \in Deliveries : o \in {Offer(Delivered(f, v), action, FALSE) : f \in venue.fills}
        BY <1>4 DEF FillDelivered
      <3> QED BY <3>1
    <2> QED BY <1>1, <2>1, FillOffered
  <1>5. CASE o \in FillPaged
    <2>1. PICK f \in venue.fills : o = Offer(Delivered(f, wire), action, TRUE)
      BY <1>5 DEF FillPaged
    <2> QED BY <1>1, <2>1, FillOffered
  <1>6. CASE o \in AmendBound
    <2> DEFINE c == action.new
               arg == Response0(action.rests)
               i == OrderInput(c, "SubmitResponse", arg)
               b == InFlight([action EXCEPT !.bound = TRUE])
    <2>1. action # None /\ action.applied /\ ~ action.bound /\ o = Offer(i, b, FALSE)
      BY <1>6 DEF AmendBound
    <2>2. c # None /\ action.rests \in Nat /\ MemberCids(Ws) # {}
      BY <1>1, <1>2, <2>1 DEF OwnActions, WireKnown, ActionKnown
    <2>3. ShellEvent([type |-> "SubmitResponse", arg |-> arg])
      BY <2>2 DEF ShellEvent
    <2> HIDE DEF arg, b
    <2>4. /\ i.kind = "order" /\ i.cid = c /\ i.page = <<>>
          /\ i.event = [type |-> "SubmitResponse", arg |-> arg]
          /\ i.event.type = "SubmitResponse"
      BY OrderInputIs
    <2> HIDE DEF i, c
    <2>5. o.input = i /\ o.action = b /\ o.paged = FALSE
      BY <2>1 DEF Offer
    <2>6. \A k \in DOMAIN i.page : i.page[k].qty = 1
      BY <2>4
    <2> QED BY <2>1, <2>2, <2>3, <2>4, <2>5, <2>6 DEF OfferKnown, b, c
  <1>7. CASE o \in ActionObserved
    <2> DEFINE b == InFlight([action EXCEPT !.observed = TRUE])
    <2>1. action # None /\ action.applied /\ ~ action.observed
      BY <1>7 DEF ActionObserved
    <2>2. PICK c : o = Offer(OrderInput(c, "OwnAction", None), b, FALSE)
      BY <1>7 DEF ActionObserved
    <2>3. MemberCids(Ws) # {}
      BY <1>2, <2>1 DEF WireKnown, ActionKnown
    <2> DEFINE i == OrderInput(c, "OwnAction", None)
    <2>4. /\ i.kind = "order" /\ i.cid = c /\ i.page = <<>>
          /\ i.event = [type |-> "OwnAction", arg |-> None] /\ i.event.type = "OwnAction"
      BY OrderInputIs
    <2> HIDE DEF b
    <2>5. o.input = i /\ o.action = b /\ o.paged = FALSE
      BY <2>2 DEF Offer
    <2> HIDE DEF i
    <2>6. ShellEvent(i.event)
      BY <2>4 DEF ShellEvent
    <2>7. \A k \in DOMAIN i.page : i.page[k].qty = 1
      BY <2>4
    <2> QED BY <2>1, <2>3, <2>4, <2>5, <2>6, <2>7 DEF OfferKnown, b
  <1>8. CASE o \in TerminalClaimed
    <2> DEFINE e == Ws.latest_user_order
               n == e.filled
               x == e.status = "Executed"
               claim == [venue |-> wire, filled |-> n, executed |-> x]
               ev == [type |-> "UserOrderTerminalClaim", arg |-> claim]
    <2>1. e # None
          /\ o = Offer(OrderInput(e.cid, "UserOrderTerminalClaim", claim), action, FALSE)
      BY <1>8 DEF TerminalClaimed
    <2>2. MemberCids(Ws) = {} => e.cid = first
      <3>1. e \in venue.versions
        BY <1>2, <2>1 DEF WireKnown, VersionsKnown
      <3>2. VersionKnown(e, action, Ws, venue)
        BY <1>2, <3>1 DEF WireKnown, VersionsKnown
      <3>3. action # None => MemberCids(Ws) # {}
        BY <1>2 DEF WireKnown, ActionKnown
      <3> HIDE DEF e
      <3> QED BY <3>2, <3>3 DEF VersionKnown
    <2> HIDE DEF e, claim
    <2>3. ev.type = "UserOrderTerminalClaim"
      OBVIOUS
    <2> HIDE DEF ev
    <2>4. ShellEvent(ev)
      BY <2>3 DEF ShellEvent
    <2>5. OfferKnown(Offer(OrderInput(e.cid, "UserOrderTerminalClaim", claim), action, FALSE))
      BY <2>2, <2>4, OrderOffered DEF ev
    <2> QED BY <2>1, <2>5
  <1> QED BY <1>3, <1>4, <1>5, <1>6, <1>7, <1>8 DEF Offers

\* The generation stays in its range: the versions of the venue's order bound it.
LEMMA GenerationBound ==
  ASSUME NEW a, NEW ws, ws.generation \in Nat, NEW vn, VenueSound(vn), WireKnown(a, ws, vn)
  PROVE  ws.generation < U64Max
  <1> DEFINE n == Cardinality(vn.versions)
             k == IF Pending(a) THEN 1 ELSE 0
  <1>1. n \in Nat
    BY FS_CardinalityType DEF VenueSound
  <1>2. /\ ws.generation + k < n /\ k \in {0, 1}
        /\ n <= 1 \/ n <= MaxVersion
    BY DEF WireKnown, VersionsKnown
  <1>3. MaxVersion \in Nat /\ MaxVersion < U64Max /\ U64Max \in Nat
    BY ObservationAssumption, QtyAssumption
  <1> HIDE DEF n, k
  <1> QED BY <1>1, <1>2, <1>3

\* A row that is bound stays bound.
LEMMA BoundStays ==
  ASSUME NEW rows, NEW inv, MemorySound(rows, inv), NEW input, ValidInput(input),
         Prepared(input, rows, inv).record # None,
         input.kind # "norow" => rows[input.cid].ctx.venue_order_id = wire
  PROVE  BindsRow(Prepared(input, rows, inv), input, rows)
  <1> DEFINE row == RowFor(input, rows)
             t == Prepared(input, rows, inv)
  <1>1. TransactionSound(t, input, row, inv)
    <2>1. inv \in MarketInventory /\ (input.kind # "norow" => RowSound(row))
          /\ (input.kind = "norow" => row = None)
      BY DEF MemorySound, RowFor, ValidInput
    <2>2. t = PreparedFrom(input, row, inv)
      BY PreparedOfRow
    <2> HIDE DEF row, t
    <2>3. TransactionSound(PreparedFrom(input, row, inv), input, row, inv)
      BY <2>1, PreparedSound
    <2> QED BY <2>2, <2>3
  <1>2. t.record # None
    OBVIOUS
  <1> HIDE DEF t
  <1>3. /\ t.row = row /\ t.input = input
        /\ t.changed => OrderTells(row, t.record.order)
        /\ t.record.order.row = t.after
    BY <1>1, <1>2 DEF TransactionSound, RecordSound
  <1>4. ASSUME input.kind # "norow"
        PROVE  After(t, rows[input.cid]).ctx.venue_order_id = wire
    <2>1. row = rows[input.cid] /\ row.ctx.venue_order_id = wire /\ wire # None
      BY <1>4, NoneAssumption, ObservationAssumption DEF RowFor
    <2> QED BY <1>3, <2>1 DEF After, OrderTells
  <1>5. BindsRow(t, input, rows)
    BY <1>4 DEF BindsRow
  <1> QED BY <1>5 DEF t

\* The row of an input the shell offers is bound to the wire afterwards.
LEMMA OfferBinds ==
  ASSUME Inv, KnownInv, NEW o, ValidInput(o.input), OfferKnown(o),
         Prepared(o.input, orders, inventory).record # None
  PROVE  LET t == Prepared(o.input, orders, inventory)
         IN /\ BindsRow(t, o.input, orders)
            /\ o.input.event.type = "OwnAction" => OwnActionOf(t, o.input, orders)
  <1> DEFINE input == o.input
             t == Prepared(input, orders, inventory)
             row == orders[input.cid]
  <1>1. /\ MemorySound(orders, inventory) /\ RolesInv(Ws, orders) /\ RowsKnown(orders)
        /\ inventory \in MarketInventory
        /\ \A c \in Cids : RowSound(orders[c])
    BY DEF Inv, Sound, WireSound, MemorySound, KnownInv, MemoryKnown, Ws
  <1>2. CASE input.kind = "order"
    <2>1. input.cid \in Cids /\ ShellEvent(input.event)
      BY <1>2 DEF ValidInput, OfferKnown
    <2>2. RowSound(row) /\ RowKnown(row)
      BY <1>1, <2>1 DEF RowsKnown
    <2>3. t = prepare_order_event(input, row, inventory)
      BY <1>2, PreparedOfRow DEF PreparedFrom, RowFor
    <2>4. /\ ValidInput(input) /\ input.kind = "order" /\ t.record # None
      BY <1>2
    <2> HIDE DEF input, t, row
    <2>5. prepare_order_event(input, row, inventory).record # None
      BY <2>3, <2>4
    <2>6. OrderOutcome(prepare_order_event(input, row, inventory), input, row)
      <3>1. ValidInput(input) /\ input.kind = "order" /\ ShellEvent(input.event)
        BY <2>1, <2>4
      <3>2. inventory \in MarketInventory
        BY <1>1
      <3> QED BY <2>2, <2>5, <3>1, <3>2, OrderRecorded
    <2>7. /\ t.changed /\ After(t, row).ctx.venue_order_id = wire
          /\ input.event.type = "OwnAction" =>
               /\ row.ctx.venue_order_id = wire
               /\ t.record.order.halted = FALSE /\ DOMAIN t.record.order.core # {}
               /\ \A i \in DOMAIN t.record.order.core : t.record.order.core[i].rec = "OwnActionCid"
      <3>1. OrderOutcome(t, input, row)
        BY <2>3, <2>6
      <3> QED BY <3>1 DEF OrderOutcome
    <2>8. BindsRow(t, input, orders)
      BY <2>7 DEF BindsRow, row
    <2>9. input.event.type = "OwnAction" => OwnActionOf(t, input, orders)
      BY <2>7 DEF OwnActionOf, row
    <2> QED BY <2>8, <2>9 DEF t, input
  <1>3. CASE input.kind # "order"
    <2>1. input.kind \in {"norow", "batch"}
      BY <1>3 DEF ValidInput
    <2>2. input.kind # "norow" => row.ctx.venue_order_id = wire
      <3>1. input.kind # "norow" => input.cid \in MemberCids(Ws) /\ input.cid \in Cids
        BY <2>1 DEF OfferKnown, ValidInput
      <3> QED BY <1>1, <3>1 DEF RolesInv
    <2>3. BindsRow(t, input, orders)
      BY <1>1, <2>2, BoundStays
    <2>4. input.event.type # "OwnAction"
      BY <1>3 DEF OfferKnown
    <2> QED BY <2>3, <2>4
  <1> QED BY <1>2, <1>3

\* A transaction that is recorded.
LEMMA CommitKnown ==
  ASSUME Inv, KnownInv, NEW o, ValidInput(o.input), OfferKnown(o), Len(o.input.page) <= 1,
         inventory.generation + Len(o.input.page) <= MaxGeneration,
         Prepared(o.input, orders, inventory).record # None,
         Commit(Prepared(o.input, orders, inventory)), UNCHANGED venue, action' = o.action
  PROVE  KnownInv'
  <1> DEFINE input == o.input
             t == Prepared(input, orders, inventory)
             rows2 == RowsAfter(t, orders)
             inv2 == InventoryAfter(t, inventory)
             g2 == FoldTransaction(reg, t.record)
             new == Wire(g2.wires, wire)
             audited == ghost.audited
             gapped == ghost.gapped
  <1>1. /\ Sound(orders, inventory, reg, audited, gapped) /\ VenueSound(venue)
        /\ ActionSound(action) /\ Shell
    BY DEF Inv, Shell
  <1>2. MemoryKnown(orders, inventory, reg.wires) /\ WireKnown(action, Ws, venue)
    BY DEF KnownInv
  <1>3. /\ Ws.generation \in Nat /\ Ws.amend_lineage \in Opt(AmendLineage)
    BY <1>1, ShellKnows
  <1>4. Wire(reg.wires, wire).generation < U64Max
    BY <1>1, <1>2, <1>3, GenerationBound DEF Ws
  <1>5. /\ BindsRow(t, input, orders)
        /\ input.event.type = "OwnAction" => OwnActionOf(t, input, orders)
    BY OfferBinds
  <1>6. \A i \in DOMAIN input.page : input.page[i].qty = 1
    BY DEF OfferKnown
  <1> HIDE DEF audited, gapped
  <1>7. /\ MemoryKnown(rows2, inv2, g2.wires) /\ JoinedBy(input, Ws, new)
        /\ input.event.type # "OwnAction" => SameProofs(Ws, new)
        /\ input.event.type = "OwnAction" => Superseded(Ws, new)
    BY <1>1, <1>2, <1>4, <1>5, <1>6, PreparedKnown DEF Ws
  <1>8. orders' = rows2 /\ inventory' = inv2 /\ reg' = g2
    <2>1. Commit(t)
      OBVIOUS
    <2> HIDE DEF t
    <2> QED BY <2>1 DEF Commit
  <1> HIDE DEF t, rows2, inv2, g2
  <1>9. MemoryKnown(orders, inventory, reg.wires)'
    BY <1>7, <1>8
  <1>10. Ws' = new
    BY <1>8 DEF Ws
  <1> HIDE DEF new
  <1>11. WireKnown(o.action, new, venue)
    <2>1. ASSUME input.event.type # "OwnAction"
          PROVE  WireKnown(action, new, venue)
      <3>1. SameProofs(Ws, new) /\ MemberCids(Ws) \subseteq MemberCids(new)
        BY <1>7, <2>1 DEF JoinedBy
      <3>2. MemberCids(Ws) = {} => MemberCids(new) \subseteq {first}
        BY <1>7 DEF JoinedBy, OfferKnown
      <3> QED BY <1>2, <3>1, <3>2, KnownJoins
    <2>2. CASE input.event.type # "OwnAction" /\ o.action = action
      BY <2>1, <2>2
    <2>3. CASE /\ input.event.type # "OwnAction" /\ input.kind = "order"
               /\ action # None /\ action.applied /\ ~ action.bound
               /\ input.cid = action.new /\ action.new # None
               /\ o.action = InFlight([action EXCEPT !.bound = TRUE])
      <3>1. action.new \in MemberCids(new)
        BY <1>7, <2>3 DEF JoinedBy
      <3>2. action \in OwnActions
        BY <1>1, <2>3 DEF ActionSound
      <3>3. WireKnown(InFlight([action EXCEPT !.bound = TRUE]), new, venue)
        BY <2>1, <2>3, <3>1, <3>2, KnownBound
      <3> QED BY <2>3, <3>3
    <2>4. CASE /\ input.event.type = "OwnAction"
               /\ action # None /\ action.applied /\ ~ action.observed
               /\ o.action = InFlight([action EXCEPT !.observed = TRUE])
      <3>1. action \in OwnActions
        BY <1>1, <2>4 DEF ActionSound
      <3>2. Superseded(Ws, new)
        BY <1>7, <2>4
      <3>3. MemberCids(new) = MemberCids(Ws)
        <4>1. orders[input.cid].ctx.venue_order_id = wire
          BY <1>5, <2>4 DEF OwnActionOf
        <4>2. input.kind = "order" /\ input.cid \in Cids
          BY <2>4 DEF OfferKnown, ValidInput
        <4>3. RolesInv(Ws, orders)
          BY <1>1, ShellKnows
        <4>4. input.cid \in MemberCids(Ws)
          BY <4>1, <4>2, <4>3 DEF RolesInv
        <4> QED BY <1>7, <4>4 DEF JoinedBy
      <3>4. WireKnown(InFlight([action EXCEPT !.observed = TRUE]), new, venue)
        BY <1>2, <1>3, <2>4, <3>1, <3>2, <3>3, KnownObserved DEF Superseded
      <3> QED BY <2>4, <3>4
    <2>5. \/ input.event.type # "OwnAction" /\ o.action = action
          \/ /\ input.event.type # "OwnAction" /\ input.kind = "order"
             /\ action # None /\ action.applied /\ ~ action.bound
             /\ input.cid = action.new /\ action.new # None
             /\ o.action = InFlight([action EXCEPT !.bound = TRUE])
          \/ /\ input.event.type = "OwnAction"
             /\ action # None /\ action.applied /\ ~ action.observed
             /\ o.action = InFlight([action EXCEPT !.observed = TRUE])
      BY DEF OfferKnown
    <2> QED BY <2>2, <2>3, <2>4, <2>5
  <1>12. WireKnown(action', Ws', venue')
    BY <1>10, <1>11
  <1> QED BY <1>9, <1>12 DEF KnownInv

LEMMA TransactKnown ==
  ASSUME Inv, KnownInv, Transact
  PROVE  KnownInv'
  <1>1. PICK o \in Offers :
          \E t \in {Prepared(o.input, orders, inventory)} :
            /\ o.input.page # <<>> => inventory.generation < MaxGeneration
            /\ IF t.record # None THEN Commit(t)
               ELSE o.paged /\ UNCHANGED <<orders, inventory, reg, durable>>
            /\ action' = o.action
            /\ UNCHANGED <<pos, ghost, venue>>
    BY DEF Transact
  <1> DEFINE input == o.input
             t == Prepared(input, orders, inventory)
  <1>2. /\ ValidInput(input)
        /\ input.page = <<>> \/ Len(input.page) = 1
    BY OffersSound DEF OfferSound, Inv, Shell
  <1>3. /\ input.page # <<>> => inventory.generation < MaxGeneration
        /\ IF t.record # None THEN Commit(t)
           ELSE o.paged /\ UNCHANGED <<orders, inventory, reg, durable>>
        /\ action' = o.action /\ UNCHANGED venue
    BY <1>1
  <1>4. Len(input.page) <= 1 /\ inventory.generation + Len(input.page) <= MaxGeneration
    <2> DEFINE n == inventory.generation
               m == Len(input.page)
    <2>1. n \in Nat /\ n <= MaxGeneration /\ MaxGeneration \in Nat
      BY ObservationAssumption, QtyAssumption DEF Inv, Sound, MemorySound, MarketInventory
    <2>2. m = 0 \/ (m = 1 /\ n < MaxGeneration)
      <3>1. CASE input.page = <<>>
        BY <3>1
      <3>2. CASE input.page # <<>>
        BY <1>2, <1>3, <3>2
      <3> QED BY <3>1, <3>2
    <2> HIDE DEF n, m
    <2>3. m <= 1 /\ n + m <= MaxGeneration
      BY <2>1, <2>2
    <2> QED BY <2>3 DEF n, m
  <1>5. OfferKnown(o)
    BY OffersKnown
  <1>6. CASE t.record # None
    BY <1>2, <1>3, <1>4, <1>5, <1>6, CommitKnown
  <1>7. CASE t.record = None
    <2>1. UNCHANGED <<orders, inventory, reg>> /\ action' = action /\ venue' = venue
      BY <1>3, <1>5, <1>7 DEF OfferKnown
    <2>2. WireKnown(action', Ws, venue')
      BY <2>1 DEF KnownInv
    <2> QED BY <2>1, <2>2, LocalKnown
  <1> QED BY <1>6, <1>7

-----------------------------------------------------------------------------
(* What the shell knows is inductive                                       *)

LEMMA FirstKnown ==
  ASSUME Init
  PROVE  WireKnown(None, venue_only, venue)
  <1> DEFINE none == {}
             st == "Resting"
             x == [cid |-> first, size |-> Qty, fills |-> none, status |-> st, versions |-> none]
             s == Snapshot(x)
             y == Versioned(x)
  <1>1. venue = y
    BY DEF Init
  <1>2. /\ first \in Cids /\ Qty \in Nat /\ Qty > 0 /\ st = "Resting"
        /\ IsFiniteSet(none) /\ Cardinality(none) = 0 /\ none = {}
    BY ObservationAssumption, QtyAssumption, FS_EmptySet
  <1> HIDE DEF none, st
  <1>3. VenueSound(x)
    BY <1>2 DEF VenueSound
  <1>4. x.versions = none /\ x.cid = first /\ x.size = Qty /\ x.status = st
    OBVIOUS
  <1> HIDE DEF x
  <1>5. /\ s.cid = x.cid /\ s.status = x.status /\ s.initial = x.size
        /\ s.updated_ts = Cardinality(x.versions)
        /\ x.status = "Resting" => s.remaining + s.filled = s.initial
        /\ y.cid = x.cid /\ y.size = x.size /\ y.status = x.status
        /\ y.versions = x.versions \cup {s}
        /\ Cardinality(x.versions) \in Nat
        /\ Cardinality(y.versions) = Cardinality(x.versions) + 1
    BY <1>2, <1>3, <1>4, NewVersion
  <1> HIDE DEF s, y
  <1>6. /\ venue.versions = {s} /\ Cardinality(venue.versions) = 1
        /\ venue.cid = first /\ venue.size = Qty /\ venue.status = "Resting"
        /\ s.cid = first /\ s.initial = Qty /\ s.updated_ts = 0 /\ s.status = "Resting"
        /\ s.remaining + s.filled = s.initial
    BY <1>1, <1>2, <1>4, <1>5
  <1>7. /\ MemberCids(venue_only) = {} /\ venue_only.generation = 0
        /\ venue_only.amend_lineage = None /\ venue_only.latest_user_order = None
        /\ venue_only.proved_current_cid = None /\ venue_only.remaining_observation = None
    BY VenueOnlyInv DEF venue_only
  <1>8. ~ Pending(None)
    BY DEF Pending
  <1>9. VersionKnown(s, None, venue_only, venue)
    BY <1>6, <1>7 DEF VersionKnown
  <1>10. VersionsKnown(None, venue_only, venue)
    BY <1>6, <1>7, <1>8, <1>9 DEF VersionsKnown
  <1>11. ProofsKnown(None, venue_only, venue)
    BY <1>6, <1>7 DEF ProofsKnown
  <1> QED BY <1>7, <1>10, <1>11 DEF WireKnown, ActionKnown, LineageKnown

LEMMA KnownInit ==
  ASSUME Init
  PROVE  KnownInv
  <1>1. /\ reg.wires = [v \in Venues |-> None] /\ action = None
        /\ \A c \in Cids : orders[c] = Row(Plain("SubmitStarted"), new_ctx, 2)
        /\ inventory = EmptyInventory
    BY DEF Init
  <1>2. ASSUME NEW v \in Venues
        PROVE  Wire(reg.wires, v) = venue_only
    BY <1>1 DEF Wire, OrElse
  <1>3. OthersKnown(reg.wires)
    BY <1>1, <1>2, VenueOnlyInv DEF OthersKnown
  <1>4. Ws = venue_only
    BY <1>2, ObservationAssumption DEF Ws
  <1>5. RowsKnown(orders)
    <2>1. Started.ctx.venue_order_id = None
      BY StartedSound
    <2>2. \A c \in Cids : orders[c] = Started
      BY <1>1 DEF Started
    <2>3. RowKnown(Started)
      BY <2>1 DEF RowKnown, Started
    <2> QED BY <2>2, <2>3 DEF RowsKnown
  <1>6. EntriesKnown(inventory, Ws)
    <2>1. \A f \in FillIds : inventory.entries[f] = None
      BY <1>1 DEF EmptyInventory
    <2>2. KnownIds(inventory) = {}
      BY <2>1 DEF KnownIds
    <2>3. IsFiniteSet(KnownIds(inventory))
      BY <2>2, FS_EmptySet
    <2> QED BY <2>1, <2>3 DEF EntriesKnown, UnitEntries
  <1>7. WireKnown(action, Ws, venue)
    BY <1>1, <1>4, FirstKnown
  <1>8. EntriesKnown(inventory, Wire(reg.wires, wire))
    BY <1>6 DEF Ws
  <1> QED BY <1>3, <1>5, <1>7, <1>8 DEF KnownInv, MemoryKnown

LEMMA KnownNext ==
  ASSUME Inv, KnownInv, [Next]_vars
  PROVE  KnownInv'
  <1>1. CASE (\E f \in FillIds : VenueFill(f)) \/ VenueCancel \/ VenueApply
    BY <1>1, VenueKnown
  <1>2. CASE Transact
    BY <1>2, TransactKnown
  <1>3. CASE \E n \in Decreases : SendDecrease(n)
    BY <1>3, SendDecreaseKnown
  <1>4. CASE \E n \in Amends, c \in Cids : SendAmend(c, n)
    BY <1>4, SendAmendKnown
  <1>5. CASE ActionRefused
    BY <1>5, ActionRefusedKnown
  <1>6. CASE LineagePhase
    BY <1>6, LineagePhaseKnown
  <1>7. CASE UserOrderReceived
    BY <1>7, UserOrderReceivedKnown
  <1>8. CASE OrderAuthorityHold
    BY <1>8, OrderAuthorityHoldKnown
  <1>9. CASE apply_order_state_resting
    BY <1>9, FrameProofKnown
  <1>10. CASE apply_rest_order_proof
    BY <1>10, RestProofKnown
  <1>11. CASE RoundBegin \/ \E complete \in BOOLEAN : RoundPage(complete)
    BY <1>11, RoundOpensKnown
  <1>12. CASE RoundFinish
    BY <1>12, RoundFinishKnown
  <1>13. CASE Restart
    BY <1>13, RestartKnown
  <1>14. CASE UNCHANGED vars
    <2>1. UNCHANGED <<orders, inventory, reg>> /\ action' = action /\ venue' = venue
      BY <1>14 DEF vars
    <2>2. WireKnown(action', Ws, venue')
      BY <2>1 DEF KnownInv
    <2> QED BY <2>1, <2>2, LocalKnown
  <1> QED BY <1>1, <1>2, <1>3, <1>4, <1>5, <1>6, <1>7, <1>8, <1>9, <1>10, <1>11, <1>12,
             <1>13, <1>14 DEF Next

\* The working remaining that a strategy reads is the venue's remaining, once the
\* executions held are all of the venue's, no own action is in flight and the
\* order still rests (prepare_order_state_resting, prepare_rest_order_proof,
\* finish, member_working_view).
THEOREM KnownSafe == Spec => []KnownIsTrue
  <1>1. ASSUME Inv, KnownInv
        PROVE  KnownIsTrue
    <2>1. /\ WireInv(Ws) /\ VenueSound(venue)
          /\ OthersKnown(reg.wires) /\ ProofsKnown(action, Ws, venue)
      BY <1>1 DEF Inv, Sound, WireSound, Ws, KnownInv, MemoryKnown, WireKnown
    <2> DEFINE obs == Ws.remaining_observation
    <2>2. ASSUME NEW c \in Cids, member_working_view(reg.wires, c) # None
          PROVE  /\ member_working_view(reg.wires, c) = working_view(Ws)
                 /\ working_view(Ws) # None
      <3> DEFINE S == {v \in Venues : reg.wires[v] # None /\ c \in MemberCids(reg.wires[v])}
                 w == CHOOSE v \in S : TRUE
      <3>1. member_working_view(reg.wires, c)
              = IF S = {} \/ current(reg.wires[w]) # c THEN None ELSE working_view(reg.wires[w])
        BY DEF member_working_view
      <3>2. S # {}
        BY <2>2, <3>1
      <3>3. w \in S
        BY <3>2
      <3>4. ASSUME NEW v \in S
            PROVE  v = wire
        <4>1. v \in Venues /\ reg.wires[v] # None /\ c \in MemberCids(reg.wires[v])
          OBVIOUS
        <4>2. c \in MemberCids(Wire(reg.wires, v))
          BY <4>1 DEF Wire, OrElse
        <4> QED BY <2>1, <4>1, <4>2 DEF OthersKnown
      <3>5. w = wire
        BY <3>3, <3>4
      <3>6. reg.wires[wire] = Ws
        <4>1. reg.wires[w] # None
          BY <3>3
        <4> HIDE DEF S, w
        <4>2. reg.wires[wire] # None
          BY <3>5, <4>1
        <4> QED BY <4>2 DEF Ws, Wire, OrElse
      <3> HIDE DEF S, w
      <3> QED BY <2>2, <3>1, <3>2, <3>5, <3>6
    <2>3. ASSUME working_view(Ws) # None
          PROVE  /\ obs # None /\ obs.covered = Ws.held
                 /\ working_view(Ws) = obs.remaining /\ obs.remaining \in Nat
      <3>1. obs # None /\ obs.covered = Ws.held /\ working_view(Ws) = obs.remaining
        BY <2>3 DEF working_view
      <3>2. obs \in Opt(RemainingObservation)
        BY <2>1 DEF WireInv, WireState
      <3>3. obs \in RemainingObservation
        BY <3>1, <3>2 DEF Opt
      <3> QED BY <3>1, <3>3 DEF RemainingObservation
    <2>4. ASSUME working_view(Ws) # None, action = None, Ws.held = venue.fills,
                 venue.status = "Resting"
          PROVE  working_view(Ws) = Remaining(venue)
      <3> DEFINE n == Cardinality(venue.fills)
      <3>1. obs # None /\ obs.covered = venue.fills /\ working_view(Ws) = obs.remaining
            /\ obs.remaining \in Nat
        BY <2>3, <2>4
      <3>2. ~ Pending(action)
        BY <2>4 DEF Pending
      <3>3. obs.remaining + Cardinality(obs.covered) = venue.size
        BY <2>1, <2>4, <3>1, <3>2 DEF ProofsKnown
      <3>4. n \in Nat /\ venue.size \in Nat
        BY <2>1, FS_CardinalityType DEF VenueSound
      <3>5. Remaining(venue) = venue.size - n
        BY <2>4 DEF Remaining
      <3>6. obs.remaining + n = venue.size
        BY <3>1, <3>3
      <3> HIDE DEF n, obs
      <3> QED BY <3>1, <3>4, <3>5, <3>6
    <2> QED BY <2>2, <2>4 DEF KnownIsTrue
  <1>2. Init => KnownInv
    BY KnownInit
  <1>3. Inv /\ KnownInv /\ [Next]_vars => KnownInv'
    BY KnownNext
  <1> QED BY <1>1, <1>2, <1>3, Invariant, PTL DEF Spec

=============================================================================
