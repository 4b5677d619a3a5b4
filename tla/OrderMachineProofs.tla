------------------------- MODULE OrderMachineProofs -------------------------
(***************************************************************************)
(* What every handler of OrderMachine keeps, for every order quantity and  *)
(* every set of fills, venue ids, pages, responses and reports.            *)
(*                                                                         *)
(* The argument has three layers.  CtxInv says what holds of a context     *)
(* between two operations, WorkInv of the work record a handler threads,   *)
(* and OutcomeInv of what a handler returns.  Each operation preserves the *)
(* layer it works on.  WorkInv and OutcomeInv also relate the context to   *)
(* the one the handler started from: evidence only grew, and every fill    *)
(* applied was known before or is one of those the event carried.          *)
(***************************************************************************)
EXTENDS OrderMachine, SumProofs, TLAPS

\* Every applied fill is counted once: the running totals are the sums over them.
Balanced(c) ==
    /\ IsFiniteSet(AppliedIds(c))
    /\ [qty |-> c.attributed_fill_qty, notional |-> c.attributed_notional,
        fee |-> c.attributed_fee] = TotalsOver(c, AppliedIds(c))

\* The part of the inductive invariant that speaks of a context alone.
CtxBase(c) ==
    /\ CtxTyped(c)
    /\ c.fill_obligation <= Qty
    /\ ~ ForeignFill(c)
    /\ Balanced(c)
CtxInv(c) ==
    /\ CtxBase(c)
    /\ c.attributed_fill_qty <= c.fill_obligation

\* A fill keeps its economics and its first timestamp, and never loses the venue
\* or the fee it has.
Kept(old, new) ==
    old # None =>
      /\ new # None
      /\ new.qty = old.qty /\ new.price = old.price /\ new.ts = old.ts
      /\ old.fee # None => new.fee = old.fee
      /\ old.venue # None => new.venue = old.venue

\* Evidence is never lowered and a venue binding is never changed.
Grows(c, d) ==
    /\ d.fill_obligation >= c.fill_obligation
    /\ d.authority_epoch >= c.authority_epoch
    /\ c.venue_order_id # None => d.venue_order_id = c.venue_order_id
    /\ \A f \in FillIds : Kept(c.applied_fills[f], d.applied_fills[f])

\* The fills and the totals over them stay.
SameBooks(c, d) ==
    /\ d.applied_fills = c.applied_fills
    /\ d.attributed_fill_qty = c.attributed_fill_qty
    /\ d.attributed_notional = c.attributed_notional
    /\ d.attributed_fee = c.attributed_fee

\* The response snapshot still covers the same fills, and their sums stay.
SameDomain(c, d) ==
    /\ d.domain = c.domain
    /\ d.response.fill_count = c.response.fill_count
    /\ d.response.boundary = c.response.boundary

\* It grows without a change to the books, to the domain sums or to the binding.
Quiet(c, d) ==
    /\ Grows(c, d) /\ SameBooks(c, d) /\ SameDomain(c, d)
    /\ d.venue_order_id = c.venue_order_id

\* The domain sums are those of the fills inside the boundary.
Exact(c) == c.domain = IF DomainKnown(c) THEN DomainOf(c) ELSE EmptyDomain

-----------------------------------------------------------------------------
(* Operations on a context                                                 *)

\* No fills sum up to nothing.
LEMMA EmptyTotals == ASSUME NEW c PROVE TotalsOver(c, {}) = EmptyDomain
  <1>1. \A u \in [{} -> Int] : SumOver(u) = 0
    <2> SUFFICES ASSUME NEW u \in [{} -> Int]
                 PROVE  SumOver(u) = 0
      OBVIOUS
    <2>1. IsFiniteSet({}) /\ \A x \in {} : u[x] = 0
      BY FS_EmptySet
    <2> QED BY <2>1, SumTyped
  <1> QED BY <1>1 DEF TotalsOver, EmptyDomain

\* The empty context satisfies the invariant.
LEMMA NewCtx == CtxInv(new_ctx) /\ Exact(new_ctx)
  <1>1. AppliedIds(new_ctx) = {} /\ IsFiniteSet(AppliedIds(new_ctx))
    BY FS_EmptySet DEF AppliedIds, new_ctx
  <1>2. Balanced(new_ctx)
    BY <1>1, EmptyTotals DEF Balanced, new_ctx, EmptyDomain
  <1>3. Exact(new_ctx)
    BY DEF Exact, DomainKnown, new_ctx, NoResponse
  <1> QED BY <1>2, <1>3, QtyAssumption, NoneAssumption
    DEF CtxInv, CtxBase, CtxTyped, IsDomain, new_ctx, ForeignFill, AppliedIds, Opt,
        ResponseSnapshot, NoResponse, EmptyDomain

\* What keeps the books keeps them balanced.
LEMMA BalancedFrame ==
  ASSUME NEW c, NEW d, Balanced(c), SameBooks(c, d)
  PROVE  Balanced(d)
  <1>1. AppliedIds(d) = AppliedIds(c)
    BY DEF AppliedIds, SameBooks
  <1>2. \A S : TotalsOver(d, S) = TotalsOver(c, S)
    BY DEF TotalsOver, SameBooks
  <1> QED BY <1>1, <1>2 DEF Balanced, SameBooks

\* The totals are sums of numbers, over the applied fills and over any of them.
LEMMA FillNumbers ==
  ASSUME NEW c, c.applied_fills \in [FillIds -> Opt(Payload)], NEW f \in AppliedIds(c)
  PROVE  /\ c.applied_fills[f] \in Payload
         /\ c.applied_fills[f].qty \in Nat
         /\ c.applied_fills[f].price \in Nat
         /\ c.applied_fills[f].qty * c.applied_fills[f].price \in Nat
         /\ OrZero(c.applied_fills[f].fee) \in Nat
  <1>1. c.applied_fills[f] \in Payload
    BY DEF AppliedIds, Opt
  <1>2. /\ c.applied_fills[f].qty \in Nat /\ c.applied_fills[f].price \in Nat
        /\ c.applied_fills[f].fee \in Opt(0..U64Max)
    BY <1>1 DEF Payload
  <1>3. OrZero(c.applied_fills[f].fee) \in Nat
    BY <1>2, QtyAssumption DEF OrZero, Opt
  <1> QED BY <1>1, <1>2, <1>3

\* Sums over fills that stay the same stay the same.
LEMMA TotalsElsewhere ==
  ASSUME NEW c, NEW d, NEW S, \A x \in S : d.applied_fills[x] = c.applied_fills[x]
  PROVE  TotalsOver(d, S) = TotalsOver(c, S)
  <1>1. /\ [x \in S |-> d.applied_fills[x].qty] = [x \in S |-> c.applied_fills[x].qty]
        /\ [x \in S |-> d.applied_fills[x].qty * d.applied_fills[x].price]
             = [x \in S |-> c.applied_fills[x].qty * c.applied_fills[x].price]
        /\ [x \in S |-> OrZero(d.applied_fills[x].fee)]
             = [x \in S |-> OrZero(c.applied_fills[x].fee)]
    OBVIOUS
  <1> QED BY <1>1 DEF TotalsOver

\* The fees of some of the fills are no more than all fees booked.
LEMMA PartOfFees ==
  ASSUME NEW c, CtxBase(c), NEW S \in SUBSET AppliedIds(c)
  PROVE  TotalsOver(c, S).fee \in 0..U64Max
  <1> DEFINE A == AppliedIds(c)
             u == [x \in A |-> OrZero(c.applied_fills[x].fee)]
             rest == A \ S
  <1>1. IsFiniteSet(A) /\ c.attributed_fee = SumOver(u) /\ c.attributed_fee \in 0..U64Max
    BY DEF CtxBase, CtxTyped, Balanced, TotalsOver
  <1>2. u \in [A -> Int] /\ \A x \in A : u[x] >= 0
    <2>1. \A x \in A : OrZero(c.applied_fills[x].fee) \in Nat
      BY FillNumbers DEF CtxBase, CtxTyped
    <2> QED BY <2>1
  <1>3. /\ TotalsOver(c, S).fee = SumOn(u, S)
        /\ SumOver(u) = SumOn(u, A)
    <2>1. [x \in S |-> u[x]] = [x \in S |-> OrZero(c.applied_fills[x].fee)]
          /\ [x \in A |-> u[x]] = u
      OBVIOUS
    <2> QED BY <2>1 DEF TotalsOver, SumOn
  <1>4. A = S \cup rest /\ S \cap rest = {} /\ rest \in SUBSET A
    OBVIOUS
  <1>5. \A T \in SUBSET A : SumOn(u, T) \in Int /\ SumOn(u, T) >= 0
    <2> SUFFICES ASSUME NEW T \in SUBSET A
                 PROVE  SumOn(u, T) \in Int /\ SumOn(u, T) >= 0
      OBVIOUS
    <2> DEFINE v == [x \in T |-> u[x]]
    <2>1. IsFiniteSet(T) /\ v \in [T -> Int] /\ \A x \in T : v[x] >= 0
      BY <1>1, <1>2, FS_Subset
    <2>2. SumOn(u, T) = SumOver(v)
      BY DEF SumOn
    <2> HIDE DEF v
    <2> QED BY <2>1, <2>2, SumTyped
  <1> HIDE DEF u, rest, A
  <1>6. SumOn(u, A) = SumOn(u, S) + SumOn(u, rest)
    BY <1>1, <1>2, <1>4, SumDisjoint DEF A
  <1>7. SumOn(u, S) \in Int /\ SumOn(u, S) >= 0 /\ SumOn(u, rest) \in Int /\ SumOn(u, rest) >= 0
    BY <1>4, <1>5 DEF A
  <1> QED BY <1>1, <1>3, <1>6, <1>7, QtyAssumption

\* Sums with one fill more.
Plus(sums, p) == [qty |-> sums.qty + p.qty, notional |-> sums.notional + p.qty * p.price,
                  fee |-> sums.fee + OrZero(p.fee)]

\* A fill booked for the first time adds its quantity, notional and fee to any
\* sums it enters.
LEMMA TotalsExtend ==
  ASSUME NEW c, c.applied_fills \in [FillIds -> Opt(Payload)], IsFiniteSet(AppliedIds(c)),
         NEW z \in FillIds, c.applied_fills[z] = None, NEW p \in Payload,
         NEW d, d.applied_fills = [c.applied_fills EXCEPT ![z] = p],
         NEW S \in SUBSET AppliedIds(c)
  PROVE  /\ AppliedIds(d) = AppliedIds(c) \cup {z} /\ IsFiniteSet(AppliedIds(d))
         /\ TotalsOver(d, S \cup {z}) = Plus(TotalsOver(c, S), p)
         /\ TotalsOver(d, S) = TotalsOver(c, S)
  <1> DEFINE R == S \cup {z}
             q == [x \in R |-> d.applied_fills[x].qty]
             n == [x \in R |-> d.applied_fills[x].qty * d.applied_fills[x].price]
             e == [x \in R |-> OrZero(d.applied_fills[x].fee)]
  <1>1. /\ AppliedIds(d) = AppliedIds(c) \cup {z} /\ z \notin S
        /\ d.applied_fills[z] = p
        /\ \A x \in S : d.applied_fills[x] = c.applied_fills[x]
    BY PayloadAssumption DEF AppliedIds
  <1>2. IsFiniteSet(AppliedIds(c) \cup {z}) /\ IsFiniteSet(S)
    BY FS_AddElement, FS_Subset
  <1>3. q \in [R -> Int] /\ n \in [R -> Int] /\ e \in [R -> Int]
    <2>1. d.applied_fills \in [FillIds -> Opt(Payload)]
      BY DEF Opt
    <2>2. ASSUME NEW x \in R
          PROVE  /\ d.applied_fills[x].qty \in Int
                 /\ d.applied_fills[x].qty * d.applied_fills[x].price \in Int
                 /\ OrZero(d.applied_fills[x].fee) \in Int
      <3>1. x \in AppliedIds(d)
        BY <1>1
      <3> QED BY <2>1, <3>1, FillNumbers
    <2> QED BY <2>2
  <1>4. /\ [x \in S |-> q[x]] = [x \in S |-> c.applied_fills[x].qty]
        /\ [x \in S |-> n[x]] = [x \in S |-> c.applied_fills[x].qty * c.applied_fills[x].price]
        /\ [x \in S |-> e[x]] = [x \in S |-> OrZero(c.applied_fills[x].fee)]
    BY <1>1
  <1>5. q[z] = p.qty /\ n[z] = p.qty * p.price /\ e[z] = OrZero(p.fee)
    BY <1>1
  <1>6. TotalsOver(d, R)
          = [qty |-> SumOver(q), notional |-> SumOver(n), fee |-> SumOver(e)]
    BY DEF TotalsOver
  <1>10. TotalsOver(d, S) = TotalsOver(c, S)
    BY <1>1, TotalsElsewhere
  <1>7. /\ TotalsOver(c, S).qty = SumOver([x \in S |-> q[x]])
        /\ TotalsOver(c, S).notional = SumOver([x \in S |-> n[x]])
        /\ TotalsOver(c, S).fee = SumOver([x \in S |-> e[x]])
    BY <1>4 DEF TotalsOver
  <1> HIDE DEF q, n, e
  <1>8. IsFiniteSet(S) /\ z \notin S
    BY <1>1, <1>2
  <1>9. /\ SumOver(q) = SumOver([x \in S |-> q[x]]) + q[z]
        /\ SumOver(n) = SumOver([x \in S |-> n[x]]) + n[z]
        /\ SumOver(e) = SumOver([x \in S |-> e[x]]) + e[z]
    BY <1>3, <1>8, SumExtend
  <1>11. TotalsOver(d, R) = Plus(TotalsOver(c, S), p)
    BY <1>5, <1>6, <1>7, <1>9 DEF Plus
  <1> QED BY <1>1, <1>2, <1>10, <1>11

\* d books fill z with payload p on top of what c has booked.
Books(c, d, z, p) ==
    /\ c.applied_fills \in [FillIds -> Opt(Payload)] /\ IsFiniteSet(AppliedIds(c))
    /\ z \in FillIds /\ c.applied_fills[z] = None /\ p \in Payload
    /\ d.applied_fills = [c.applied_fills EXCEPT ![z] = p]

\* So the totals over all that is booked grow by that payload.
LEMMA TotalsBooked ==
  ASSUME NEW c, NEW d, NEW z, NEW p, Books(c, d, z, p)
  PROVE  /\ IsFiniteSet(AppliedIds(d))
         /\ TotalsOver(d, AppliedIds(d)) = Plus(TotalsOver(c, AppliedIds(c)), p)
  <1> DEFINE S == AppliedIds(c)
  <1>1. /\ c.applied_fills \in [FillIds -> Opt(Payload)] /\ IsFiniteSet(AppliedIds(c))
        /\ z \in FillIds /\ c.applied_fills[z] = None /\ p \in Payload
        /\ d.applied_fills = [c.applied_fills EXCEPT ![z] = p]
    BY DEF Books
  <1>2. S \in SUBSET AppliedIds(c) /\ S = AppliedIds(c)
    OBVIOUS
  <1> HIDE DEF S
  <1>3. /\ AppliedIds(d) = AppliedIds(c) \cup {z} /\ IsFiniteSet(AppliedIds(d))
        /\ TotalsOver(d, S \cup {z}) = Plus(TotalsOver(c, S), p)
        /\ TotalsOver(d, S) = TotalsOver(c, S)
    BY <1>1, <1>2, TotalsExtend
  <1>4. S \cup {z} = AppliedIds(d)
    BY <1>2, <1>3
  <1> QED BY <1>2, <1>3, <1>4

\* A known fill whose venue or fee arrives adds what its fee adds to any sums it
\* is in.
LEMMA TotalsPoint ==
  ASSUME NEW c, c.applied_fills \in [FillIds -> Opt(Payload)], IsFiniteSet(AppliedIds(c)),
         NEW z \in FillIds, c.applied_fills[z] # None, NEW p \in Payload,
         p.qty = c.applied_fills[z].qty, p.price = c.applied_fills[z].price,
         NEW d, d.applied_fills = [c.applied_fills EXCEPT ![z] = p],
         NEW S \in SUBSET AppliedIds(c), z \in S
  PROVE  /\ AppliedIds(d) = AppliedIds(c)
         /\ TotalsOver(d, S) =
              [qty |-> TotalsOver(c, S).qty,
               notional |-> TotalsOver(c, S).notional,
               fee |-> TotalsOver(c, S).fee
                         + (OrZero(p.fee) - OrZero(c.applied_fills[z].fee))]
  <1> DEFINE e == [x \in S |-> OrZero(c.applied_fills[x].fee)]
             w == [x \in S |-> OrZero(d.applied_fills[x].fee)]
  <1>1. /\ AppliedIds(d) = AppliedIds(c)
        /\ d.applied_fills[z] = p
        /\ \A x \in S : x # z => d.applied_fills[x] = c.applied_fills[x]
    BY PayloadAssumption DEF AppliedIds
  <1>2. \A x \in S : /\ d.applied_fills[x].qty = c.applied_fills[x].qty
                     /\ d.applied_fills[x].price = c.applied_fills[x].price
    BY <1>1
  <1>3. e \in [S -> Int] /\ w \in [S -> Int]
    <2>1. d.applied_fills \in [FillIds -> Opt(Payload)]
      BY DEF Opt
    <2>2. ASSUME NEW x \in S
          PROVE  OrZero(c.applied_fills[x].fee) \in Int /\ OrZero(d.applied_fills[x].fee) \in Int
      <3>1. x \in AppliedIds(d) /\ x \in AppliedIds(c)
        BY <1>1
      <3>2. OrZero(c.applied_fills[x].fee) \in Nat
        BY <3>1, FillNumbers
      <3>3. OrZero(d.applied_fills[x].fee) \in Nat
        BY <2>1, <3>1, FillNumbers
      <3> QED BY <3>2, <3>3
    <2> QED BY <2>2
  <1>4. /\ \A x \in S : x # z => w[x] = e[x]
        /\ e[z] = OrZero(c.applied_fills[z].fee) /\ w[z] = OrZero(p.fee)
    BY <1>1
  <1>5. /\ [x \in S |-> d.applied_fills[x].qty] = [x \in S |-> c.applied_fills[x].qty]
        /\ [x \in S |-> d.applied_fills[x].qty * d.applied_fills[x].price]
             = [x \in S |-> c.applied_fills[x].qty * c.applied_fills[x].price]
    BY <1>2
  <1>6. /\ TotalsOver(d, S) = [qty |-> TotalsOver(c, S).qty,
                              notional |-> TotalsOver(c, S).notional, fee |-> SumOver(w)]
        /\ TotalsOver(c, S).fee = SumOver(e)
    BY <1>5 DEF TotalsOver
  <1> HIDE DEF e, w
  <1>7. IsFiniteSet(S)
    BY FS_Subset
  <1>8. SumOver(w) = SumOver(e) + (w[z] - e[z])
    BY <1>3, <1>4, <1>7, SumPoint
  <1> QED BY <1>1, <1>4, <1>6, <1>8

\* A saturating sum stays within u64.
LEMMA SatAdd ==
  ASSUME NEW a \in 0..U64Max, NEW b \in Nat
  PROVE  SaturatingAdd(a, b) \in 0..U64Max /\ SaturatingAdd(a, b) >= a
  BY QtyAssumption DEF SaturatingAdd

\* The quantities of a typed context are numbers.
LEMMA Numbers ==
  ASSUME NEW c, CtxBase(c)
  PROVE  /\ c.fill_obligation \in Nat /\ c.attributed_fill_qty \in Nat
         /\ c.authority_epoch \in Nat
  BY QtyAssumption DEF CtxBase, CtxTyped

\* A context grows from itself.
LEMMA GrowsReflexive ==
  ASSUME NEW c, CtxBase(c)
  PROVE  Quiet(c, c) /\ Grows(c, c)
  BY Numbers DEF Quiet, Grows, Kept, SameBooks, SameDomain

\* What keeps the books, the binding and the obligation keeps the invariant.
LEMMA FrameBase ==
  ASSUME NEW c, NEW d, CtxBase(c), CtxTyped(d),
         SameBooks(c, d),
         d.venue_order_id = c.venue_order_id,
         d.fill_obligation = c.fill_obligation,
         d.authority_epoch >= c.authority_epoch
  PROVE  CtxBase(d) /\ Grows(c, d) /\ (SameDomain(c, d) => Quiet(c, d))
  <1>1. ~ ForeignFill(d) /\ Balanced(d)
    BY BalancedFrame DEF CtxBase, ForeignFill, AppliedIds, SameBooks
  <1>2. d.fill_obligation \in Nat /\ d.applied_fills = c.applied_fills
    BY Numbers DEF SameBooks
  <1> QED BY <1>1, <1>2 DEF CtxBase, Quiet, Grows, Kept

\* The domain sums stay exact while neither the fills nor the snapshot change.
LEMMA ExactFrame ==
  ASSUME NEW c, NEW d, Exact(c), SameBooks(c, d), SameDomain(c, d)
  PROVE  Exact(d)
  <1>1. InDomainIds(d) = InDomainIds(c) /\ (DomainKnown(d) <=> DomainKnown(c))
    BY DEF InDomainIds, AppliedIds, fill_in_response_domain, has_reliable_boundary, DomainKnown,
         SameBooks, SameDomain
  <1>2. DomainOf(d) = DomainOf(c)
    BY <1>1, TotalsElsewhere DEF DomainOf, SameBooks
  <1> QED BY <1>1, <1>2 DEF Exact, SameDomain

\* Latching touches the authority alone.
LEMMA LatchInv ==
  ASSUME NEW c, CtxInv(c)
  PROVE  /\ CtxInv(latch_authority_complete(c))
         /\ Quiet(c, latch_authority_complete(c))
  <1> DEFINE d == latch_authority_complete(c)
  <1>1. CtxTyped(d)
    BY DEF CtxInv, CtxBase, CtxTyped, latch_authority_complete
  <1>2. /\ SameBooks(c, d)
        /\ d.venue_order_id = c.venue_order_id
        /\ d.fill_obligation = c.fill_obligation
        /\ d.attributed_fill_qty = c.attributed_fill_qty
        /\ d.authority_epoch = c.authority_epoch
    BY DEF CtxInv, CtxBase, CtxTyped, latch_authority_complete, SameBooks
  <1>4. SameDomain(c, d)
    BY DEF CtxInv, CtxBase, CtxTyped, latch_authority_complete, SameDomain
  <1> HIDE DEF d
  <1>3. d.authority_epoch >= c.authority_epoch
    BY <1>2, Numbers DEF CtxInv
  <1> QED BY <1>1, <1>2, <1>3, <1>4, FrameBase DEF CtxInv, d

\* Invalidating touches the authority alone.
LEMMA InvalidateBase ==
  ASSUME NEW c, CtxBase(c)
  PROVE  /\ CtxBase(invalidate_authority(c))
         /\ Quiet(c, invalidate_authority(c))
         /\ invalidate_authority(c).fill_obligation = c.fill_obligation
         /\ invalidate_authority(c).attributed_fill_qty = c.attributed_fill_qty
         /\ ~ invalidate_authority(c).authority_complete
  <1> DEFINE d == invalidate_authority(c)
  <1>1. /\ SaturatingAdd(c.authority_epoch, 1) \in 0..U64Max
        /\ SaturatingAdd(c.authority_epoch, 1) >= c.authority_epoch
    BY SatAdd DEF CtxBase, CtxTyped
  <1>2. CtxTyped(d)
    BY <1>1 DEF CtxBase, CtxTyped, invalidate_authority
  <1>3. /\ SameBooks(c, d)
        /\ d.venue_order_id = c.venue_order_id
        /\ d.fill_obligation = c.fill_obligation
        /\ d.attributed_fill_qty = c.attributed_fill_qty
        /\ d.authority_epoch = SaturatingAdd(c.authority_epoch, 1)
        /\ ~ d.authority_complete
    BY DEF CtxBase, CtxTyped, invalidate_authority, SameBooks
  <1>4. SameDomain(c, d)
    BY DEF CtxBase, CtxTyped, invalidate_authority, SameDomain
  <1> HIDE DEF d
  <1> QED BY <1>1, <1>2, <1>3, <1>4, FrameBase DEF d

\* Raising the obligation to evidence within the order quantity restores
\* attributed <= obligation when the evidence covers what is attributed.
LEMMA RaiseInv ==
  ASSUME NEW c, CtxBase(c), NEW e \in Nat, ~ RaiseFails(e),
         c.attributed_fill_qty <= e \/ c.attributed_fill_qty <= c.fill_obligation
  PROVE  /\ CtxInv(raise_fill_obligation(c, e))
         /\ Quiet(c, raise_fill_obligation(c, e))
         /\ raise_fill_obligation(c, e).fill_obligation >= e
         /\ raise_fill_obligation(c, e).authority_complete => c.authority_complete
  <1> DEFINE raised == [c EXCEPT !.fill_obligation = e]
  <1>0. /\ c.fill_obligation \in Nat /\ c.attributed_fill_qty \in Nat /\ Qty \in Nat
        /\ c.authority_epoch \in Nat
    BY Numbers, QtyAssumption
  <1>1. CASE e <= c.fill_obligation
    <2>1. raise_fill_obligation(c, e) = c
      BY <1>1 DEF raise_fill_obligation
    <2> QED BY <1>0, <1>1, <2>1, GrowsReflexive DEF CtxInv
  <1>2. CASE e > c.fill_obligation
    <2>1. /\ raised.fill_obligation = e
          /\ raised.attributed_fill_qty = c.attributed_fill_qty
          /\ raised.venue_order_id = c.venue_order_id
          /\ SameBooks(c, raised)
          /\ raised.authority_epoch = c.authority_epoch
          /\ raised.authority_complete = c.authority_complete
          /\ CtxTyped(raised)
      BY DEF CtxBase, CtxTyped, SameBooks
    <2>5. SameDomain(c, raised)
      BY DEF CtxBase, CtxTyped, SameDomain
    <2> HIDE DEF raised
    <2>2. CtxBase(raised)
      <3>1. ~ ForeignFill(raised) /\ Balanced(raised)
        BY <2>1, BalancedFrame DEF CtxBase, ForeignFill, AppliedIds, SameBooks
      <3> QED BY <1>0, <2>1, <3>1 DEF CtxBase, RaiseFails
    <2>3. CASE c.attributed_fill_qty < e
      <3> DEFINE d == invalidate_authority(raised)
      <3>1. raise_fill_obligation(c, e) = d
        BY <1>0, <1>2, <2>3 DEF raise_fill_obligation, raised
      <3>2. CtxBase(d) /\ Quiet(raised, d) /\ d.fill_obligation = e /\ ~ d.authority_complete
            /\ d.attributed_fill_qty = c.attributed_fill_qty
        BY <2>1, <2>2, InvalidateBase
      <3> HIDE DEF d
      <3>3. SameDomain(c, d)
        BY <2>5, <3>2 DEF Quiet, SameDomain
      <3>4. SameBooks(c, d) /\ Grows(c, d)
        BY <1>0, <1>2, <2>1, <2>3, <3>2 DEF Quiet, Grows, SameBooks
      <3> QED BY <1>0, <1>2, <2>1, <2>3, <3>1, <3>2, <3>3, <3>4 DEF CtxInv, Quiet
    <2>4. CASE ~ (c.attributed_fill_qty < e)
      <3>1. raise_fill_obligation(c, e) = raised
        BY <1>0, <1>2, <2>4 DEF raise_fill_obligation, raised
      <3> QED BY <1>0, <1>2, <2>1, <2>2, <2>4, <2>5, <3>1 DEF CtxInv, Quiet, Grows, Kept, SameBooks
    <2> QED BY <2>3, <2>4
  <1> QED BY <1>0, <1>1, <1>2

\* A binding that bind_venue_id allows keeps every fill owned.
LEMMA BindInv ==
  ASSUME NEW c, CtxInv(c), NEW v \in Venues, BindError(c, v) = None,
         c.venue_order_id = None
  PROVE  /\ CtxInv(Bind(c, v))
         /\ Grows(c, Bind(c, v)) /\ SameBooks(c, Bind(c, v)) /\ SameDomain(c, Bind(c, v))
         /\ Bind(c, v).venue_order_id = v
         /\ Bind(c, v).authority_complete = c.authority_complete
  <1> DEFINE d == Bind(c, v)
  <1>1. CtxTyped(d)
    BY DEF CtxInv, CtxBase, CtxTyped, Bind, Opt
  <1>2. /\ SameBooks(c, d)
        /\ d.venue_order_id = v
        /\ d.fill_obligation = c.fill_obligation
        /\ d.attributed_fill_qty = c.attributed_fill_qty
        /\ d.authority_epoch = c.authority_epoch
        /\ d.authority_complete = c.authority_complete
    BY DEF CtxInv, CtxBase, CtxTyped, Bind, SameBooks
  <1>5. SameDomain(c, d)
    BY DEF CtxInv, CtxBase, CtxTyped, Bind, SameDomain
  <1> HIDE DEF d
  <1>3. ~ ForeignFill(d) /\ Balanced(d)
    <2>1. "FillOwnershipMismatch" # None
      BY NoneAssumption DEF HaltReason
    <2>2. ~ ForeignFill(d)
      BY <1>2, <2>1 DEF ForeignFill, AppliedIds, BindError, SameBooks
    <2> QED BY <1>2, <2>2, BalancedFrame DEF CtxInv, CtxBase
  <1>4. c.fill_obligation \in Nat /\ c.authority_epoch \in Nat
    BY Numbers DEF CtxInv
  <1> QED BY <1>1, <1>2, <1>3, <1>4, <1>5 DEF CtxInv, CtxBase, Grows, Kept, SameBooks, d

\* The last venue remaining is only remembered.
LEMMA NoteRemainingInv ==
  ASSUME NEW c, CtxInv(c), NEW r \in Opt(Nat)
  PROVE  /\ CtxInv(note_venue_remaining(c, r))
         /\ Quiet(c, note_venue_remaining(c, r))
         /\ note_venue_remaining(c, r).venue_order_id = c.venue_order_id
         /\ note_venue_remaining(c, r).authority_complete = c.authority_complete
  <1> DEFINE d == note_venue_remaining(c, r)
  <1>1. CtxTyped(d)
    BY DEF CtxInv, CtxBase, CtxTyped, note_venue_remaining
  <1>2. /\ SameBooks(c, d)
        /\ d.venue_order_id = c.venue_order_id
        /\ d.fill_obligation = c.fill_obligation
        /\ d.attributed_fill_qty = c.attributed_fill_qty
        /\ d.authority_epoch = c.authority_epoch
        /\ d.authority_complete = c.authority_complete
    BY DEF CtxInv, CtxBase, CtxTyped, note_venue_remaining, SameBooks
  <1>4. SameDomain(c, d)
    BY DEF CtxInv, CtxBase, CtxTyped, note_venue_remaining, SameDomain
  <1> HIDE DEF d
  <1>3. d.authority_epoch >= c.authority_epoch
    BY <1>2, Numbers DEF CtxInv
  <1> QED BY <1>1, <1>2, <1>3, <1>4, FrameBase DEF CtxInv, d

\* So is the response snapshot, whose domain sums then have to follow, unless it
\* covers the same fills.
LEMMA ResponseInv ==
  ASSUME NEW c, CtxInv(c), NEW r \in ResponseSnapshot
  PROVE  /\ CtxInv([c EXCEPT !.response = r])
         /\ Grows(c, [c EXCEPT !.response = r])
         /\ SameBooks(c, [c EXCEPT !.response = r])
         /\ r.fill_count = c.response.fill_count /\ r.boundary = c.response.boundary
              => Quiet(c, [c EXCEPT !.response = r])
         /\ [c EXCEPT !.response = r].venue_order_id = c.venue_order_id
         /\ [c EXCEPT !.response = r].authority_complete = c.authority_complete
  <1> DEFINE d == [c EXCEPT !.response = r]
  <1>1. CtxTyped(d)
    BY DEF CtxInv, CtxBase, CtxTyped
  <1>2. /\ SameBooks(c, d)
        /\ d.venue_order_id = c.venue_order_id
        /\ d.fill_obligation = c.fill_obligation
        /\ d.attributed_fill_qty = c.attributed_fill_qty
        /\ d.authority_epoch = c.authority_epoch
        /\ d.authority_complete = c.authority_complete
    BY DEF CtxInv, CtxBase, CtxTyped, SameBooks
  <1>4. r.fill_count = c.response.fill_count /\ r.boundary = c.response.boundary
          => SameDomain(c, d)
    BY DEF CtxInv, CtxBase, CtxTyped, SameDomain
  <1> HIDE DEF d
  <1>3. d.authority_epoch >= c.authority_epoch
    BY <1>2, Numbers DEF CtxInv
  <1> QED BY <1>1, <1>2, <1>3, <1>4, FrameBase DEF CtxInv, d

\* The domain sums influence neither the fills nor the obligation.
LEMMA DomainInv ==
  ASSUME NEW c, CtxInv(c), NEW m, IsDomain(m)
  PROVE  /\ CtxInv([c EXCEPT !.domain = m])
         /\ Grows(c, [c EXCEPT !.domain = m])
         /\ SameBooks(c, [c EXCEPT !.domain = m])
         /\ [c EXCEPT !.domain = m].venue_order_id = c.venue_order_id
  <1> DEFINE d == [c EXCEPT !.domain = m]
  <1>1. CtxTyped(d)
    BY DEF CtxInv, CtxBase, CtxTyped
  <1>2. /\ SameBooks(c, d)
        /\ d.venue_order_id = c.venue_order_id
        /\ d.fill_obligation = c.fill_obligation
        /\ d.attributed_fill_qty = c.attributed_fill_qty
        /\ d.authority_epoch = c.authority_epoch
    BY DEF CtxInv, CtxBase, CtxTyped, SameBooks
  <1> HIDE DEF d
  <1>3. d.authority_epoch >= c.authority_epoch
    BY <1>2, Numbers DEF CtxInv
  <1> QED BY <1>1, <1>2, <1>3, FrameBase DEF CtxInv, d

\* Recomputing the response domain leaves identity and evidence alone, and makes
\* the sums those of the snapshot.
LEMMA RecomputeInv ==
  ASSUME NEW c, CtxInv(c)
  PROVE  /\ CtxInv(recompute_response_domain(c))
         /\ Grows(c, recompute_response_domain(c))
         /\ SameBooks(c, recompute_response_domain(c))
         /\ recompute_response_domain(c).venue_order_id = c.venue_order_id
         /\ c.response.fill_count # None => Exact(recompute_response_domain(c))
  <1> DEFINE d == recompute_response_domain(c)
  <1>1. IsDomain(DomainOf(c))
    BY DEF IsDomain, DomainOf, TotalsOver
  <1>2. /\ CtxInv(d) /\ Grows(c, d) /\ SameBooks(c, d) /\ d.venue_order_id = c.venue_order_id
    BY <1>1, DomainInv DEF recompute_response_domain
  <1>3. d.response = c.response /\ d.domain = DomainOf(c)
    BY DEF recompute_response_domain, CtxInv, CtxBase, CtxTyped
  <1> HIDE DEF d
  <1>4. /\ InDomainIds(d) = InDomainIds(c)
        /\ ~ has_reliable_boundary(d) => InDomainIds(d) = {}
    BY <1>2, <1>3 DEF InDomainIds, AppliedIds, fill_in_response_domain, has_reliable_boundary,
         SameBooks
  <1>5. d.domain = DomainOf(d)
    BY <1>2, <1>3, <1>4, TotalsElsewhere DEF DomainOf, SameBooks
  <1>6. ~ has_reliable_boundary(d) => DomainOf(d) = EmptyDomain
    BY <1>4, EmptyTotals DEF DomainOf
  <1>7. c.response.fill_count # None => Exact(d)
    BY <1>3, <1>5, <1>6 DEF Exact, DomainKnown
  <1> QED BY <1>2, <1>7 DEF d

\* So does counting one more fill into it.
LEMMA AccumulateInv ==
  ASSUME NEW c, CtxInv(c), NEW p
  PROVE  /\ CtxInv(accumulate_response_domain(c, p))
         /\ Grows(c, accumulate_response_domain(c, p))
         /\ SameBooks(c, accumulate_response_domain(c, p))
         /\ accumulate_response_domain(c, p).venue_order_id = c.venue_order_id
  <1> DEFINE m == [qty |-> c.domain.qty + p.qty,
                   notional |-> c.domain.notional + p.qty * p.price,
                   fee |-> SaturatingAdd(c.domain.fee, OrZero(p.fee))]
  <1>1. IsDomain(m)
    BY DEF IsDomain
  <1>2. \/ accumulate_response_domain(c, p) = c
        \/ accumulate_response_domain(c, p) = [c EXCEPT !.domain = m]
    BY DEF accumulate_response_domain
  <1> HIDE DEF m
  <1>3. Grows(c, c) /\ SameBooks(c, c)
    BY GrowsReflexive DEF CtxInv, SameBooks
  <1>4. CASE accumulate_response_domain(c, p) = c
    BY <1>3, <1>4
  <1>5. CASE accumulate_response_domain(c, p) = [c EXCEPT !.domain = m]
    BY <1>1, <1>5, DomainInv
  <1> QED BY <1>2, <1>4, <1>5

\* The first sight of a fill books a fill of the bound order, within its
\* quantity; the obligation still has to follow.
LEMMA BookBase ==
  ASSUME NEW c, CtxInv(c), NEW f \in FillRecord, FirstSightError(c, f) = None,
         c.applied_fills[f.id] = None
  PROVE  /\ CtxBase(BookFill(c, f))
         /\ Grows(c, BookFill(c, f))
         /\ BookFill(c, f).venue_order_id = c.venue_order_id
         /\ BookFill(c, f).attributed_fill_qty <= Qty
         /\ BookFill(c, f).attributed_fill_qty = c.attributed_fill_qty + f.qty
         /\ BookFill(c, f).attributed_fee = c.attributed_fee + OrZero(f.fee)
         /\ BookFill(c, f).applied_fills = [c.applied_fills EXCEPT ![f.id] = PayloadOf(f)]
  <1> DEFINE d == BookFill(c, f)
  <1>0. /\ c.attributed_fill_qty \in Nat /\ c.fill_obligation \in Nat
        /\ c.attributed_fee \in 0..U64Max /\ c.attributed_notional \in Nat
        /\ c.applied_fills \in [FillIds -> Opt(Payload)]
        /\ f.id \in FillIds /\ f.qty \in Nat /\ f.price \in Nat /\ f.venue \in Opt(Venues)
        /\ OrZero(f.fee) \in Nat /\ PayloadOf(f) \in Payload
        /\ Qty \in Nat /\ U64Max \in Nat
    BY QtyAssumption
    DEF CtxInv, CtxBase, CtxTyped, FillRecord, Opt, OrZero, PayloadOf, Payload
  <1>1. /\ c.attributed_fill_qty + f.qty <= Qty
        /\ c.attributed_fee + OrZero(f.fee) \in 0..U64Max
        /\ c.venue_order_id # None => f.venue = c.venue_order_id
    <2>1. "FillOwnershipMismatch" # None /\ "OverFill" # None /\ "FeeOverflow" # None
      BY NoneAssumption DEF HaltReason
    <2> QED BY <1>0, <2>1 DEF FirstSightError
  <1>2. f.qty * f.price \in Nat
    BY <1>0
  <1>3. [c.applied_fills EXCEPT ![f.id] = PayloadOf(f)] \in [FillIds -> Opt(Payload)]
    BY <1>0 DEF Opt
  <1>4. CtxTyped(d)
    <2> DEFINE q == c.attributed_fill_qty + f.qty
               n == c.attributed_notional + f.qty * f.price
               e == c.attributed_fee + OrZero(f.fee)
    <2>1. d = [c EXCEPT !.applied_fills[f.id] = PayloadOf(f), !.attributed_fill_qty = q,
                        !.attributed_notional = n, !.attributed_fee = e]
      BY DEF BookFill
    <2>2. q \in Nat /\ n \in Nat /\ e \in 0..U64Max
      BY <1>0, <1>1, <1>2
    <2> HIDE DEF q, n, e, d
    <2> QED BY <1>0, <1>3, <2>1, <2>2 DEF CtxInv, CtxBase, CtxTyped
  <1>5. /\ d.applied_fills = [c.applied_fills EXCEPT ![f.id] = PayloadOf(f)]
        /\ d.venue_order_id = c.venue_order_id
        /\ d.fill_obligation = c.fill_obligation
        /\ d.attributed_fill_qty = c.attributed_fill_qty + f.qty
        /\ d.attributed_notional = c.attributed_notional + f.qty * f.price
        /\ d.attributed_fee = c.attributed_fee + OrZero(f.fee)
        /\ d.authority_epoch = c.authority_epoch
    BY DEF CtxInv, CtxBase, CtxTyped, BookFill
  <1> HIDE DEF d
  <1>9. Balanced(d)
    <2> DEFINE A == TotalsOver(c, AppliedIds(c))
               p == PayloadOf(f)
    <2>1. /\ IsFiniteSet(AppliedIds(c))
          /\ A.qty = c.attributed_fill_qty /\ A.notional = c.attributed_notional
          /\ A.fee = c.attributed_fee
      BY DEF CtxInv, CtxBase, Balanced
    <2>2. p.qty = f.qty /\ p.price = f.price /\ p.fee = f.fee
      BY DEF PayloadOf
    <2>3. IsFiniteSet(AppliedIds(d)) /\ TotalsOver(d, AppliedIds(d)) = Plus(A, p)
      <3>1. Books(c, d, f.id, p)
        BY <1>0, <1>5, <2>1 DEF Books
      <3> HIDE DEF p, A
      <3> QED BY <3>1, TotalsBooked DEF A
    <2> HIDE DEF A, p
    <2> QED BY <1>5, <2>1, <2>2, <2>3 DEF Balanced, Plus
  <1>6. ~ ForeignFill(d)
    <2>1. PayloadOf(f).venue = f.venue
      BY DEF PayloadOf
    <2> QED BY <1>0, <1>1, <1>5, <2>1 DEF CtxInv, CtxBase, ForeignFill, AppliedIds
  <1>7. \A i \in FillIds : Kept(c.applied_fills[i], d.applied_fills[i])
    BY <1>0, <1>5 DEF Kept
  <1>8. c.authority_epoch \in Nat
    BY Numbers DEF CtxInv
  <1> QED BY <1>0, <1>1, <1>4, <1>5, <1>6, <1>7, <1>8, <1>9 DEF CtxInv, CtxBase, Grows, d

\* What late metadata leaves alone: everything the release gates read.
GateFrame(c, d) ==
    /\ d.attributed_fill_qty = c.attributed_fill_qty
    /\ d.fill_obligation = c.fill_obligation
    /\ d.venue_order_id = c.venue_order_id
    /\ d.authority_complete = c.authority_complete
    /\ d.authority_epoch = c.authority_epoch
    /\ d.authority_latched_epoch = c.authority_latched_epoch
    /\ d.response = c.response
    /\ d.domain.qty = c.domain.qty
    /\ UnprovenFill(d) => UnprovenFill(c)

\* A redelivery supplies a missing venue or fee and changes nothing else.
LEMMA EnrichInv ==
  ASSUME NEW c, CtxInv(c), NEW f \in FillRecord,
         c.applied_fills[f.id] # None, RedeliveryError(c, f) = None
  PROVE  /\ CtxInv(EnrichFill(c, f))
         /\ Grows(c, EnrichFill(c, f))
         /\ EnrichFill(c, f).attributed_fee
              = c.attributed_fee + IF FeeArrives(c, f) THEN f.fee ELSE 0
         /\ \E venue \in {c.applied_fills[f.id].venue, f.venue},
               fee \in {c.applied_fills[f.id].fee, f.fee} :
              EnrichFill(c, f).applied_fills
                = [c.applied_fills EXCEPT ![f.id] =
                     [c.applied_fills[f.id] EXCEPT !.venue = venue, !.fee = fee]]
         /\ GateFrame(c, EnrichFill(c, f))
         /\ Exact(c) => Exact(EnrichFill(c, f))
  <1> DEFINE d == EnrichFill(c, f)
             prev == c.applied_fills[f.id]
             venue == IF VenueArrives(c, f) THEN f.venue ELSE prev.venue
             fee == IF FeeArrives(c, f) THEN f.fee ELSE prev.fee
             late == IF FeeArrives(c, f) THEN f.fee ELSE 0
             known == [prev EXCEPT !.venue = venue, !.fee = fee]
  <1>0. /\ c.attributed_fill_qty \in Nat /\ c.fill_obligation \in Nat
        /\ c.attributed_fee \in 0..U64Max
        /\ c.applied_fills \in [FillIds -> Opt(Payload)]
        /\ f.id \in FillIds /\ f.venue \in Opt(Venues) /\ f.fee \in Opt(0..U64Max)
        /\ prev \in Payload
        /\ Qty \in Nat /\ U64Max \in Nat
    BY QtyAssumption DEF CtxInv, CtxBase, CtxTyped, FillRecord, Opt
  <1>1. /\ VenueArrives(c, f) => c.venue_order_id \in {None, f.venue}
        /\ FeeArrives(c, f) => c.attributed_fee + f.fee \in 0..U64Max
    <2>1. "FillOwnershipMismatch" # None /\ "ConflictingFillPayload" # None
          /\ "FeeOverflow" # None
      BY NoneAssumption DEF HaltReason
    <2>2. VenueArrives(c, f) => prev # PayloadOf(f)
      BY DEF VenueArrives, PayloadOf
    <2>3. FeeArrives(c, f) => prev # PayloadOf(f) /\ f.fee \in 0..U64Max
      BY <1>0 DEF FeeArrives, PayloadOf, Opt
    <2> QED BY <1>0, <2>1, <2>2, <2>3 DEF RedeliveryError, VenueArrives, FeeArrives
  <1>2. /\ known \in Payload
        /\ known.venue = venue
        /\ Kept(prev, known)
        /\ venue \in {prev.venue, f.venue} /\ fee \in {prev.fee, f.fee}
        /\ c.attributed_fee + late \in 0..U64Max
        /\ known.qty = prev.qty /\ known.price = prev.price
        /\ OrZero(known.fee) - OrZero(prev.fee) = late
    <2>1. venue \in Opt(Venues)
      BY <1>0 DEF Payload
    <2>2. fee \in Opt(0..U64Max)
      BY <1>0 DEF Payload
    <2>3. c.attributed_fee + late \in 0..U64Max
      BY <1>0, <1>1
    <2>4. /\ venue \in {prev.venue, f.venue} /\ fee \in {prev.fee, f.fee}
          /\ prev.venue # None => venue = prev.venue
          /\ prev.fee # None => fee = prev.fee
      BY DEF VenueArrives, FeeArrives
    <2>7. OrZero(fee) - OrZero(prev.fee) = late
      <3>1. prev.fee \in Opt(0..U64Max) /\ \A n \in 0..U64Max : n # None
        BY <1>0, NoneAssumption DEF Payload
      <3>2. OrZero(prev.fee) \in Int
        BY <3>1 DEF OrZero, Opt
      <3> QED BY <1>0, <3>1, <3>2 DEF FeeArrives, OrZero, Opt
    <2> HIDE DEF venue, fee, late
    <2>5. known \in Payload /\ known.venue = venue /\ known.fee = fee
          /\ known.qty = prev.qty /\ known.price = prev.price /\ known.ts = prev.ts
      BY <1>0, <2>1, <2>2 DEF Payload
    <2>6. known # None
      BY <2>5, PayloadAssumption
    <2> HIDE DEF known
    <2> QED BY <2>3, <2>4, <2>5, <2>6, <2>7 DEF Kept
  <1> DEFINE inDomain == /\ FeeArrives(c, f) /\ c.response.fill_count # None
                         /\ fill_in_response_domain(c, prev.ts)
             m == IF inDomain THEN SaturatingAdd(c.domain.fee, late) ELSE c.domain.fee
  <1>4. d = [c EXCEPT !.applied_fills[f.id] = known,
                      !.attributed_fee = c.attributed_fee + late,
                      !.domain.fee = m]
    BY DEF EnrichFill
  <1>15. late = IF FeeArrives(c, f) THEN f.fee ELSE 0
    OBVIOUS
  <1>3. /\ ~ inDomain => m = c.domain.fee
        /\ inDomain => m = SaturatingAdd(c.domain.fee, late)
        /\ DomainKnown(c) /\ fill_in_response_domain(c, prev.ts) => (inDomain \/ late = 0)
        /\ ~ (DomainKnown(c) /\ fill_in_response_domain(c, prev.ts)) => ~ inDomain
        /\ known.ts = prev.ts /\ late \in Nat
    <2>1. prev.ts = known.ts
      BY <1>0 DEF Payload
    <2>2. late \in Nat
      BY <1>0, <1>1, QtyAssumption DEF FeeArrives, Opt
    <2> HIDE DEF known, late, venue, fee
    <2> QED BY <1>15, <2>1, <2>2 DEF DomainKnown, fill_in_response_domain
  <1> HIDE DEF known, late, venue, fee, m, inDomain, d
  <1>5. [c.applied_fills EXCEPT ![f.id] = known] \in [FillIds -> Opt(Payload)]
    BY <1>0, <1>2 DEF Opt
  <1>6. IsDomain([c.domain EXCEPT !.fee = m]) /\ [c.domain EXCEPT !.fee = m].qty = c.domain.qty
    BY DEF CtxInv, CtxBase, CtxTyped, IsDomain
  <1>7. /\ d.applied_fills = [c.applied_fills EXCEPT ![f.id] = known]
        /\ d.domain = [c.domain EXCEPT !.fee = m]
        /\ d.attributed_fill_qty = c.attributed_fill_qty
        /\ d.attributed_notional = c.attributed_notional
        /\ d.attributed_fee = c.attributed_fee + late
        /\ d.fill_obligation = c.fill_obligation
        /\ d.venue_order_id = c.venue_order_id
        /\ d.authority_complete = c.authority_complete
        /\ d.authority_epoch = c.authority_epoch
        /\ d.authority_latched_epoch = c.authority_latched_epoch
        /\ d.response = c.response
    BY <1>4 DEF CtxInv, CtxBase, CtxTyped
  <1>8. CtxTyped(d)
    BY <1>2, <1>4, <1>5, <1>6, <1>7 DEF CtxInv, CtxBase, CtxTyped
  <1>9. ~ ForeignFill(d)
    BY <1>0, <1>1, <1>2, <1>7 DEF CtxInv, CtxBase, ForeignFill, AppliedIds, venue
  <1>10. UnprovenFill(d) => UnprovenFill(c)
    BY <1>0, <1>2, <1>7 DEF UnprovenFill, AppliedIds, venue, VenueArrives
  <1>11. \A i \in FillIds : Kept(c.applied_fills[i], d.applied_fills[i])
    BY <1>0, <1>2, <1>7 DEF Kept
  <1>12. c.authority_epoch \in Nat
    BY Numbers DEF CtxInv
  <1>13. Grows(c, d)
    BY <1>0, <1>7, <1>11, <1>12 DEF Grows
  <1>16. Balanced(d)
    <2> DEFINE A == TotalsOver(c, AppliedIds(c))
    <2>1. /\ IsFiniteSet(AppliedIds(c))
          /\ A.qty = c.attributed_fill_qty /\ A.notional = c.attributed_notional
          /\ A.fee = c.attributed_fee
      BY DEF CtxInv, CtxBase, Balanced
    <2>2. /\ IsFiniteSet(AppliedIds(d))
          /\ TotalsOver(d, AppliedIds(d))
               = [qty |-> A.qty, notional |-> A.notional,
                  fee |-> A.fee + (OrZero(known.fee) - OrZero(prev.fee))]
      <3>1. AppliedIds(c) \in SUBSET AppliedIds(c) /\ f.id \in AppliedIds(c)
        BY <1>0 DEF AppliedIds
      <3> QED BY <1>0, <1>2, <1>7, <2>1, <3>1, TotalsPoint
    <2> HIDE DEF A
    <2> QED BY <1>2, <1>7, <2>1, <2>2 DEF Balanced
  <1>14. CtxInv(d) /\ GateFrame(c, d)
    BY <1>0, <1>6, <1>7, <1>8, <1>9, <1>10, <1>16 DEF CtxInv, CtxBase, GateFrame
  <1>17. ASSUME Exact(c)
         PROVE  Exact(d)
    <2> DEFINE S == InDomainIds(c)
    <2>1. /\ DomainKnown(d) <=> DomainKnown(c)
          /\ InDomainIds(d) = S
      BY <1>0, <1>2, <1>3, <1>7, PayloadAssumption
      DEF DomainKnown, InDomainIds, AppliedIds, fill_in_response_domain, has_reliable_boundary
    <2>2. /\ f.id \in S <=> fill_in_response_domain(c, prev.ts)
          /\ S \in SUBSET AppliedIds(c) /\ S \in SUBSET AppliedIds(d)
      BY <1>0, <2>1 DEF InDomainIds, AppliedIds
    <2>3. d.domain = [qty |-> c.domain.qty, notional |-> c.domain.notional, fee |-> m]
      BY <1>7 DEF CtxInv, CtxBase, CtxTyped, IsDomain
    <2> HIDE DEF S
    <2>4. CASE ~ DomainKnown(c)
      BY <1>3, <1>17, <2>1, <2>3, <2>4 DEF Exact, EmptyDomain
    <2>5. CASE DomainKnown(c) /\ f.id \notin S
      <3>1. TotalsOver(d, S) = TotalsOver(c, S)
        BY <1>0, <1>7, <2>2, <2>5, TotalsElsewhere DEF AppliedIds
      <3>2. c.domain = TotalsOver(c, S) /\ m = c.domain.fee
        BY <1>3, <1>17, <2>2, <2>5 DEF Exact, DomainOf, S
      <3>3. d.domain = c.domain
        BY <2>3, <3>2 DEF CtxInv, CtxBase, CtxTyped, IsDomain
      <3> QED BY <2>1, <2>5, <3>1, <3>2, <3>3 DEF Exact, DomainOf
    <2>6. CASE DomainKnown(c) /\ f.id \in S
      <3>1. c.domain = TotalsOver(c, S)
        BY <1>17, <2>6 DEF Exact, DomainOf, S
      <3>2. TotalsOver(d, S) = [qty |-> c.domain.qty, notional |-> c.domain.notional,
                                fee |-> c.domain.fee + late]
        <4>1. IsFiniteSet(AppliedIds(c))
          BY DEF CtxInv, CtxBase, Balanced
        <4>2. TotalsOver(d, S) = [qty |-> TotalsOver(c, S).qty,
                                  notional |-> TotalsOver(c, S).notional,
                                  fee |-> TotalsOver(c, S).fee
                                            + (OrZero(known.fee) - OrZero(prev.fee))]
          BY <1>0, <1>2, <1>7, <2>2, <2>6, <4>1, TotalsPoint
        <4> QED BY <1>2, <3>1, <4>2
      <3>3. TotalsOver(d, S).fee \in 0..U64Max /\ TotalsOver(c, S).fee \in 0..U64Max
        BY <1>14, <2>2, PartOfFees DEF CtxInv
      <3>4. m = c.domain.fee + late
        BY <1>0, <1>3, <2>2, <2>6, <3>1, <3>2, <3>3 DEF SaturatingAdd
      <3> QED BY <2>1, <2>3, <2>6, <3>2, <3>4 DEF Exact, DomainOf
    <2> QED BY <2>4, <2>5, <2>6
  <1> QED BY <1>2, <1>7, <1>13, <1>14, <1>15, <1>17 DEF d, known

\* A fill booked for the first time and counted into the snapshot it belongs to.
LEMMA BookExact ==
  ASSUME NEW c, CtxInv(c), Exact(c), NEW z \in FillIds, c.applied_fills[z] = None,
         NEW p \in Payload, NEW d, CtxInv(d),
         d.applied_fills = [c.applied_fills EXCEPT ![z] = p],
         d.domain = c.domain, d.response = c.response
  PROVE  Exact(accumulate_response_domain(d, p))
  <1> DEFINE S == InDomainIds(c)
             R == S \cup {z}
             e == accumulate_response_domain(d, p)
             m == [qty |-> c.domain.qty + p.qty,
                   notional |-> c.domain.notional + p.qty * p.price,
                   fee |-> SaturatingAdd(c.domain.fee, OrZero(p.fee))]
             counted == DomainKnown(c) /\ fill_in_response_domain(c, p.ts)
  <1>1. /\ c.applied_fills \in [FillIds -> Opt(Payload)] /\ IsFiniteSet(AppliedIds(c))
        /\ d.applied_fills[z] = p /\ p # None
    BY PayloadAssumption DEF CtxInv, CtxBase, CtxTyped, Balanced
  <1>2. e = IF counted THEN [d EXCEPT !.domain = m] ELSE d
    BY DEF accumulate_response_domain, DomainKnown, fill_in_response_domain, has_reliable_boundary
  <1>3. /\ e.applied_fills = d.applied_fills /\ e.response = c.response
        /\ e.domain = IF counted THEN m ELSE c.domain
    BY <1>2 DEF CtxInv, CtxBase, CtxTyped
  <1>4. S \in SUBSET AppliedIds(c) /\ z \notin S
    BY DEF InDomainIds, AppliedIds
  <1> HIDE DEF e, m
  <1>5. /\ DomainKnown(e) <=> DomainKnown(c)
        /\ InDomainIds(e) = IF fill_in_response_domain(c, p.ts) THEN R ELSE S
    BY <1>1, <1>3
    DEF DomainKnown, InDomainIds, AppliedIds, fill_in_response_domain, has_reliable_boundary
  <1> HIDE DEF S, R, counted
  <1>6. /\ AppliedIds(d) = AppliedIds(c) \cup {z}
        /\ TotalsOver(d, S \cup {z}) = Plus(TotalsOver(c, S), p)
        /\ TotalsOver(d, S) = TotalsOver(c, S)
    BY <1>1, <1>4, TotalsExtend
  <1>7. \A T : TotalsOver(e, T) = TotalsOver(d, T)
    BY <1>3, TotalsElsewhere
  <1>8. ~ DomainKnown(c) => Exact(e)
    BY <1>3, <1>5 DEF Exact, counted
  <1>9. DomainKnown(c) /\ ~ fill_in_response_domain(c, p.ts) => Exact(e)
    BY <1>3, <1>5, <1>6, <1>7 DEF Exact, DomainOf, counted, S
  <1>10. ASSUME DomainKnown(c), fill_in_response_domain(c, p.ts)
         PROVE  Exact(e)
    <2>1. c.domain = TotalsOver(c, S)
      BY <1>10 DEF Exact, DomainOf, S
    <2>2. TotalsOver(d, R).fee \in 0..U64Max
      BY <1>4, <1>6, PartOfFees DEF CtxInv, R
    <2>3. TotalsOver(d, R).fee = c.domain.fee + OrZero(p.fee)
      BY <1>6, <2>1 DEF R, Plus
    <2>4. m = TotalsOver(d, R)
      BY <1>6, <2>1, <2>2, <2>3, QtyAssumption DEF SaturatingAdd, m, R, Plus
    <2> QED BY <1>3, <1>5, <1>7, <1>10, <2>4 DEF Exact, DomainOf, counted
  <1> QED BY <1>8, <1>9, <1>10 DEF e

-----------------------------------------------------------------------------
(* Work records                                                            *)

\* Where a handler starts: a context and the fills its event carries.
Origin(g) == CtxBase(g.ctx) /\ g.fills \subseteq FillRecord

\* What was known of a fill_id before the handler, or came with the event.
Told(g, f) == ({g.ctx.applied_fills[f]} \ {None}) \cup {x \in g.fills : x.id = f}

\* Every applied fill is one of those it was told of; venue and fee may come
\* from different reports of it.
Sourced(g, c) ==
    \A f \in FillIds :
      LET fill == c.applied_fills[f] IN
      fill # None =>
        /\ \E y \in Told(g, f) : fill.qty = y.qty /\ fill.price = y.price /\ fill.ts = y.ts
        /\ \E y \in Told(g, f) : fill.venue = y.venue
        /\ \E y \in Told(g, f) : fill.fee = y.fee

\* A context reached from where the handler started.
Since(g, c) == Origin(g) /\ Grows(g.ctx, c) /\ Sourced(g, c)

IsLog(log) == \E S : log \in Seq(S)

WorkTyped(w) ==
    /\ w \in [ctx : {w.ctx}, log : {w.log}, qty : Nat, fee : Nat,
              asks : SUBSET Requests, hold : {"Keep"}]
    /\ IsLog(w.log)

\* The records of a log that the wire registry reads.
Reserved == {"VenueBoundCid", "OrderTerminal", "OwnActionCid"}
Marks(log) == {r \in {log[i] : i \in DOMAIN log} : r.rec \in Reserved}

\* What a binding since context c has to be logged as.
BindMarks(c, d) ==
    IF d.venue_order_id = c.venue_order_id THEN {} ELSE {VenueBoundRecord(d.venue_order_id)}

\* While a handler runs, the log tells of a new binding and of nothing else.
Traced(g, w) == Marks(w.log) = BindMarks(g.ctx, w.ctx)

\* What the effects book is what the context has gained.
BooksMatch(g, w) ==
    /\ w.ctx.attributed_fill_qty = g.ctx.attributed_fill_qty + w.qty
    /\ w.ctx.attributed_fee = g.ctx.attributed_fee + w.fee

\* What a handler keeps of the domain sums, where its origin claims they are exact.
Claimed(g, c) == g.exact => Exact(c)

WorkInv(g, w) ==
    /\ WorkTyped(w) /\ CtxInv(w.ctx) /\ Since(g, w.ctx) /\ BooksMatch(g, w)
    /\ Claimed(g, w.ctx) /\ Traced(g, w)

\* The same origin, for the steps between which the sums are not exact.
Relaxed(g) == [ctx |-> g.ctx, fills |-> g.fills, standing |-> g.standing, exact |-> FALSE]

\* A work record reached from another by operations of a handler.
Follows(g, w, x) == WorkInv(g, x) /\ Grows(w.ctx, x.ctx)

\* Evidence that grows in two steps grows.
LEMMA GrowsTransitive ==
  ASSUME NEW b, NEW c, NEW d, CtxBase(b), CtxBase(c), CtxBase(d), Grows(b, c), Grows(c, d)
  PROVE  Grows(b, d)
  <1>1. \A f \in FillIds : Kept(b.applied_fills[f], d.applied_fills[f])
    BY DEF Grows, Kept
  <1> QED BY <1>1, Numbers DEF Grows

\* Two pieces of a handler compose.
LEMMA FollowsTransitive ==
  ASSUME NEW g, NEW w, NEW x, NEW y, WorkInv(g, w), Follows(g, w, x), Follows(g, x, y)
  PROVE  Follows(g, w, y)
  BY GrowsTransitive DEF Follows, WorkInv, CtxInv

\* Under the relaxed origin only the claim is missing.
LEMMA RelaxWork ==
  ASSUME NEW g, NEW w
  PROVE  /\ WorkInv(g, w) <=> WorkInv(Relaxed(g), w) /\ Claimed(g, w.ctx)
         /\ \A c : Since(Relaxed(g), c) <=> Since(g, c)
  <1> DEFINE h == Relaxed(g)
  <1>1. h.ctx = g.ctx /\ h.fills = g.fills /\ ~ h.exact
    BY DEF Relaxed
  <1> HIDE DEF h
  <1>2. \A c : Since(h, c) <=> Since(g, c)
    <2>1. \A f : Told(h, f) = Told(g, f)
      BY <1>1 DEF Told
    <2>2. \A c : Sourced(h, c) <=> Sourced(g, c)
      BY <2>1 DEF Sourced
    <2>3. Origin(h) <=> Origin(g)
      BY <1>1 DEF Origin
    <2> QED BY <1>1, <2>2, <2>3 DEF Since
  <1>3. BooksMatch(h, w) <=> BooksMatch(g, w)
    BY <1>1 DEF BooksMatch
  <1>4. Claimed(h, w.ctx)
    BY <1>1 DEF Claimed
  <1>5. Traced(h, w) <=> Traced(g, w)
    BY <1>1 DEF Traced
  <1> QED BY <1>2, <1>3, <1>4, <1>5 DEF WorkInv, h

\* So is it for what follows.
LEMMA RelaxFollows ==
  ASSUME NEW g, NEW w, NEW x, Follows(Relaxed(g), w, x), Claimed(g, x.ctx)
  PROVE  Follows(g, w, x)
  BY RelaxWork DEF Follows

\* The handler starts at its origin.
LEMMA SinceStart ==
  ASSUME NEW c, CtxBase(c), NEW g, g.ctx = c, g.fills \subseteq FillRecord
  PROVE  Since(g, c)
  BY GrowsReflexive DEF Since, Origin, Sourced, Told, Quiet

\* An operation that leaves the fills alone stays within what was told.
LEMMA SinceQuiet ==
  ASSUME NEW g, NEW c, NEW d, CtxBase(c), CtxBase(d), Since(g, c), Grows(c, d), SameBooks(c, d)
  PROVE  Since(g, d)
  <1>1. Grows(g.ctx, d)
    BY GrowsTransitive DEF Since, Origin
  <1>2. Sourced(g, d)
    BY DEF Since, Sourced, SameBooks
  <1> QED BY <1>1, <1>2 DEF Since

\* So does booking a fill of the event.
LEMMA SinceBook ==
  ASSUME NEW g, NEW c, CtxInv(c), Since(g, c), NEW f \in g.fills,
         FirstSightError(c, f) = None, c.applied_fills[f.id] = None
  PROVE  Since(g, BookFill(c, f))
  <1> DEFINE d == BookFill(c, f)
  <1>1. f \in FillRecord /\ f.id \in FillIds
    BY DEF Since, Origin, FillRecord
  <1>2. /\ CtxBase(d) /\ Grows(c, d)
        /\ d.applied_fills = [c.applied_fills EXCEPT ![f.id] = PayloadOf(f)]
    BY <1>1, BookBase
  <1> HIDE DEF d
  <1>3. Grows(g.ctx, d)
    BY <1>2, GrowsTransitive DEF Since, Origin, CtxInv
  <1>4. c.applied_fills \in [FillIds -> Opt(Payload)]
    BY DEF CtxInv, CtxBase, CtxTyped
  <1>5. Sourced(g, d)
    <2> SUFFICES ASSUME NEW i \in FillIds, d.applied_fills[i] # None
                 PROVE  LET fill == d.applied_fills[i] IN
                        /\ \E y \in Told(g, i) :
                             fill.qty = y.qty /\ fill.price = y.price /\ fill.ts = y.ts
                        /\ \E y \in Told(g, i) : fill.venue = y.venue
                        /\ \E y \in Told(g, i) : fill.fee = y.fee
      BY DEF Sourced
    <2>1. CASE i # f.id
      BY <1>2, <1>4, <2>1 DEF Since, Sourced
    <2>2. CASE i = f.id
      <3>1. f \in Told(g, i) /\ d.applied_fills[i] = PayloadOf(f)
        BY <1>1, <1>2, <1>4, <2>2 DEF Told
      <3> QED BY <3>1 DEF PayloadOf
    <2> QED BY <2>1, <2>2
  <1> QED BY <1>3, <1>5 DEF Since, d

\* And learning the venue or the fee of a known one from it.
LEMMA SinceEnrich ==
  ASSUME NEW g, NEW c, CtxInv(c), Since(g, c), NEW f \in g.fills,
         c.applied_fills[f.id] # None, RedeliveryError(c, f) = None
  PROVE  Since(g, EnrichFill(c, f))
  <1> DEFINE d == EnrichFill(c, f)
             prev == c.applied_fills[f.id]
  <1>1. f \in FillRecord /\ f.id \in FillIds
    BY DEF Since, Origin, FillRecord
  <1>2. CtxInv(d) /\ Grows(c, d)
    BY <1>1, EnrichInv
  <1>3. PICK venue \in {prev.venue, f.venue}, fee \in {prev.fee, f.fee} :
          d.applied_fills
            = [c.applied_fills EXCEPT ![f.id] = [prev EXCEPT !.venue = venue, !.fee = fee]]
    BY <1>1, EnrichInv
  <1> HIDE DEF d
  <1>4. Grows(g.ctx, d)
    BY <1>2, GrowsTransitive DEF Since, Origin, CtxInv
  <1>5. c.applied_fills \in [FillIds -> Opt(Payload)] /\ prev \in Payload
    BY <1>1 DEF CtxInv, CtxBase, CtxTyped, Opt
  <1>6. Sourced(g, d)
    <2> SUFFICES ASSUME NEW i \in FillIds, d.applied_fills[i] # None
                 PROVE  LET fill == d.applied_fills[i] IN
                        /\ \E y \in Told(g, i) :
                             fill.qty = y.qty /\ fill.price = y.price /\ fill.ts = y.ts
                        /\ \E y \in Told(g, i) : fill.venue = y.venue
                        /\ \E y \in Told(g, i) : fill.fee = y.fee
      BY DEF Sourced
    <2>1. CASE i # f.id
      BY <1>3, <1>5, <2>1 DEF Since, Sourced
    <2>2. CASE i = f.id
      <3> DEFINE known == d.applied_fills[i]
      <3>1. /\ known.qty = prev.qty /\ known.price = prev.price /\ known.ts = prev.ts
            /\ known.venue = venue /\ known.fee = fee
        BY <1>1, <1>3, <1>5, <2>2 DEF Payload
      <3>2. f \in Told(g, i)
        BY <2>2 DEF Told
      <3>3. /\ \E y \in Told(g, i) : prev.qty = y.qty /\ prev.price = y.price /\ prev.ts = y.ts
            /\ \E y \in Told(g, i) : prev.venue = y.venue
            /\ \E y \in Told(g, i) : prev.fee = y.fee
        BY <2>2 DEF Since, Sourced
      <3> QED BY <1>3, <3>1, <3>2, <3>3
    <2> QED BY <2>1, <2>2
  <1> QED BY <1>4, <1>6 DEF Since, d

\* No work has been done.
LEMMA NoWorkTyped ==
  ASSUME NEW c
  PROVE  /\ WorkTyped(NoWork(c)) /\ NoWork(c).ctx = c /\ NoWork(c).qty = 0
         /\ NoWork(c).fee = 0 /\ NoWork(c).log = <<>> /\ Marks(NoWork(c).log) = {}
  <1>1. IsLog(<<>>)
    <2>1. <<>> \in Seq({})
      OBVIOUS
    <2> QED BY <2>1 DEF IsLog
  <1>2. Marks(<<>>) = {}
    BY DEF Marks
  <1> QED BY <1>1, <1>2 DEF NoWork, WorkTyped

\* A log with one record more.
LEMMA LogGrows ==
  ASSUME NEW log, IsLog(log), NEW r
  PROVE  /\ IsLog(Append(log, r))
         /\ Marks(Append(log, r)) = IF r.rec \in Reserved THEN Marks(log) \cup {r}
                                   ELSE Marks(log)
  <1>1. PICK S : log \in Seq(S)
    BY DEF IsLog
  <1> DEFINE T == S \cup {r}
             more == Append(log, r)
  <1>2. log \in Seq(T) /\ r \in T
    BY <1>1
  <1> HIDE DEF T
  <1>3. /\ more \in Seq(T) /\ Len(log) \in Nat
        /\ DOMAIN log = 1..Len(log) /\ DOMAIN more = 1..(Len(log) + 1)
        /\ more[Len(log) + 1] = r
        /\ \A i \in 1..Len(log) : more[i] = log[i]
    BY <1>2
  <1> HIDE DEF more
  <1>4. {more[i] : i \in DOMAIN more} = {log[i] : i \in DOMAIN log} \cup {r}
    BY <1>3
  <1>5. IsLog(more)
    BY <1>3 DEF IsLog
  <1> QED BY <1>4, <1>5 DEF Marks, more

\* Appending a record leaves the context alone.
LEMMA AppendWork ==
  ASSUME NEW w, WorkTyped(w), NEW r
  PROVE  /\ WorkTyped(AppendFsync(w, r))
         /\ AppendFsync(w, r).ctx = w.ctx
         /\ AppendFsync(w, r).qty = w.qty /\ AppendFsync(w, r).fee = w.fee
         /\ Marks(AppendFsync(w, r).log) = IF r.rec \in Reserved THEN Marks(w.log) \cup {r}
                                          ELSE Marks(w.log)
  <1>1. AppendFsync(w, r).log = Append(w.log, r)
    BY DEF WorkTyped, AppendFsync
  <1>2. /\ IsLog(Append(w.log, r))
        /\ Marks(Append(w.log, r)) = IF r.rec \in Reserved THEN Marks(w.log) \cup {r}
                                    ELSE Marks(w.log)
    BY LogGrows DEF WorkTyped
  <1> QED BY <1>1, <1>2 DEF WorkTyped, AppendFsync

\* One that the registry does not read.
LEMMA AppendOther ==
  ASSUME NEW w, WorkTyped(w), NEW r, r.rec \notin Reserved
  PROVE  /\ WorkTyped(AppendFsync(w, r)) /\ AppendFsync(w, r).ctx = w.ctx
         /\ AppendFsync(w, r).qty = w.qty /\ AppendFsync(w, r).fee = w.fee
         /\ Marks(AppendFsync(w, r).log) = Marks(w.log)
  BY AppendWork

\* The records of a handler that the registry does not read.
LEMMA Unreserved ==
  /\ \A v, r : SubmitResponseRecord(v, r).rec \notin Reserved
  /\ \A v, r : UnattributedRecord(v, r).rec \notin Reserved
  /\ \A f : FillRecordCid(f).rec \notin Reserved
  /\ \A f : FeeCorrectionRecord(f).rec \notin Reserved
  /\ CancelRecord.rec \notin Reserved
  /\ \A c : ObligationRaisedRecord(c).rec \notin Reserved
  /\ \A c : AuthorityLatchedRecord(c).rec \notin Reserved
  /\ \A c : AuthorityInvalidatedRecord(c).rec \notin Reserved
  /\ \A c, v, filled, remaining, others, complete :
       ReconcileObservedRecord(c, v, filled, remaining, others, complete).rec \notin Reserved
  BY DEF Reserved, SubmitResponseRecord, UnattributedRecord, FillRecordCid, FeeCorrectionRecord,
     CancelRecord, ObligationRaisedRecord, AuthorityLatchedRecord,
     AuthorityInvalidatedRecord, ReconcileObservedRecord

\* A change of the context changes nothing else of the work.
LEMMA ContextWork ==
  ASSUME NEW w, WorkTyped(w), NEW c
  PROVE  /\ WorkTyped([w EXCEPT !.ctx = c]) /\ [w EXCEPT !.ctx = c].ctx = c
         /\ [w EXCEPT !.ctx = c].qty = w.qty /\ [w EXCEPT !.ctx = c].fee = w.fee
         /\ [w EXCEPT !.ctx = c].log = w.log
  BY DEF WorkTyped

\* An operation that leaves the books alone is a piece of a handler, if it
\* leaves the claim about the domain sums true.
LEMMA FrameWork ==
  ASSUME NEW g, NEW w, WorkInv(g, w), NEW x, WorkTyped(x), CtxInv(x.ctx),
         Grows(w.ctx, x.ctx), SameBooks(w.ctx, x.ctx), x.qty = w.qty, x.fee = w.fee,
         Claimed(g, x.ctx), Traced(g, x)
  PROVE  Follows(g, w, x)
  <1>1. BooksMatch(g, x)
    BY DEF BooksMatch, WorkInv, SameBooks
  <1> QED BY <1>1, SinceQuiet DEF Follows, WorkInv, CtxInv

\* It does where it leaves what the sums depend on alone too.
LEMMA QuietWork ==
  ASSUME NEW g, NEW w, WorkInv(g, w), NEW x, WorkTyped(x), CtxInv(x.ctx), Quiet(w.ctx, x.ctx),
         x.qty = w.qty, x.fee = w.fee, Marks(x.log) = Marks(w.log)
  PROVE  Follows(g, w, x)
  <1>1. Claimed(g, x.ctx)
    BY ExactFrame DEF WorkInv, Claimed, Quiet
  <1>2. Traced(g, x)
    BY DEF WorkInv, Traced, BindMarks, Quiet
  <1> QED BY <1>1, <1>2, FrameWork DEF Quiet

\* In particular, to put such a context into the work.
LEMMA FrameContext ==
  ASSUME NEW g, NEW w, WorkInv(g, w), NEW d, CtxInv(d), Grows(w.ctx, d), SameBooks(w.ctx, d),
         Claimed(g, d), d.venue_order_id = w.ctx.venue_order_id
  PROVE  /\ Follows(g, w, [w EXCEPT !.ctx = d]) /\ WorkInv(g, [w EXCEPT !.ctx = d])
         /\ [w EXCEPT !.ctx = d].ctx = d
  <1> DEFINE x == [w EXCEPT !.ctx = d]
  <1>1. WorkTyped(x) /\ x.ctx = d /\ x.qty = w.qty /\ x.fee = w.fee /\ x.log = w.log
    BY ContextWork DEF WorkInv
  <1> HIDE DEF x
  <1>2. Traced(g, x)
    BY <1>1 DEF WorkInv, Traced, BindMarks
  <1> QED BY <1>1, <1>2, FrameWork DEF Follows, x

\* And to put one that leaves the sums alone.
LEMMA QuietContext ==
  ASSUME NEW g, NEW w, WorkInv(g, w), NEW d, CtxInv(d), Quiet(w.ctx, d)
  PROVE  /\ Follows(g, w, [w EXCEPT !.ctx = d]) /\ WorkInv(g, [w EXCEPT !.ctx = d])
         /\ [w EXCEPT !.ctx = d].ctx = d
  <1>1. Claimed(g, d)
    BY ExactFrame DEF WorkInv, Claimed, Quiet
  <1> QED BY <1>1, FrameContext DEF Quiet

\* A request to the shell leaves the context alone.
LEMMA AskWork ==
  ASSUME NEW g, NEW w, WorkInv(g, w), NEW S \in SUBSET Requests
  PROVE  WorkInv(g, Ask(w, S)) /\ Ask(w, S).ctx = w.ctx
  <1>1. WorkTyped(Ask(w, S)) /\ Ask(w, S).ctx = w.ctx
        /\ Ask(w, S).qty = w.qty /\ Ask(w, S).fee = w.fee /\ Ask(w, S).log = w.log
    BY DEF WorkInv, WorkTyped, Ask
  <1> QED BY <1>1 DEF WorkInv, BooksMatch, Traced

\* So does a record of the journal.
LEMMA LogWork ==
  ASSUME NEW g, NEW w, WorkInv(g, w), NEW r, r.rec \notin Reserved
  PROVE  WorkInv(g, AppendFsync(w, r)) /\ AppendFsync(w, r).ctx = w.ctx
  BY AppendWork DEF WorkInv, BooksMatch, Traced

\* bind_venue_id, where it succeeds, keeps the invariant and binds v.
LEMMA BindWork ==
  ASSUME NEW g, NEW w, WorkInv(g, w), NEW v \in Venues, BindError(w.ctx, v) = None
  PROVE  /\ Follows(g, w, bind_venue_id(w, v))
         /\ bind_venue_id(w, v).ctx.venue_order_id = v
         /\ bind_venue_id(w, v).ctx.authority_complete = w.ctx.authority_complete
  <1>1. CASE w.ctx.venue_order_id = None
    <2> DEFINE x == [w EXCEPT !.ctx = Bind(w.ctx, v)]
    <2>2. WorkTyped(x) /\ x.ctx = Bind(w.ctx, v) /\ x.qty = w.qty /\ x.fee = w.fee
          /\ x.log = w.log
      BY ContextWork DEF WorkInv
    <2>3. bind_venue_id(w, v) = AppendFsync(x, VenueBoundRecord(v))
      BY <1>1 DEF bind_venue_id
    <2>4. VenueBoundRecord(v).rec \in Reserved
      BY DEF VenueBoundRecord, Reserved
    <2> HIDE DEF x
    <2> DEFINE y == bind_venue_id(w, v)
    <2>5. /\ WorkTyped(y) /\ y.ctx = Bind(w.ctx, v) /\ y.qty = w.qty /\ y.fee = w.fee
          /\ Marks(y.log) = Marks(w.log) \cup {VenueBoundRecord(v)}
      BY <2>2, <2>3, <2>4, AppendWork
    <2> HIDE DEF y
    <2>6. /\ CtxInv(y.ctx) /\ Grows(w.ctx, y.ctx) /\ SameBooks(w.ctx, y.ctx)
          /\ SameDomain(w.ctx, y.ctx) /\ y.ctx.venue_order_id = v
          /\ y.ctx.authority_complete = w.ctx.authority_complete
      BY <1>1, <2>5, BindInv DEF WorkInv
    <2>7. Traced(g, y)
      <3>1. g.ctx.venue_order_id = None
        BY <1>1 DEF WorkInv, Since, Grows
      <3>2. v # None
        BY NoneAssumption
      <3>3. Marks(w.log) = {}
        BY <1>1, <3>1 DEF WorkInv, Traced, BindMarks
      <3> QED BY <2>5, <2>6, <3>1, <3>2, <3>3 DEF Traced, BindMarks
    <2>8. Claimed(g, y.ctx)
      BY <2>6, ExactFrame DEF WorkInv, Claimed
    <2> QED BY <2>5, <2>6, <2>7, <2>8, FrameWork DEF y
  <1>2. CASE w.ctx.venue_order_id # None
    <2>1. "OwnershipConflict" # None
      BY NoneAssumption DEF HaltReason
    <2>2. w.ctx.venue_order_id = v
      BY <1>2, <2>1 DEF BindError
    <2>3. Grows(w.ctx, w.ctx)
      BY GrowsReflexive DEF Quiet, WorkInv, CtxInv
    <2> QED BY <1>2, <2>2, <2>3 DEF bind_venue_id, Follows
  <1> QED BY <1>1, <1>2

\* note_fill_evidence, from a context whose attribution the raise covers.
LEMMA EvidenceBase ==
  ASSUME NEW g, NEW w, WorkTyped(w), CtxBase(w.ctx), Since(g, w.ctx), NEW e \in Nat, ~ RaiseFails(e),
         \/ w.ctx.attributed_fill_qty <= e
         \/ w.ctx.attributed_fill_qty <= w.ctx.fill_obligation
  PROVE  LET x == note_fill_evidence(w, e)
         IN /\ WorkTyped(x) /\ x.qty = w.qty /\ x.fee = w.fee
            /\ Marks(x.log) = Marks(w.log)
            /\ CtxInv(x.ctx) /\ Since(g, x.ctx) /\ Quiet(w.ctx, x.ctx)
            /\ x.ctx.fill_obligation >= e
            /\ x.ctx.authority_complete => w.ctx.authority_complete
  <1> DEFINE x == [w EXCEPT !.ctx = raise_fill_obligation(w.ctx, e)]
  <1>1. WorkTyped(x) /\ x.ctx = raise_fill_obligation(w.ctx, e) /\ x.qty = w.qty /\ x.fee = w.fee
        /\ x.log = w.log
    BY ContextWork
  <1>2. note_fill_evidence(w, e) \in {x, AppendFsync(x, ObligationRaisedRecord(x.ctx))}
    BY DEF note_fill_evidence
  <1> HIDE DEF x
  <1>3. ObligationRaisedRecord(x.ctx).rec \notin Reserved
    BY Unreserved
  <1>4. /\ WorkTyped(note_fill_evidence(w, e)) /\ note_fill_evidence(w, e).ctx = x.ctx
        /\ note_fill_evidence(w, e).qty = w.qty /\ note_fill_evidence(w, e).fee = w.fee
        /\ Marks(note_fill_evidence(w, e).log) = Marks(w.log)
    <2> DEFINE r == ObligationRaisedRecord(x.ctx)
               y == AppendFsync(x, r)
    <2> HIDE DEF r
    <2>1. /\ WorkTyped(y) /\ y.ctx = x.ctx /\ y.qty = x.qty /\ y.fee = x.fee
          /\ Marks(y.log) = Marks(x.log)
      BY <1>1, <1>3, AppendOther DEF r
    <2>2. note_fill_evidence(w, e) \in {x, y}
      BY <1>2 DEF r
    <2> HIDE DEF y
    <2> QED BY <1>1, <2>1, <2>2
  <1>5. /\ CtxInv(x.ctx) /\ Quiet(w.ctx, x.ctx) /\ x.ctx.fill_obligation >= e
        /\ x.ctx.authority_complete => w.ctx.authority_complete
    BY <1>1, RaiseInv
  <1>6. Since(g, x.ctx)
    BY <1>5, SinceQuiet DEF CtxInv, Quiet
  <1> QED BY <1>4, <1>5, <1>6

\* In a handler, whose attribution never exceeds the obligation, it always is.
LEMMA EvidenceWork ==
  ASSUME NEW g, NEW w, WorkInv(g, w), NEW e \in Nat, ~ RaiseFails(e)
  PROVE  /\ Follows(g, w, note_fill_evidence(w, e))
         /\ note_fill_evidence(w, e).ctx.fill_obligation >= e
         /\ note_fill_evidence(w, e).ctx.authority_complete => w.ctx.authority_complete
  <1> DEFINE x == note_fill_evidence(w, e)
  <1>1. /\ WorkTyped(x) /\ x.qty = w.qty /\ x.fee = w.fee /\ Marks(x.log) = Marks(w.log)
        /\ CtxInv(x.ctx) /\ Quiet(w.ctx, x.ctx)
        /\ x.ctx.fill_obligation >= e
        /\ x.ctx.authority_complete => w.ctx.authority_complete
    BY EvidenceBase DEF WorkInv, CtxInv
  <1> HIDE DEF x
  <1>2. Follows(g, w, x)
    BY <1>1, QuietWork
  <1> QED BY <1>1, <1>2 DEF x

\* The evidence of a create response or a cancel outcome keeps it too.
LEMMA ResponseEvidenceWork ==
  ASSUME NEW g, NEW w, WorkInv(g, w), NEW e \in Nat, ~ RaiseFails(e)
  PROVE  /\ Follows(g, w, NoteResponseEvidence(w, e))
         /\ NoteResponseEvidence(w, e).ctx.authority_complete => w.ctx.authority_complete
  <1> DEFINE x == note_fill_evidence(w, e)
  <1>1. Follows(g, w, x) /\ (x.ctx.authority_complete => w.ctx.authority_complete)
    BY EvidenceWork
  <1>3. NoteResponseEvidence(w, e) \in {x, AppendFsync(x, AuthorityInvalidatedRecord(x.ctx))}
    BY DEF NoteResponseEvidence
  <1> HIDE DEF x
  <1>4. WorkInv(g, NoteResponseEvidence(w, e)) /\ NoteResponseEvidence(w, e).ctx = x.ctx
    BY <1>1, <1>3, LogWork, Unreserved DEF Follows
  <1> QED BY <1>1, <1>4 DEF Follows

\* Latching the authority keeps it.
LEMMA AuthorityWork ==
  ASSUME NEW g, NEW w, WorkInv(g, w), NEW complete
  PROVE  Follows(g, w, note_authority_complete(w, complete))
  <1> DEFINE x == [w EXCEPT !.ctx = latch_authority_complete(w.ctx)]
  <1>1. WorkTyped(x) /\ x.ctx = latch_authority_complete(w.ctx) /\ x.qty = w.qty /\ x.fee = w.fee
        /\ x.log = w.log
    BY ContextWork DEF WorkInv
  <1>2. \/ note_authority_complete(w, complete) = AppendFsync(x, AuthorityLatchedRecord(x.ctx))
        \/ note_authority_complete(w, complete) = w
    BY DEF note_authority_complete
  <1> HIDE DEF x
  <1>3. CASE note_authority_complete(w, complete) = w
    BY <1>3, GrowsReflexive DEF Follows, Quiet, WorkInv, CtxInv
  <1>4. CASE note_authority_complete(w, complete) = AppendFsync(x, AuthorityLatchedRecord(x.ctx))
    <2>1. /\ WorkTyped(note_authority_complete(w, complete))
          /\ note_authority_complete(w, complete).ctx = latch_authority_complete(w.ctx)
          /\ note_authority_complete(w, complete).qty = w.qty
          /\ note_authority_complete(w, complete).fee = w.fee
          /\ Marks(note_authority_complete(w, complete).log) = Marks(w.log)
      <3>1. AuthorityLatchedRecord(x.ctx).rec \notin Reserved
        BY Unreserved
      <3> DEFINE r == AuthorityLatchedRecord(x.ctx)
                 y == AppendFsync(x, r)
      <3> HIDE DEF r
      <3>2. /\ WorkTyped(y) /\ y.ctx = x.ctx /\ y.qty = x.qty /\ y.fee = x.fee
            /\ Marks(y.log) = Marks(x.log)
        BY <1>1, <3>1, AppendOther DEF r
      <3>3. note_authority_complete(w, complete) = y
        BY <1>4 DEF r
      <3> HIDE DEF y
      <3> QED BY <1>1, <3>2, <3>3
    <2> QED BY <2>1, QuietWork, LatchInv DEF WorkInv
  <1> QED BY <1>2, <1>3, <1>4

\* authority_invalidate_effects, also from a context with a fill just booked.
LEMMA InvalidateWork ==
  ASSUME NEW w, WorkTyped(w), CtxBase(w.ctx)
  PROVE  LET x == authority_invalidate_effects(w)
         IN /\ WorkTyped(x) /\ x.qty = w.qty /\ x.fee = w.fee
            /\ Marks(x.log) = Marks(w.log)
            /\ CtxBase(x.ctx)
            /\ Quiet(w.ctx, x.ctx)
            /\ x.ctx.fill_obligation = w.ctx.fill_obligation
            /\ x.ctx.attributed_fill_qty = w.ctx.attributed_fill_qty
            /\ ~ x.ctx.authority_complete
  <1> DEFINE y == [w EXCEPT !.ctx = invalidate_authority(w.ctx)]
  <1>1. WorkTyped(y) /\ y.ctx = invalidate_authority(w.ctx) /\ y.qty = w.qty /\ y.fee = w.fee
        /\ y.log = w.log
    BY ContextWork
  <1>2. authority_invalidate_effects(w) = AppendFsync(y, AuthorityInvalidatedRecord(y.ctx))
    BY DEF authority_invalidate_effects
  <1> HIDE DEF y
  <1>3. AuthorityInvalidatedRecord(y.ctx).rec \notin Reserved
    BY Unreserved
  <1>4. LET x == AppendFsync(y, AuthorityInvalidatedRecord(y.ctx))
        IN /\ WorkTyped(x) /\ x.qty = w.qty /\ x.fee = w.fee /\ x.ctx = y.ctx
           /\ Marks(x.log) = Marks(w.log)
    BY <1>1, <1>3, AppendWork
  <1> QED BY <1>1, <1>2, <1>4, InvalidateBase

\* What the state repeats, and the domain sums, stay.
SameReply(c, d) ==
    /\ d.attributed_fill_qty = c.attributed_fill_qty
    /\ d.response = c.response
    /\ d.domain = c.domain

\* The journal, the binding, the obligation and the authority do not touch them.
LEMMA OperationsReply ==
  ASSUME NEW w, WorkTyped(w), CtxTyped(w.ctx)
  PROVE  /\ \A r : SameReply(w.ctx, AppendFsync(w, r).ctx)
         /\ \A v : SameReply(w.ctx, bind_venue_id(w, v).ctx)
         /\ \A e : SameReply(w.ctx, note_fill_evidence(w, e).ctx)
         /\ \A e : SameReply(w.ctx, NoteResponseEvidence(w, e).ctx)
         /\ SameReply(w.ctx, authority_invalidate_effects(w).ctx)
  <1> DEFINE c == w.ctx
  <1>1. \A d : WorkTyped([w EXCEPT !.ctx = d]) /\ [w EXCEPT !.ctx = d].ctx = d
    BY ContextWork
  <1>2. \A x, r : WorkTyped(x) => WorkTyped(AppendFsync(x, r)) /\ AppendFsync(x, r).ctx = x.ctx
    BY AppendWork
  <1>3. \A v : SameReply(c, Bind(c, v))
    BY DEF CtxTyped, Bind, SameReply
  <1>4. SameReply(c, invalidate_authority(c))
    BY DEF CtxTyped, invalidate_authority, SameReply
  <1>5. \A e : SameReply(c, raise_fill_obligation(c, e))
    BY DEF CtxTyped, raise_fill_obligation, invalidate_authority, SameReply
  <1>6. SameReply(c, c)
    BY DEF SameReply
  <1> HIDE DEF c
  <1>7. \A r : SameReply(c, AppendFsync(w, r).ctx)
    BY <1>2, <1>6 DEF c
  <1>8. ASSUME NEW v  PROVE SameReply(c, bind_venue_id(w, v).ctx)
    <2> DEFINE x == [w EXCEPT !.ctx = Bind(c, v)]
    <2>1. WorkTyped(x) /\ x.ctx = Bind(c, v)
      BY <1>1
    <2>2. bind_venue_id(w, v) \in {AppendFsync(x, VenueBoundRecord(v)), w}
      BY DEF bind_venue_id, c
    <2> HIDE DEF x
    <2>3. AppendFsync(x, VenueBoundRecord(v)).ctx = Bind(c, v)
      BY <2>1, <1>2
    <2>4. SameReply(c, w.ctx)
      BY <1>6 DEF c
    <2> QED BY <2>2, <2>3, <2>4, <1>3
  <1>9. \A e : /\ SameReply(c, note_fill_evidence(w, e).ctx)
               /\ WorkTyped(note_fill_evidence(w, e))
    BY <1>1, <1>2, <1>5 DEF note_fill_evidence, c
  <1>10. \A e : SameReply(c, NoteResponseEvidence(w, e).ctx)
    BY <1>2, <1>9 DEF NoteResponseEvidence
  <1>11. SameReply(c, authority_invalidate_effects(w).ctx)
    BY <1>1, <1>2, <1>4 DEF authority_invalidate_effects, c
  <1> QED BY <1>7, <1>8, <1>9, <1>10, <1>11 DEF c

-----------------------------------------------------------------------------
(* Accounting fills                                                        *)

AttemptInv(g, w, a) ==
    /\ a.tag \in {"NoOp", "Applied", "Enriched", "Halt"}
    /\ Follows(g, w, a.work)
    /\ a.tag = "Halt" => a.reason \in HaltReason
    /\ a.tag \in {"NoOp", "Enriched"} => GateFrame(w.ctx, a.work.ctx)
    /\ a.work.ctx.response = w.ctx.response

\* A handler that does nothing follows itself.
LEMMA Reflexive ==
  ASSUME NEW g, NEW w, WorkInv(g, w)
  PROVE  Follows(g, w, w) /\ GateFrame(w.ctx, w.ctx)
  BY GrowsReflexive DEF Follows, Quiet, WorkInv, CtxInv, GateFrame

\* AccountFill and AccountFeeCorrection only add to what is booked.
LEMMA AccountWork ==
  ASSUME NEW w, WorkTyped(w), NEW f \in FillRecord
  PROVE  /\ WorkTyped(AccountFill(w, f)) /\ AccountFill(w, f).ctx = w.ctx
         /\ AccountFill(w, f).qty = w.qty + f.qty
         /\ AccountFill(w, f).fee = w.fee + OrZero(f.fee)
         /\ AccountFill(w, f).log = w.log
         /\ f.fee # None => /\ WorkTyped(AccountFeeCorrection(w, f.fee))
                            /\ AccountFeeCorrection(w, f.fee).ctx = w.ctx
                            /\ AccountFeeCorrection(w, f.fee).qty = w.qty
                            /\ AccountFeeCorrection(w, f.fee).fee = w.fee + f.fee
                            /\ AccountFeeCorrection(w, f.fee).log = w.log
  <1>1. f.qty \in Nat /\ OrZero(f.fee) \in Nat /\ (f.fee # None => f.fee \in Nat)
    BY QtyAssumption DEF FillRecord, Opt, OrZero
  <1>2. w.qty \in Nat /\ w.fee \in Nat
    BY DEF WorkTyped
  <1>3. ASSUME NEW q \in Nat, NEW e \in Nat
        PROVE  /\ WorkTyped([w EXCEPT !.qty = q, !.fee = e])
               /\ [w EXCEPT !.qty = q, !.fee = e].ctx = w.ctx
               /\ [w EXCEPT !.qty = q, !.fee = e].qty = q
               /\ [w EXCEPT !.qty = q, !.fee = e].fee = e
               /\ [w EXCEPT !.qty = q, !.fee = e].log = w.log
               /\ WorkTyped([w EXCEPT !.fee = e])
               /\ [w EXCEPT !.fee = e].ctx = w.ctx
               /\ [w EXCEPT !.fee = e].qty = w.qty
               /\ [w EXCEPT !.fee = e].fee = e
               /\ [w EXCEPT !.fee = e].log = w.log
    BY DEF WorkTyped
  <1>4. /\ WorkTyped(AccountFill(w, f)) /\ AccountFill(w, f).ctx = w.ctx
        /\ AccountFill(w, f).qty = w.qty + f.qty
        /\ AccountFill(w, f).fee = w.fee + OrZero(f.fee)
        /\ AccountFill(w, f).log = w.log
    <2>1. w.qty + f.qty \in Nat /\ w.fee + OrZero(f.fee) \in Nat
      BY <1>1, <1>2
    <2> QED BY <2>1, <1>3 DEF AccountFill
  <1>5. ASSUME f.fee # None
        PROVE  /\ WorkTyped(AccountFeeCorrection(w, f.fee))
               /\ AccountFeeCorrection(w, f.fee).ctx = w.ctx
               /\ AccountFeeCorrection(w, f.fee).qty = w.qty
               /\ AccountFeeCorrection(w, f.fee).fee = w.fee + f.fee
               /\ AccountFeeCorrection(w, f.fee).log = w.log
    <2>1. w.fee + f.fee \in Nat
      BY <1>1, <1>2, <1>5
    <2> QED BY <2>1, <1>3 DEF AccountFeeCorrection
  <1> QED BY <1>4, <1>5

\* A new fill: the obligation follows the attribution before anything reads it.
LEMMA ApplyFillInv ==
  ASSUME NEW g, NEW w, WorkInv(g, w), NEW f \in g.fills, FirstSightError(w.ctx, f) = None,
         w.ctx.applied_fills[f.id] = None
  PROVE  AttemptInv(g, w, ApplyFill(w, f))
  <1> DEFINE h == Relaxed(g)
             entered == [w EXCEPT !.ctx = BookFill(w.ctx, f)]
             booked == authority_invalidate_effects(entered)
             raised == note_fill_evidence(booked, booked.ctx.attributed_fill_qty)
             logged == AppendFsync(raised, FillRecordCid(f))
             emitted == AccountFill(logged, f)
             done == [emitted EXCEPT !.ctx = accumulate_response_domain(emitted.ctx, PayloadOf(f))]
  <1>9. WorkInv(h, w) /\ WorkInv(g, w) /\ f \in h.fills /\ ~ h.exact
    BY RelaxWork DEF Relaxed
  <1> HIDE DEF h
  <1>0. ApplyFill(w, f) = IF response_domain_overfill(done.ctx)
                          THEN Attempt("Halt", "CrossCheckMismatch", done)
                          ELSE Attempt("Applied", None, done)
    BY DEF ApplyFill
  <1>1. /\ WorkTyped(entered) /\ CtxBase(entered.ctx) /\ Grows(w.ctx, entered.ctx)
        /\ Since(h, entered.ctx) /\ f \in FillRecord
        /\ entered.ctx.attributed_fill_qty <= Qty
        /\ entered.ctx.attributed_fill_qty = w.ctx.attributed_fill_qty + f.qty
        /\ entered.ctx.attributed_fee = w.ctx.attributed_fee + OrZero(f.fee)
        /\ entered.qty = w.qty /\ entered.fee = w.fee
        /\ entered.ctx.response = w.ctx.response /\ entered.ctx.domain = w.ctx.domain
        /\ entered.ctx.applied_fills = [w.ctx.applied_fills EXCEPT ![f.id] = PayloadOf(f)]
        /\ entered.ctx.venue_order_id = w.ctx.venue_order_id /\ Marks(entered.log) = Marks(w.log)
    <2>1. /\ WorkTyped(entered) /\ entered.ctx = BookFill(w.ctx, f)
          /\ entered.qty = w.qty /\ entered.fee = w.fee /\ Marks(entered.log) = Marks(w.log)
      BY ContextWork DEF WorkInv
    <2>2. f \in FillRecord
      BY <1>9 DEF WorkInv, Since, Origin
    <2>3. Since(h, BookFill(w.ctx, f))
      BY <1>9, SinceBook DEF WorkInv
    <2>4. w.ctx.attributed_fill_qty \in Nat /\ CtxInv(w.ctx)
      BY Numbers DEF WorkInv, CtxInv
    <2>5. /\ CtxBase(BookFill(w.ctx, f)) /\ Grows(w.ctx, BookFill(w.ctx, f))
          /\ BookFill(w.ctx, f).attributed_fill_qty <= Qty
          /\ BookFill(w.ctx, f).attributed_fill_qty = w.ctx.attributed_fill_qty + f.qty
          /\ BookFill(w.ctx, f).attributed_fee = w.ctx.attributed_fee + OrZero(f.fee)
          /\ BookFill(w.ctx, f).applied_fills = [w.ctx.applied_fills EXCEPT ![f.id] = PayloadOf(f)]
      BY <2>2, <2>4, BookBase
    <2>6. /\ BookFill(w.ctx, f).response = w.ctx.response /\ BookFill(w.ctx, f).domain = w.ctx.domain
          /\ BookFill(w.ctx, f).venue_order_id = w.ctx.venue_order_id
      BY DEF BookFill, WorkInv, CtxInv, CtxBase, CtxTyped
    <2> QED BY <2>1, <2>2, <2>3, <2>5, <2>6
  <1> HIDE DEF entered
  <1>2. /\ WorkTyped(booked) /\ CtxBase(booked.ctx) /\ Grows(entered.ctx, booked.ctx)
        /\ Since(h, booked.ctx)
        /\ booked.ctx.attributed_fill_qty <= Qty
        /\ SameBooks(entered.ctx, booked.ctx)
        /\ booked.qty = w.qty /\ booked.fee = w.fee
        /\ booked.ctx.response = w.ctx.response /\ booked.ctx.domain = w.ctx.domain
        /\ booked.ctx.venue_order_id = w.ctx.venue_order_id /\ Marks(booked.log) = Marks(w.log)
    <2>1. /\ WorkTyped(booked) /\ CtxBase(booked.ctx) /\ Quiet(entered.ctx, booked.ctx)
          /\ booked.ctx.attributed_fill_qty <= Qty
          /\ booked.qty = w.qty /\ booked.fee = w.fee /\ Marks(booked.log) = Marks(w.log)
      BY <1>1, InvalidateWork
    <2>2. booked.ctx.response = w.ctx.response /\ booked.ctx.domain = w.ctx.domain
      BY <1>1, OperationsReply DEF CtxBase, SameReply
    <2> HIDE DEF booked
    <2> QED BY <1>1, <2>1, <2>2, SinceQuiet DEF Quiet
  <1> HIDE DEF booked
  <1>3. /\ WorkTyped(raised) /\ CtxInv(raised.ctx) /\ Since(h, raised.ctx)
        /\ Grows(booked.ctx, raised.ctx) /\ SameBooks(booked.ctx, raised.ctx)
        /\ raised.qty = w.qty /\ raised.fee = w.fee
        /\ raised.ctx.response = w.ctx.response /\ raised.ctx.domain = w.ctx.domain
        /\ raised.ctx.venue_order_id = w.ctx.venue_order_id /\ Marks(raised.log) = Marks(w.log)
    <2>1. booked.ctx.attributed_fill_qty \in Nat /\ Qty \in Nat
      BY <1>2, Numbers, QtyAssumption
    <2>2. ~ RaiseFails(booked.ctx.attributed_fill_qty)
      BY <1>2, <2>1 DEF RaiseFails
    <2>3. raised.ctx.response = w.ctx.response /\ raised.ctx.domain = w.ctx.domain
      BY <1>2, OperationsReply DEF CtxBase, SameReply
    <2> HIDE DEF raised
    <2>4. /\ WorkTyped(raised) /\ CtxInv(raised.ctx) /\ Since(h, raised.ctx)
          /\ Quiet(booked.ctx, raised.ctx)
          /\ raised.qty = w.qty /\ raised.fee = w.fee /\ Marks(raised.log) = Marks(w.log)
      BY <1>2, <2>1, <2>2, EvidenceBase DEF raised
    <2> QED BY <1>2, <2>3, <2>4 DEF Quiet
  <1> HIDE DEF raised
  <1>4. /\ WorkTyped(logged) /\ logged.ctx = raised.ctx /\ logged.qty = w.qty /\ logged.fee = w.fee
        /\ Marks(logged.log) = Marks(w.log)
    <2>1. FillRecordCid(f).rec \notin Reserved
      BY Unreserved
    <2> QED BY <1>3, <2>1, AppendWork
  <1> HIDE DEF logged
  <1>5. /\ WorkTyped(emitted) /\ emitted.ctx = raised.ctx /\ Marks(emitted.log) = Marks(w.log)
        /\ emitted.qty = w.qty + f.qty /\ emitted.fee = w.fee + OrZero(f.fee)
    BY <1>1, <1>4, AccountWork
  <1> HIDE DEF emitted
  <1>6. WorkInv(h, emitted)
    <2>1. /\ emitted.ctx.attributed_fill_qty = w.ctx.attributed_fill_qty + f.qty
          /\ emitted.ctx.attributed_fee = w.ctx.attributed_fee + OrZero(f.fee)
      BY <1>1, <1>2, <1>3, <1>5 DEF SameBooks
    <2>2. /\ w.qty \in Nat /\ w.fee \in Nat /\ f.qty \in Nat /\ OrZero(f.fee) \in Nat
          /\ h.ctx.attributed_fill_qty \in Nat /\ h.ctx.attributed_fee \in Nat
      BY <1>1, <1>9, QtyAssumption
      DEF WorkInv, WorkTyped, Since, Origin, CtxBase, CtxTyped, FillRecord, Opt, OrZero
    <2>3. BooksMatch(h, emitted)
      BY <1>5, <1>9, <2>1, <2>2 DEF BooksMatch, WorkInv
    <2>4. Traced(h, emitted)
      BY <1>3, <1>5, <1>9 DEF WorkInv, Traced, BindMarks
    <2> QED BY <1>3, <1>5, <1>9, <2>3, <2>4 DEF WorkInv, Claimed
  <1>8. /\ Follows(h, emitted, done) /\ done.ctx.response = w.ctx.response
        /\ Exact(w.ctx) => Exact(done.ctx)
    <2> DEFINE d == accumulate_response_domain(emitted.ctx, PayloadOf(f))
    <2>1. CtxInv(emitted.ctx)
      BY <1>3, <1>5
    <2>2. CtxInv(d) /\ Grows(emitted.ctx, d) /\ SameBooks(emitted.ctx, d)
      BY <2>1, AccumulateInv
    <2>4. d.response = w.ctx.response /\ d.venue_order_id = emitted.ctx.venue_order_id
      BY <1>3, <1>5, <2>1 DEF accumulate_response_domain, CtxInv, CtxBase, CtxTyped
    <2>5. Exact(w.ctx) => Exact(d)
      <3>1. /\ f.id \in FillIds /\ PayloadOf(f) \in Payload
            /\ emitted.ctx.applied_fills = [w.ctx.applied_fills EXCEPT ![f.id] = PayloadOf(f)]
            /\ emitted.ctx.response = w.ctx.response /\ emitted.ctx.domain = w.ctx.domain
        BY <1>1, <1>2, <1>3, <1>5 DEF SameBooks, FillRecord, PayloadOf, Payload
      <3> QED BY <1>9, <2>1, <3>1, BookExact DEF WorkInv
    <2> HIDE DEF d
    <2>6. Claimed(h, d)
      BY <1>9 DEF Claimed
    <2>3. /\ Follows(h, emitted, [emitted EXCEPT !.ctx = d])
          /\ [emitted EXCEPT !.ctx = d].ctx = d
      BY <1>6, <2>2, <2>4, <2>6, FrameContext
    <2> QED BY <2>3, <2>4, <2>5 DEF d
  <1> HIDE DEF done
  <1>7. Follows(g, w, done)
    <2>1. Grows(w.ctx, emitted.ctx)
      BY <1>1, <1>2, <1>3, <1>5, GrowsTransitive DEF WorkInv, CtxInv
    <2>2. Follows(h, w, done)
      BY <1>6, <1>8, <1>9, <2>1, FollowsTransitive DEF Follows
    <2>3. Claimed(g, done.ctx)
      BY <1>8 DEF Claimed, WorkInv
    <2> QED BY <2>2, <2>3, RelaxFollows DEF h
  <1> QED BY <1>0, <1>7, <1>8 DEF AttemptInv, Attempt, HaltReason

\* A known fill: late metadata, or nothing.
LEMMA UpgradeFillInv ==
  ASSUME NEW g, NEW w, WorkInv(g, w), NEW f \in g.fills,
         w.ctx.applied_fills[f.id] # None, RedeliveryError(w.ctx, f) = None
  PROVE  AttemptInv(g, w, UpgradeFill(w, f))
  <1> DEFINE known == EnrichFill(w.ctx, f).applied_fills[f.id]
             restated == [f EXCEPT !.ts = known.ts, !.fee = known.fee, !.venue = known.venue]
             entered == [w EXCEPT !.ctx = EnrichFill(w.ctx, f)]
             upgraded == AppendFsync(entered, FillRecordCid(restated))
             corrected == AppendFsync(upgraded, FeeCorrectionRecord(f))
  <1>0. \/ UpgradeFill(w, f) = Attempt("NoOp", None, w)
        \/ UpgradeFill(w, f) = Attempt("Enriched", None, upgraded) /\ ~ FeeArrives(w.ctx, f)
        \/ /\ UpgradeFill(w, f) = Attempt("Enriched", None, AccountFeeCorrection(corrected, f.fee))
           /\ FeeArrives(w.ctx, f)
    BY DEF UpgradeFill
  <1> DEFINE late == IF FeeArrives(w.ctx, f) THEN f.fee ELSE 0
  <1>1. /\ WorkTyped(entered) /\ CtxInv(entered.ctx) /\ Since(g, entered.ctx)
        /\ Grows(w.ctx, entered.ctx) /\ GateFrame(w.ctx, entered.ctx)
        /\ entered.ctx.attributed_fee = w.ctx.attributed_fee + late
        /\ entered.qty = w.qty /\ entered.fee = w.fee
        /\ f \in FillRecord /\ Claimed(g, entered.ctx)
        /\ entered.ctx.venue_order_id = w.ctx.venue_order_id /\ Marks(entered.log) = Marks(w.log)
    <2>1. /\ WorkTyped(entered) /\ entered.ctx = EnrichFill(w.ctx, f)
          /\ entered.qty = w.qty /\ entered.fee = w.fee /\ Marks(entered.log) = Marks(w.log)
      BY ContextWork DEF WorkInv
    <2>2. f \in FillRecord
      BY DEF WorkInv, Since, Origin
    <2>3. Since(g, EnrichFill(w.ctx, f))
      BY SinceEnrich DEF WorkInv
    <2>4. /\ CtxInv(EnrichFill(w.ctx, f)) /\ Grows(w.ctx, EnrichFill(w.ctx, f))
          /\ GateFrame(w.ctx, EnrichFill(w.ctx, f))
          /\ EnrichFill(w.ctx, f).attributed_fee = w.ctx.attributed_fee + late
          /\ Exact(w.ctx) => Exact(EnrichFill(w.ctx, f))
      BY <2>2, EnrichInv DEF WorkInv
    <2>5. Claimed(g, EnrichFill(w.ctx, f))
      BY <2>4 DEF WorkInv, Claimed
    <2>6. EnrichFill(w.ctx, f).venue_order_id = w.ctx.venue_order_id
      BY DEF EnrichFill, WorkInv, CtxInv, CtxBase, CtxTyped
    <2> QED BY <2>1, <2>2, <2>3, <2>4, <2>5, <2>6 DEF WorkInv
  <1> HIDE DEF entered, restated
  <1>2. /\ WorkTyped(upgraded) /\ upgraded.ctx = entered.ctx
        /\ upgraded.qty = w.qty /\ upgraded.fee = w.fee /\ Marks(upgraded.log) = Marks(w.log)
    <2>1. FillRecordCid(restated).rec \notin Reserved
      BY Unreserved
    <2> QED BY <1>1, <2>1, AppendWork
  <1> HIDE DEF upgraded
  <1>3. /\ WorkTyped(corrected) /\ corrected.ctx = entered.ctx
        /\ corrected.qty = w.qty /\ corrected.fee = w.fee /\ Marks(corrected.log) = Marks(w.log)
    <2>1. FeeCorrectionRecord(f).rec \notin Reserved
      BY Unreserved
    <2> QED BY <1>2, <2>1, AppendWork
  <1> HIDE DEF corrected
  <1>7. ASSUME NEW x, WorkTyped(x), x.ctx = entered.ctx, x.qty = w.qty, x.fee = w.fee + late,
               Marks(x.log) = Marks(w.log)
        PROVE  Follows(g, w, x)
    <2>1. /\ w.qty \in Nat /\ w.fee \in Nat /\ late \in Nat
          /\ g.ctx.attributed_fill_qty \in Nat /\ g.ctx.attributed_fee \in Nat
      <3>1. late \in Nat
        BY <1>1, QtyAssumption DEF FeeArrives, FillRecord, Opt
      <3> QED BY <3>1, QtyAssumption DEF WorkInv, WorkTyped, Since, Origin, CtxBase, CtxTyped
    <2> HIDE DEF late
    <2>2. BooksMatch(g, x)
      BY <1>1, <1>7, <2>1 DEF BooksMatch, WorkInv, GateFrame
    <2>3. Traced(g, x)
      BY <1>1, <1>7 DEF WorkInv, Traced, BindMarks
    <2> QED BY <1>1, <1>7, <2>2, <2>3 DEF Follows, WorkInv
  <1>8. CASE UpgradeFill(w, f) = Attempt("NoOp", None, w)
    BY <1>8, Reflexive DEF AttemptInv, Attempt, GateFrame
  <1>9. CASE UpgradeFill(w, f) = Attempt("Enriched", None, upgraded) /\ ~ FeeArrives(w.ctx, f)
    <2>1. upgraded.fee = w.fee + late
      BY <1>2, <1>9 DEF WorkInv, WorkTyped
    <2> HIDE DEF late
    <2>2. Follows(g, w, upgraded)
      BY <1>2, <1>7, <2>1
    <2> QED BY <1>1, <1>2, <1>9, <2>2 DEF AttemptInv, Attempt, GateFrame
  <1>10. CASE /\ UpgradeFill(w, f) = Attempt("Enriched", None, AccountFeeCorrection(corrected, f.fee))
              /\ FeeArrives(w.ctx, f)
    <2> DEFINE x == AccountFeeCorrection(corrected, f.fee)
    <2>1. f.fee # None /\ late = f.fee
      BY <1>10 DEF FeeArrives
    <2>2. /\ WorkTyped(x) /\ x.ctx = entered.ctx /\ x.qty = w.qty /\ x.fee = w.fee + late
          /\ Marks(x.log) = Marks(w.log)
      BY <1>1, <1>3, <2>1, AccountWork
    <2> HIDE DEF x, late
    <2>3. Follows(g, w, x)
      BY <1>7, <2>2
    <2> QED BY <1>1, <1>10, <2>2, <2>3 DEF AttemptInv, Attempt, GateFrame, x
  <1> QED BY <1>0, <1>8, <1>9, <1>10

\* account_fill_core keeps the invariant whatever fill is delivered.
LEMMA AccountFillInv ==
  ASSUME NEW g, NEW w, WorkInv(g, w), NEW f \in g.fills
  PROVE  AttemptInv(g, w, account_fill_core(w, f))
  <1>1. CASE FillError(w.ctx, f) # None
    <2>1. FillError(w.ctx, f) \in HaltReason
      BY <1>1 DEF FillError, FirstSightError, RedeliveryError, HaltReason
    <2> QED BY <1>1, <2>1, Reflexive DEF account_fill_core, AttemptInv, Attempt
  <1>2. CASE FillError(w.ctx, f) = None /\ w.ctx.applied_fills[f.id] = None
    BY <1>2, ApplyFillInv DEF account_fill_core, FillError
  <1>3. CASE FillError(w.ctx, f) = None /\ w.ctx.applied_fills[f.id] # None
    BY <1>3, UpgradeFillInv DEF account_fill_core, FillError
  <1> QED BY <1>1, <1>2, <1>3

\* What a page of fills leaves behind, up to the first halt.
PageInv(g, w, a) ==
    /\ Follows(g, w, a.work)
    /\ a.tag = "Halt" => a.reason \in HaltReason
    /\ a.work.ctx.response = w.ctx.response

\* The loops over a page of fills keep it.
LEMMA PagesInv ==
  ASSUME NEW g, NEW w, WorkInv(g, w), NEW page \in Seq(g.fills)
  PROVE  PageInv(g, w, AccountPage(w, page)) /\ PageInv(g, w, AccountOwnedPage(w, page))
  <1>1. /\ Len(page) >= 1 => page[1] \in g.fills
        /\ Len(page) >= 2 => page[2] \in g.fills
    OBVIOUS
  <1>2. PageInv(g, w, Attempt("NoOp", None, w))
    BY Reflexive DEF PageInv, Attempt
  <1>3. ASSUME NEW a, PageInv(g, w, a), NEW f \in g.fills
        PROVE  PageInv(g, w, AccountNext(a, f)) /\ PageInv(g, w, AccountOwned(a, f))
    <2>1. AttemptInv(g, a.work, account_fill_core(a.work, f))
      BY <1>3, AccountFillInv DEF PageInv, Follows
    <2>2. PageInv(g, w, account_fill_core(a.work, f))
      BY <1>3, <2>1, FollowsTransitive DEF PageInv, AttemptInv
    <2>3. PageInv(g, w, Attempt("Halt", "FillOwnershipMismatch", a.work))
      BY <1>3 DEF PageInv, Attempt, HaltReason
    <2> QED BY <1>3, <2>2, <2>3 DEF AccountNext, AccountOwned
  <1>4. PageInv(g, w, AccountPage(w, page))
    BY <1>1, <1>2, <1>3 DEF AccountPage
  <1>5. PageInv(g, w, AccountOwnedPage(w, page))
    BY <1>1, <1>2, <1>3 DEF AccountOwnedPage
  <1> QED BY <1>4, <1>5

-----------------------------------------------------------------------------
(* Outcomes                                                                *)

\* What a state repeats of its context: what is attributed, and the response.
Mirrors(s, c) ==
    /\ s.kind \in PendingKinds \cup {"Partial"} => s.filled = c.attributed_fill_qty
    /\ s.kind \in PendingKinds => s.resp = RespOf(c)
    /\ s.kind \in PendingKinds => s.remaining = Qty - c.attributed_fill_qty
    /\ s.kind = "ImmediateFillUnattributed"
         => [s.resp EXCEPT !.remaining_count = None] = RespOf(c)
MirrorKinds == PendingKinds \cup {"Partial", "ImmediateFillUnattributed"}

\* What a state says of its context.
StateInv(s, c) ==
    /\ s \in OrderState
    /\ s.venue # None => s.venue = c.venue_order_id
    /\ s.kind \in LiveKinds \cup PendingKinds \cup {"ImmediateFillUnattributed"}
         => s.venue # None
    /\ s.target # None => s.target.filled <= c.fill_obligation
    /\ s.kind = "CancelPending" => s.target = None
    /\ Mirrors(s, c)

\* The gates of try_finalize_terminal, as they hold while a reservation is free.
Gates(c, kind) ==
    /\ c.attributed_fill_qty = c.fill_obligation
    /\ authority_is_fresh(c)
    /\ c.venue_order_id # None
    /\ ~ UnprovenFill(c)
    /\ DomainClosed(c)
    /\ kind = "Filled" => c.attributed_fill_qty = Qty

Effects(g, w) ==
    /\ CtxInv(w.ctx) /\ Since(g, w.ctx) /\ BooksMatch(g, w)
    /\ w.qty \in Nat /\ w.fee \in Nat /\ w.asks \subseteq Requests

\* The requests that can move an order on from where it waits for the shell.
Waits == {"SubmitUnknown", "ReconcilePending"}
AskedFor(kind, asks) ==
    /\ kind = "SubmitUnknown" => "BackfillUnknown" \in asks
    /\ kind = "ReconcilePending"
         => asks \cap {"BackfillFills", "RequestAuthorityReconcile"} # {}

\* What the log of an outcome tells: a new binding, and the end of the order.
LogTells(g, o) ==
    Marks(o.work.log) = BindMarks(g.ctx, o.work.ctx)
                        \cup (IF o.state.kind \in Terminals
                              THEN {OrderTerminalRecord(o.work.ctx)} ELSE {})

\* Where an order is halted, with its reservation held.
Halts == {"Halted", "UnknownNoMatch", "ImmediateFillUnresolved"}

\* A handler stays where earlier requests still stand, or leaves the order with
\* the ones it needs.
Driven(g, s, w) == s.kind \in g.standing \/ AskedFor(s.kind, w.asks)

OutcomeInv(g, o) ==
    /\ Effects(g, o.work) /\ o.outcome \in {"Accept", "Halt"}
    /\ StateInv(o.state, o.work.ctx)
    /\ Driven(g, o.state, o.work)
    /\ o.state.kind # "Halted" => Claimed(g, o.work.ctx)
    /\ IsLog(o.work.log) /\ LogTells(g, o)
    /\ o.outcome = "Halt" <=> o.state.kind \in Halts
    /\ IF o.state.kind \in Terminals
       THEN o.work.hold = "ReleaseReservation" /\ Gates(o.work.ctx, o.state.kind)
       ELSE o.work.hold = "Keep" /\ o.state.kind # "SubmissionClosed"

\* A handler that has not finalized emitted no reservation effect.
LEMMA WorkEffects ==
  ASSUME NEW g, NEW w, WorkInv(g, w)
  PROVE  Effects(g, w) /\ w.hold = "Keep" /\ Claimed(g, w.ctx)
  BY DEF WorkInv, WorkTyped, Effects

\* Accepting into an open state is a good outcome.
LEMMA AcceptInv ==
  ASSUME NEW g, NEW w, WorkInv(g, w), NEW s, StateInv(s, w.ctx),
         s.kind \notin Terminals \cup Halts \cup {"SubmissionClosed"}, Driven(g, s, w)
  PROVE  OutcomeInv(g, accept(s, w))
  <1>1. IsLog(w.log) /\ Marks(w.log) = BindMarks(g.ctx, w.ctx)
    BY DEF WorkInv, WorkTyped, Traced
  <1> QED BY <1>1, WorkEffects DEF OutcomeInv, LogTells, accept

\* Halting into an open or frozen state that is not released is one.
LEMMA HaltStateInv ==
  ASSUME NEW g, NEW w, WorkInv(g, w), NEW s, StateInv(s, w.ctx),
         s.kind \in Halts
  PROVE  OutcomeInv(g, halt_with_reason_state(s, w))
  <1> DEFINE x == Ask(w, {"HaltNewExposure"})
  <1>1. WorkInv(g, x) /\ x.ctx = w.ctx
    BY AskWork DEF Requests
  <1>2. Driven(g, s, x)
    BY DEF Driven, AskedFor, Halts
  <1>3. IsLog(x.log) /\ Marks(x.log) = BindMarks(g.ctx, x.ctx)
    BY <1>1 DEF WorkInv, WorkTyped, Traced
  <1> HIDE DEF x
  <1> QED BY <1>1, <1>2, <1>3, WorkEffects DEF OutcomeInv, LogTells, Halts, Terminals, halt_with_reason_state, x

\* States without a venue or a target.
LEMMA PlainInv ==
  ASSUME NEW c, NEW k \in Kinds \ (LiveKinds \cup PendingKinds \cup {"ImmediateFillUnattributed"}),
         NEW reason \in Opt(HaltReason \cup CloseReasons)
  PROVE  /\ StateInv(Plain(k), c) /\ Plain(k).kind = k
         /\ StateInv([Plain(k) EXCEPT !.reason = reason], c)
         /\ [Plain(k) EXCEPT !.reason = reason].kind = k
  BY DEF StateInv, Mirrors, LiveKinds, PendingKinds, OrderState, Plain, NoResp, Resp, Opt

\* The states without data satisfy the state invariant.
LEMMA PlainStates ==
  ASSUME NEW c, NEW k \in {"SubmitPrepared", "SubmitStarted", "SubmitUnknown", "UnknownNoMatch",
                           "ImmediateFillUnresolved"}
  PROVE  /\ StateInv(Plain(k), c) /\ Plain(k).kind = k /\ k \notin Terminals \cup {"SubmissionClosed"}
         /\ k \in Halts <=> k \in {"UnknownNoMatch", "ImmediateFillUnresolved"}
  <1>1. k \in Kinds \ (LiveKinds \cup PendingKinds \cup {"ImmediateFillUnattributed"})
        /\ None \in Opt(HaltReason \cup CloseReasons)
    BY DEF Kinds, LiveKinds, PendingKinds, Opt
  <1> QED BY <1>1, PlainInv DEF Terminals, Halts

\* Halting with a reason is one.
LEMMA HaltInv ==
  ASSUME NEW g, NEW w, WorkInv(g, w), NEW reason \in HaltReason
  PROVE  OutcomeInv(g, halt_with_reason(reason, w))
  <1>1. "Halted" \in Kinds \ (LiveKinds \cup PendingKinds \cup {"ImmediateFillUnattributed"})
    BY DEF Kinds, LiveKinds, PendingKinds
  <1>2. StateInv(Halted(reason), w.ctx) /\ Halted(reason).kind = "Halted"
    BY <1>1, PlainInv DEF Halted, Opt
  <1> QED BY <1>2, HaltStateInv DEF halt_with_reason, Halts

\* It may be done before the domain sums are up to date: nothing reads them then.
LEMMA UnclaimedHalt ==
  ASSUME NEW g, NEW w, WorkInv(Relaxed(g), w), NEW reason \in HaltReason
  PROVE  OutcomeInv(g, halt_with_reason(reason, w))
  <1> DEFINE h == Relaxed(g)
             o == halt_with_reason(reason, w)
  <1>1. h.ctx = g.ctx /\ h.standing = g.standing
    BY DEF Relaxed
  <1>2. \A c : Since(h, c) <=> Since(g, c)
    BY RelaxWork
  <1>3. OutcomeInv(h, o)
    BY HaltInv
  <1>4. o.state.kind = "Halted"
    BY DEF halt_with_reason, halt_with_reason_state, Halted, Plain
  <1> HIDE DEF h, o
  <1>5. Effects(g, o.work) <=> Effects(h, o.work)
    BY <1>1, <1>2 DEF Effects, BooksMatch
  <1>6. Driven(g, o.state, o.work) <=> Driven(h, o.state, o.work)
    BY <1>1 DEF Driven
  <1>8. LogTells(g, o) <=> LogTells(h, o)
    BY <1>1 DEF LogTells
  <1>7. OutcomeInv(g, o)
    BY <1>3, <1>4, <1>5, <1>6, <1>8 DEF OutcomeInv
  <1> QED BY <1>7 DEF o

\* An outcome keeps the context of the work it ends.
LEMMA OutcomeCtx ==
  ASSUME NEW w, WorkTyped(w)
  PROVE  /\ \A s : accept(s, w).work.ctx = w.ctx
         /\ \A s : halt_with_reason_state(s, w).work.ctx = w.ctx
         /\ \A reason : halt_with_reason(reason, w).work.ctx = w.ctx
         /\ \A k : Finalize(w, k).work.ctx = w.ctx
         /\ \A S : WorkTyped(w) => Ask(w, S).ctx = w.ctx
  <1>1. \A S : Ask(w, S).ctx = w.ctx
    BY DEF WorkTyped, Ask
  <1>2. \A k : Finalize(w, k).work.ctx = w.ctx
    BY DEF WorkTyped, Finalize, accept, AppendFsync
  <1> QED BY <1>1, <1>2 DEF accept, halt_with_reason, halt_with_reason_state

\* The states of an order the venue knows.
LEMMA VenueStates ==
  ASSUME NEW c, CtxInv(c), NEW v \in Venues, c.venue_order_id = v,
         NEW m, m = c.attributed_fill_qty, NEW n \in Nat,
         NEW target \in Opt(Target), target # None => target.filled <= c.fill_obligation
  PROVE  /\ StateInv(Accepted(v), c) /\ Accepted(v).kind = "Accepted"
         /\ StateInv(Partial(v, m, n), c) /\ Partial(v, m, n).kind = "Partial"
         /\ StateInv(CancelPending(c, v, m, Qty - m, None), c)
         /\ CancelPending(c, v, m, Qty - m, None).kind = "CancelPending"
         /\ StateInv(ReconcilePending(c, v, target), c)
         /\ ReconcilePending(c, v, target).kind = "ReconcilePending"
  <1>1. v # None /\ v \in Opt(Venues)
    BY NoneAssumption DEF Opt
  <1>2. RespOf(c) \in Resp
    BY DEF CtxInv, CtxBase, CtxTyped, RespOf, Resp, ResponseSnapshot, Opt
  <1> DEFINE left == Qty - m
  <1>3. /\ c.attributed_fill_qty \in Nat /\ m \in Nat /\ left \in Nat
        /\ remaining_qty(c) = left
    BY QtyAssumption, NoneAssumption, Numbers
    DEF CtxInv, CtxBase, remaining_qty, remaining_qty_checked, OrZero
  <1>4. "Accepted" \in Kinds /\ "Partial" \in Kinds /\ "CancelPending" \in Kinds
        /\ "ReconcilePending" \in Kinds
    BY DEF Kinds, LiveKinds, PendingKinds
  <1>5. NoResp \in Resp /\ None \in Opt(Target)
        /\ None \in Opt(HaltReason \cup CloseReasons)
    BY DEF NoResp, Resp, Opt
  <1>6. StateInv(Accepted(v), c) /\ Accepted(v).kind = "Accepted"
    BY <1>1, <1>4, <1>5 DEF StateInv, Mirrors, PendingKinds, OrderState, Accepted, Plain
  <1>7. StateInv(Partial(v, m, n), c) /\ Partial(v, m, n).kind = "Partial"
    BY <1>1, <1>3, <1>4, <1>5 DEF StateInv, Mirrors, PendingKinds, OrderState, Partial, Plain
  <1> HIDE DEF left
  <1>8. /\ StateInv(CancelPending(c, v, m, left, None), c)
        /\ CancelPending(c, v, m, left, None).kind = "CancelPending"
    BY <1>1, <1>2, <1>3, <1>4, <1>5
    DEF StateInv, Mirrors, OrderState, CancelPending, Plain, left
  <1>9. /\ StateInv(ReconcilePending(c, v, target), c)
        /\ ReconcilePending(c, v, target).kind = "ReconcilePending"
    BY <1>1, <1>2, <1>3, <1>4, <1>5
    DEF StateInv, Mirrors, OrderState, ReconcilePending, Plain, left
  <1> QED BY <1>6, <1>7, <1>8, <1>9 DEF left

\* The venue id a handler goes on with is the bound one.
Bound(w, v) == v \in Venues /\ w.ctx.venue_order_id = v

GoodProposal(p) ==
    /\ p.terminal \in Terminals
    /\ p.terminal = "Filled" => p.filled \in Nat /\ p.remaining \in Opt(Nat)

\* Waiting asks for no more than the obligation.
LEMMA NotReadyInv ==
  ASSUME NEW g, NEW w, WorkInv(g, w), NEW v, Bound(w, v), NEW fallback \in Terminals,
         NEW request, NEW remaining \in Opt(Nat)
  PROVE  OutcomeInv(g, not_ready_for_terminal(w, v, fallback, request, remaining))
  <1> DEFINE c == w.ctx
             target == [terminal |-> fallback,
                        filled |-> MaxOf(c.fill_obligation, c.attributed_fill_qty),
                        remaining |-> OrElse(remaining, c.last_venue_remaining_qty)]
             lagging == c.attributed_fill_qty < c.fill_obligation
             S == (IF lagging THEN {"BackfillFills"} ELSE {})
                  \cup (IF request \/ ~ lagging THEN {"RequestAuthorityReconcile"} ELSE {})
                  \cup (IF request THEN {"ReconcileCancel"} ELSE {})
  <1>1. not_ready_for_terminal(w, v, fallback, request, remaining)
          = accept(ReconcilePending(c, v, target), Ask(w, S))
    BY DEF not_ready_for_terminal
  <1>2. target \in Opt(Target) /\ target.filled = c.fill_obligation
    <2>1. /\ c.fill_obligation \in Nat /\ c.attributed_fill_qty \in Nat
          /\ c.attributed_fill_qty <= c.fill_obligation
          /\ c.last_venue_remaining_qty \in Opt(Nat)
      BY DEF WorkInv, CtxInv, CtxBase, CtxTyped
    <2> QED BY <2>1 DEF Target, Opt, MaxOf, OrElse
  <1>3. S \in SUBSET Requests
    BY DEF Requests
  <1> HIDE DEF target
  <1>6. Driven(g, ReconcilePending(c, v, target), Ask(w, S))
    <2>1. S \cap {"BackfillFills", "RequestAuthorityReconcile"} # {}
      OBVIOUS
    <2>2. Ask(w, S).asks = w.asks \cup S
      BY DEF WorkInv, WorkTyped, Ask
    <2>3. ReconcilePending(c, v, target).kind = "ReconcilePending"
      BY DEF ReconcilePending, Plain
    <2> HIDE DEF S
    <2> QED BY <2>1, <2>2, <2>3 DEF Driven, AskedFor
  <1> HIDE DEF S
  <1>4. /\ StateInv(ReconcilePending(c, v, target), c)
        /\ ReconcilePending(c, v, target).kind = "ReconcilePending"
    <2>1. CtxInv(c) /\ c.fill_obligation \in Nat /\ 0 \in Nat
      BY Numbers DEF WorkInv, CtxInv
    <2>2. target # None => target.filled <= c.fill_obligation
      BY <1>2, <2>1
    <2> QED BY <1>2, <2>1, <2>2, VenueStates DEF Bound
  <1>5. WorkInv(g, Ask(w, S)) /\ Ask(w, S).ctx = c
    BY <1>3, AskWork
  <1> QED BY <1>1, <1>4, <1>5, <1>6, AcceptInv DEF Terminals, Halts

\* Releasing is one where the gates hold.
LEMMA FinalizeInv ==
  ASSUME NEW g, NEW w, WorkInv(g, w), NEW k \in Terminals, Gates(w.ctx, k)
  PROVE  OutcomeInv(g, Finalize(w, k))
  <1> DEFINE x == AppendFsync(w, OrderTerminalRecord(w.ctx))
             y == [x EXCEPT !.hold = "ReleaseReservation"]
  <1>1. Finalize(w, k) = accept(Plain(k), y)
    BY DEF Finalize
  <1>2. /\ WorkTyped(x) /\ x.ctx = w.ctx /\ x.qty = w.qty /\ x.fee = w.fee
        /\ Marks(x.log) = BindMarks(g.ctx, w.ctx) \cup {OrderTerminalRecord(w.ctx)}
    <2>1. OrderTerminalRecord(w.ctx).rec \in Reserved
      BY DEF OrderTerminalRecord, Reserved
    <2> QED BY <2>1, AppendWork DEF WorkInv, Traced
  <1> HIDE DEF x
  <1>3. /\ Effects(g, y) /\ y.hold = "ReleaseReservation" /\ y.ctx = w.ctx /\ Claimed(g, y.ctx)
        /\ y.log = x.log /\ IsLog(y.log)
    <2>1. y.ctx = x.ctx /\ y.qty = x.qty /\ y.fee = x.fee /\ y.asks = x.asks
          /\ y.hold = "ReleaseReservation" /\ y.log = x.log
      BY <1>2 DEF WorkTyped
    <2> HIDE DEF y
    <2> QED BY <1>2, <2>1 DEF WorkInv, WorkTyped, Effects, BooksMatch
  <1> HIDE DEF y
  <1>4. StateInv(Plain(k), y.ctx) /\ Plain(k).kind = k
    <2>1. k \in Kinds \ (LiveKinds \cup PendingKinds \cup {"ImmediateFillUnattributed"})
      BY DEF Kinds, LiveKinds, PendingKinds, Terminals
    <2>2. None \in Opt(HaltReason \cup CloseReasons)
      BY DEF Opt
    <2> QED BY <2>1, <2>2, PlainInv
  <1>5. Driven(g, Plain(k), y)
    BY <1>4 DEF Driven, AskedFor, Terminals
  <1>6. LogTells(g, accept(Plain(k), y))
    BY <1>2, <1>3, <1>4 DEF LogTells, accept
  <1> QED BY <1>1, <1>3, <1>4, <1>5, <1>6 DEF OutcomeInv, Halts, Terminals, accept

\* The gate: it releases only under Gates, and otherwise waits or halts.
LEMMA TryFinalizeInv ==
  ASSUME NEW g, NEW w, WorkInv(g, w), NEW v, Bound(w, v), NEW fallback \in Terminals,
         NEW p, GoodProposal(p)
  PROVE  OutcomeInv(g, try_finalize_terminal(w, p, v, fallback))
  <1> DEFINE c == w.ctx
             o == try_finalize_terminal(w, p, v, fallback)
             remaining == IF p.terminal = "Filled" THEN p.remaining
                          ELSE c.last_venue_remaining_qty
             fetching == Ask(w, {"BackfillFills"})
  <1>1. remaining \in Opt(Nat)
    BY DEF GoodProposal, WorkInv, CtxInv, CtxBase, CtxTyped
  <1>2. WorkInv(g, fetching) /\ Bound(fetching, v)
    BY AskWork DEF Requests, Bound
  <1>3. /\ OutcomeInv(g, halt_with_reason("FillOwnershipMismatch", w))
        /\ OutcomeInv(g, halt_with_reason("CrossCheckMismatch", w))
        /\ OutcomeInv(g, halt_with_reason("OverFill", w))
    BY HaltInv DEF HaltReason
  <1>4. \A request : /\ OutcomeInv(g, not_ready_for_terminal(w, v, fallback, request, remaining))
                     /\ OutcomeInv(g, not_ready_for_terminal(fetching, v, fallback, request, remaining))
    BY <1>1, <1>2, NotReadyInv
  <1>5. p.terminal = "Filled"
          => OutcomeInv(g, not_ready_for_terminal(w, v, "Filled", FALSE, p.remaining))
    BY NotReadyInv DEF GoodProposal, Terminals
  <1> HIDE DEF fetching, remaining
  <1>6. CASE /\ ~ ForeignFill(c) /\ ~ UnprovenFill(c) /\ authority_is_fresh(c)
             /\ c.attributed_fill_qty = c.fill_obligation
             /\ ~ (DomainKnown(c) /\ c.domain.qty < c.response.fill_count)
             /\ ~ (DomainKnown(c) /\ DomainContradicts(c))
    <2>1. DomainClosed(c)
      BY <1>6 DEF DomainClosed, DomainContradicts, response_domain_overfill
    <2>2. c.venue_order_id # None
      BY NoneAssumption DEF Bound
    <2>3. p.terminal # "Filled" => OutcomeInv(g, Finalize(w, p.terminal))
      BY <1>6, <2>1, <2>2, FinalizeInv DEF Gates, GoodProposal
    <2>4. remaining_qty_checked(c) = 0 => OutcomeInv(g, Finalize(w, "Filled"))
      <3>1. remaining_qty_checked(c) = 0 => c.attributed_fill_qty = Qty
        BY QtyAssumption, NoneAssumption, Numbers
        DEF remaining_qty_checked, WorkInv, CtxInv
      <3> QED BY <1>6, <2>1, <2>2, <3>1, FinalizeInv DEF Gates, Terminals
    <2>5. o = IF p.terminal # "Filled" THEN Finalize(w, p.terminal)
              ELSE IF p.filled > Qty \/ remaining_qty_checked(c) = None
              THEN halt_with_reason("OverFill", w)
              ELSE IF p.filled # Qty \/ p.remaining # 0 \/ remaining_qty_checked(c) # 0
              THEN not_ready_for_terminal(w, v, "Filled", FALSE, p.remaining)
              ELSE Finalize(w, "Filled")
      BY <1>6 DEF try_finalize_terminal
    <2> HIDE DEF o
    <2> QED BY <1>3, <1>5, <2>3, <2>4, <2>5 DEF o
  <1>7. CASE ~ (/\ ~ ForeignFill(c) /\ ~ UnprovenFill(c) /\ authority_is_fresh(c)
                /\ c.attributed_fill_qty = c.fill_obligation
                /\ ~ (DomainKnown(c) /\ c.domain.qty < c.response.fill_count)
                /\ ~ (DomainKnown(c) /\ DomainContradicts(c)))
    <2>1. \/ o = halt_with_reason("FillOwnershipMismatch", w)
          \/ o = halt_with_reason("CrossCheckMismatch", w)
          \/ o = not_ready_for_terminal(fetching, v, fallback, TRUE, remaining)
          \/ o = not_ready_for_terminal(w, v, fallback, TRUE, remaining)
          \/ o = not_ready_for_terminal(w, v, fallback, FALSE, remaining)
      BY <1>7 DEF try_finalize_terminal, fetching, remaining
    <2> HIDE DEF o
    <2> QED BY <1>3, <1>4, <2>1 DEF o
  <1> QED BY <1>6, <1>7

\* The gate reads the context and leaves it alone.
LEMMA TryFinalizeCtx ==
  ASSUME NEW w, WorkTyped(w), NEW v, NEW fallback, NEW p
  PROVE  try_finalize_terminal(w, p, v, fallback).work.ctx = w.ctx
  <1>1. ASSUME NEW x, x.ctx = w.ctx, WorkTyped(x)
        PROVE  \A u, t, request, remaining :
                 not_ready_for_terminal(x, u, t, request, remaining).work.ctx = w.ctx
    BY <1>1 DEF not_ready_for_terminal, accept, Ask, WorkTyped
  <1> DEFINE fetching == Ask(w, {"BackfillFills"})
  <1>2. fetching.ctx = w.ctx /\ WorkTyped(fetching)
    BY DEF WorkTyped, Ask, Requests
  <1>3. \A u, t, request, remaining :
          /\ not_ready_for_terminal(w, u, t, request, remaining).work.ctx = w.ctx
          /\ not_ready_for_terminal(fetching, u, t, request, remaining).work.ctx = w.ctx
    BY <1>1, <1>2
  <1> HIDE DEF fetching
  <1> DEFINE remaining == IF p.terminal = "Filled" THEN p.remaining
                          ELSE w.ctx.last_venue_remaining_qty
             o == try_finalize_terminal(w, p, v, fallback)
  <1>4. \/ \E reason : o = halt_with_reason(reason, w)
        \/ \E t, request, r : o = not_ready_for_terminal(w, v, t, request, r)
        \/ \E t, request, r : o = not_ready_for_terminal(fetching, v, t, request, r)
        \/ \E k : o = Finalize(w, k)
    BY DEF try_finalize_terminal, fetching
  <1> HIDE DEF o
  <1> QED BY <1>3, <1>4, OutcomeCtx DEF o

-----------------------------------------------------------------------------
(* Handlers: create response and fills                                     *)

\* A state stays true of a context that grew, if it still repeats what it says.
LEMMA StateGrows ==
  ASSUME NEW s, NEW c, NEW d, CtxBase(c), CtxBase(d), StateInv(s, c), Grows(c, d), Mirrors(s, d)
  PROVE  StateInv(s, d)
  <1>1. s.target # None => s.target.filled \in Nat
    BY DEF StateInv, OrderState, Opt, Target
  <1> QED BY <1>1, Numbers DEF StateInv, Grows

\* When it does.
LEMMA MirrorsStay ==
  ASSUME NEW s, NEW c, NEW d, Mirrors(s, c)
  PROVE  /\ s.kind \notin MirrorKinds => Mirrors(s, d)
         /\ s.kind = "ImmediateFillUnattributed" /\ d.response = c.response => Mirrors(s, d)
         /\ d.attributed_fill_qty = c.attributed_fill_qty /\ d.response = c.response
              => Mirrors(s, d)
  BY DEF Mirrors, MirrorKinds, PendingKinds, RespOf

\* A binding survives the rest of the handler.
LEMMA BoundGrows ==
  ASSUME NEW g, NEW w, NEW x, NEW v, Bound(w, v), Follows(g, w, x)
  PROVE  Bound(x, v)
  BY NoneAssumption DEF Bound, Follows, Grows

\* A state with a venue id belongs to an order bound to it.
LEMMA StateBound ==
  ASSUME NEW g, NEW w, NEW s, StateInv(s, w.ctx),
         s.kind \in LiveKinds \cup PendingKinds \cup {"ImmediateFillUnattributed"}
  PROVE  Bound(w, s.venue)
  BY DEF StateInv, OrderState, Opt, Bound

\* The remaining quantity never underflows.
LEMMA RemainingTyped ==
  ASSUME NEW c, CtxInv(c)
  PROVE  /\ remaining_qty_checked(c) \in Nat
         /\ remaining_qty_checked(c) # None
         /\ remaining_qty_checked(c) = Qty - c.attributed_fill_qty
         /\ remaining_qty(c) = Qty - c.attributed_fill_qty
         /\ remaining_qty(c) \in Nat
         /\ c.attributed_fill_qty \in Nat
  <1>1. /\ c.attributed_fill_qty \in Nat /\ c.fill_obligation \in Nat
        /\ c.attributed_fill_qty <= c.fill_obligation /\ c.fill_obligation <= Qty
    BY DEF CtxInv, CtxBase, CtxTyped
  <1> QED BY <1>1, QtyAssumption, NoneAssumption
    DEF remaining_qty, remaining_qty_checked, OrZero

\* route_live_or_filled ends well.
LEMMA RouteLiveInv ==
  ASSUME NEW g, NEW w, WorkInv(g, w), NEW v, Bound(w, v)
  PROVE  OutcomeInv(g, route_live_or_filled(w, v))
  <1> DEFINE c == w.ctx
             n == c.attributed_fill_qty
             m == remaining_qty_checked(c)
             x == note_authority_complete(w, TRUE)
             p == Proposed("Filled", n, 0)
  <1>1. m \in Nat /\ m # None /\ n \in Nat /\ CtxInv(c)
    BY RemainingTyped DEF WorkInv
  <1>2. WorkInv(g, x) /\ Bound(x, v)
    BY AuthorityWork, BoundGrows DEF Follows
  <1>3. GoodProposal(p)
    BY <1>1 DEF GoodProposal, Proposed, Terminals, Opt
  <1>4. "Filled" \in Terminals
    BY DEF Terminals
  <1> HIDE DEF x, p
  <1>5. OutcomeInv(g, try_finalize_terminal(x, p, v, "Filled"))
    BY <1>2, <1>3, <1>4, TryFinalizeInv
  <1>6. OutcomeInv(g, accept(Accepted(v), w)) /\ OutcomeInv(g, accept(Partial(v, n, m), w))
    <2>1. None \in Opt(Target)
      BY DEF Opt
    <2>2. /\ StateInv(Accepted(v), c) /\ Accepted(v).kind = "Accepted"
          /\ StateInv(Partial(v, n, m), c) /\ Partial(v, n, m).kind = "Partial"
      BY <1>1, <2>1, VenueStates DEF Bound
    <2> QED BY <2>2, AcceptInv DEF Terminals, Halts, Driven, AskedFor
  <1>7. route_live_or_filled(w, v)
          \in {try_finalize_terminal(x, p, v, "Filled"), accept(Accepted(v), w),
               accept(Partial(v, n, m), w)}
    BY <1>1 DEF route_live_or_filled, x, p
  <1> QED BY <1>5, <1>6, <1>7

\* The average price and the fees a response keeps on the context.
Carried(w, a, b) == [w EXCEPT !.ctx.response.avg = a, !.ctx.response.fee = b]

\* Filling in the average price and the fee of the response.
LEMMA KeptWork ==
  ASSUME NEW g, NEW w, WorkInv(g, w), NEW a \in Opt(Nat), NEW b \in Opt(Nat)
  PROVE  /\ Follows(g, w, Carried(w, a, b))
         /\ Carried(w, a, b).ctx.venue_order_id = w.ctx.venue_order_id
         /\ Carried(w, a, b).ctx.authority_complete = w.ctx.authority_complete
         /\ a = w.ctx.response.avg /\ b = w.ctx.response.fee
              => SameReply(w.ctx, Carried(w, a, b).ctx)
  <1> DEFINE r == [w.ctx.response EXCEPT !.avg = a, !.fee = b]
             d == [w.ctx EXCEPT !.response = r]
             x == Carried(w, a, b)
  <1>1. r \in ResponseSnapshot
    BY DEF WorkInv, CtxInv, CtxBase, CtxTyped, ResponseSnapshot
  <1>7. r.fill_count = w.ctx.response.fill_count /\ r.boundary = w.ctx.response.boundary
    BY DEF WorkInv, CtxInv, CtxBase, CtxTyped, ResponseSnapshot
  <1>2. x = [w EXCEPT !.ctx = d]
    BY DEF Carried, WorkInv, WorkTyped, CtxInv, CtxBase, CtxTyped, ResponseSnapshot
  <1> HIDE DEF x, r
  <1>3. /\ CtxInv(d) /\ Quiet(w.ctx, d) /\ d.venue_order_id = w.ctx.venue_order_id
        /\ d.authority_complete = w.ctx.authority_complete
    BY <1>1, <1>7, ResponseInv DEF WorkInv
  <1>5. /\ d.attributed_fill_qty = w.ctx.attributed_fill_qty /\ d.domain = w.ctx.domain
        /\ d.response = r
    BY DEF WorkInv, CtxInv, CtxBase, CtxTyped
  <1>6. a = w.ctx.response.avg /\ b = w.ctx.response.fee => r = w.ctx.response
    BY DEF r, WorkInv, CtxInv, CtxBase, CtxTyped, ResponseSnapshot
  <1> HIDE DEF d
  <1>4. /\ Follows(g, w, x) /\ x.ctx.venue_order_id = w.ctx.venue_order_id
        /\ x.ctx.authority_complete = w.ctx.authority_complete
        /\ x.ctx = d
    BY <1>2, <1>3, QuietContext
  <1> QED BY <1>4, <1>5, <1>6 DEF x, SameReply

\* resolve_unattributed ends well.
LEMMA ResolveInv ==
  ASSUME NEW g, NEW w, WorkInv(g, w), NEW s, StateInv(s, w.ctx),
         s.kind = "ImmediateFillUnattributed"
  PROVE  OutcomeInv(g, resolve_unattributed(w, s))
  <1> DEFINE avg == OrElse(w.ctx.response.avg, s.resp.avg)
             fee == OrElse(w.ctx.response.fee, s.resp.fee)
             kept == [w EXCEPT !.ctx.response.avg = avg, !.ctx.response.fee = fee]
  <1>1. avg \in Opt(Nat) /\ fee \in Opt(Nat)
    BY DEF OrElse, Opt, StateInv, OrderState, Resp, WorkInv, CtxInv, CtxBase, CtxTyped,
         ResponseSnapshot
  <1> HIDE DEF avg, fee
  <1>2. Follows(g, w, kept) /\ Bound(kept, s.venue)
    <2>0. kept = Carried(w, avg, fee)
      BY DEF Carried
    <2> HIDE DEF kept
    <2>1. Follows(g, w, kept) /\ kept.ctx.venue_order_id = w.ctx.venue_order_id
      BY <1>1, <2>0, KeptWork
    <2>2. Bound(w, s.venue)
      BY StateBound
    <2> QED BY <2>1, <2>2 DEF Bound
  <1>3. resolve_unattributed(w, s)
          \in {accept(s, w), halt_with_reason("ImmediateFillCrossCheckMismatch", w),
               halt_with_reason("CrossCheckMismatch", w), route_live_or_filled(kept, s.venue)}
    BY DEF resolve_unattributed, avg, fee
  <1> HIDE DEF kept
  <1>4. OutcomeInv(g, route_live_or_filled(kept, s.venue))
    BY <1>2, RouteLiveInv DEF Follows
  <1>5. OutcomeInv(g, accept(s, w))
    BY AcceptInv DEF Terminals, Halts, Driven, AskedFor
  <1>6. /\ OutcomeInv(g, halt_with_reason("ImmediateFillCrossCheckMismatch", w))
        /\ OutcomeInv(g, halt_with_reason("CrossCheckMismatch", w))
    BY HaltInv DEF HaltReason
  <1> QED BY <1>3, <1>4, <1>5, <1>6

\* A create response without fills ends well.
LEMMA ZeroFillInv ==
  ASSUME NEW g, NEW w, WorkInv(g, w), NEW r, Bound(w, r.venue)
  PROVE  OutcomeInv(g, ZeroFillResponse(w, r))
  <1> DEFINE x == note_authority_complete(w, TRUE)
  <1>1. WorkInv(g, x) /\ Bound(x, r.venue)
    BY AuthorityWork, BoundGrows DEF Follows
  <1>2. GoodProposal(ProposedCanceled) /\ "Canceled" \in Terminals
    BY DEF GoodProposal, ProposedCanceled, Proposed, Terminals
  <1> HIDE DEF x
  <1>3. OutcomeInv(g, try_finalize_terminal(x, ProposedCanceled, r.venue, "Canceled"))
    BY <1>1, <1>2, TryFinalizeInv
  <1>4. OutcomeInv(g, accept(Accepted(r.venue), w))
    <2>1. None \in Opt(Target) /\ 0 \in Nat /\ CtxInv(w.ctx)
      BY DEF Opt, WorkInv
    <2>2. StateInv(Accepted(r.venue), w.ctx) /\ Accepted(r.venue).kind = "Accepted"
      BY <2>1, VenueStates DEF Bound
    <2> QED BY <2>2, AcceptInv DEF Terminals, Halts, Driven, AskedFor
  <1>5. /\ OutcomeInv(g, halt_with_reason("ResponseZeroButLocalFills", w))
        /\ OutcomeInv(g, halt_with_reason("CrossCheckMismatch", w))
    BY HaltInv DEF HaltReason
  <1>6. OutcomeInv(g, route_live_or_filled(w, r.venue))
    BY RouteLiveInv
  <1>7. ZeroFillResponse(w, r)
          \in {try_finalize_terminal(x, ProposedCanceled, r.venue, "Canceled"),
               accept(Accepted(r.venue), w), route_live_or_filled(w, r.venue),
               halt_with_reason("ResponseZeroButLocalFills", w),
               halt_with_reason("CrossCheckMismatch", w)}
    BY DEF ZeroFillResponse, x
  <1> QED BY <1>3, <1>4, <1>5, <1>6, <1>7

\* The unattributed state carries the venue id of the response.
LEMMA UnattributedState ==
  ASSUME NEW c, NEW r \in Response, c.venue_order_id = r.venue, c.response = SnapshotOf(r)
  PROVE  /\ StateInv(Unattributed(r), c)
         /\ Unattributed(r).kind = "ImmediateFillUnattributed"
  <1>1. r.venue \in Opt(Venues) /\ r.venue # None
    BY NoneAssumption DEF Response, Opt
  <1>2. [fill_count |-> r.fill_count, remaining_count |-> r.remaining_count,
         avg |-> r.avg, fee |-> r.fee] \in Resp
    BY DEF Response, Resp, Opt
  <1>3. "ImmediateFillUnattributed" \in Kinds
    BY DEF Kinds
  <1>4. None \in Opt(Target) /\ None \in Opt(HaltReason \cup CloseReasons)
    BY DEF Opt
  <1>5. Mirrors(Unattributed(r), c)
    BY DEF Mirrors, PendingKinds, Unattributed, Plain, NoResp, RespOf, SnapshotOf
  <1> QED BY <1>1, <1>2, <1>3, <1>4, <1>5 DEF StateInv, OrderState, Unattributed, Plain

\* apply_submit_response, in the order of the code: journal, bind, snapshot,
\* obligation, domain, then one of the outcomes.
LEMMA SubmitResponseInv ==
  ASSUME NEW g, NEW w, WorkInv(g, w), NEW r \in Response
  PROVE  OutcomeInv(g, apply_submit_response(w, r))
  <1> DEFINE logged == AppendFsync(w, SubmitResponseRecord(r.venue, SnapshotOf(r)))
             named == bind_venue_id(logged, r.venue)
             bound == [named EXCEPT !.ctx = note_venue_remaining(named.ctx, r.remaining_count)]
             snapped == [bound EXCEPT !.ctx.response = SnapshotOf(r)]
             raised == NoteResponseEvidence(snapped, r.fill_count)
             ready == [raised EXCEPT !.ctx = recompute_response_domain(raised.ctx)]
             filed == AppendFsync(ready, UnattributedRecord(r.venue, SnapshotOf(r)))
             entered == Ask(filed, {"BackfillFills"})
             o == apply_submit_response(w, r)
  <1>0. /\ r.venue \in Venues /\ r.fill_count \in Nat /\ r.remaining_count \in Opt(Nat)
        /\ SnapshotOf(r) \in ResponseSnapshot
    BY DEF Response, Opt, SnapshotOf, ResponseSnapshot
  <1>1. o = IF BindError(w.ctx, r.venue) # None
            THEN halt_with_reason(BindError(w.ctx, r.venue), logged)
            ELSE IF r.fill_count = 0 THEN ZeroFillResponse(bound, r)
            ELSE IF RaiseFails(r.fill_count)
            THEN halt_with_reason("ObligationExceedsOrderQty", snapped)
            ELSE IF response_domain_overfill(ready.ctx)
            THEN halt_with_reason("CrossCheckMismatch", ready)
            ELSE IF ready.ctx.attributed_fill_qty > 0
            THEN resolve_unattributed(entered, Unattributed(r))
            ELSE accept(Unattributed(r), entered)
    BY DEF apply_submit_response
  <1> HIDE DEF o
  <1>2. WorkInv(g, logged) /\ logged.ctx = w.ctx
    <2>1. SubmitResponseRecord(r.venue, SnapshotOf(r)).rec \notin Reserved
      BY Unreserved
    <2> QED BY <2>1, LogWork
  <1> HIDE DEF logged
  <1>3. CASE BindError(w.ctx, r.venue) # None
    <2>1. BindError(w.ctx, r.venue) \in HaltReason
      BY <1>3 DEF BindError, HaltReason
    <2> QED BY <1>1, <1>2, <1>3, <2>1, HaltInv DEF o
  <1>4. CASE BindError(w.ctx, r.venue) = None
    <2>1. WorkInv(g, named) /\ named.ctx.venue_order_id = r.venue
      BY <1>0, <1>2, <1>4, BindWork DEF Follows
    <2> HIDE DEF named
    <2>2. WorkInv(g, bound) /\ Bound(bound, r.venue)
      <3> DEFINE d == note_venue_remaining(named.ctx, r.remaining_count)
      <3>1. CtxInv(d) /\ Quiet(named.ctx, d) /\ d.venue_order_id = named.ctx.venue_order_id
        BY <1>0, <2>1, NoteRemainingInv DEF WorkInv
      <3> HIDE DEF d
      <3>2. WorkInv(g, [named EXCEPT !.ctx = d]) /\ [named EXCEPT !.ctx = d].ctx = d
        BY <2>1, <3>1, QuietContext
      <3> QED BY <1>0, <2>1, <3>1, <3>2 DEF Bound, d
    <2> HIDE DEF bound
    <2> DEFINE h == Relaxed(g)
    <2>6. WorkInv(h, bound) /\ ~ h.exact
      BY <2>2, RelaxWork DEF Relaxed
    <2> HIDE DEF h
    <2>7. \A c : Claimed(h, c)
      BY <2>6 DEF Claimed
    <2>3. WorkInv(h, snapped) /\ Bound(snapped, r.venue) /\ snapped.ctx.response = SnapshotOf(r)
      <3> DEFINE d == [bound.ctx EXCEPT !.response = SnapshotOf(r)]
      <3>1. snapped = [bound EXCEPT !.ctx = d]
        BY <2>2 DEF WorkInv, WorkTyped
      <3>2. /\ CtxInv(d) /\ Grows(bound.ctx, d) /\ SameBooks(bound.ctx, d)
            /\ d.venue_order_id = bound.ctx.venue_order_id
        BY <1>0, <2>2, ResponseInv DEF WorkInv
      <3>4. d.response = SnapshotOf(r)
        BY <2>2 DEF WorkInv, CtxInv, CtxBase, CtxTyped
      <3> HIDE DEF snapped, d
      <3>5. Claimed(h, d)
        BY <2>7
      <3>3. WorkInv(h, snapped) /\ snapped.ctx = d
        BY <2>6, <3>1, <3>2, <3>5, FrameContext
      <3> QED BY <2>2, <3>2, <3>3, <3>4 DEF Bound
    <2> HIDE DEF snapped
    <2>4. CASE RaiseFails(r.fill_count)
      <3>1. OutcomeInv(g, ZeroFillResponse(bound, r))
        BY <2>2, ZeroFillInv
      <3>2. OutcomeInv(g, halt_with_reason("ObligationExceedsOrderQty", snapped))
        BY <2>3, UnclaimedHalt DEF HaltReason, h
      <3> QED BY <1>1, <1>4, <2>4, <3>1, <3>2 DEF o
    <2>5. CASE ~ RaiseFails(r.fill_count)
      <3>1. /\ WorkInv(h, raised) /\ Bound(raised, r.venue)
            /\ raised.ctx.response = SnapshotOf(r)
        <4>1. WorkInv(h, raised) /\ Bound(raised, r.venue)
          BY <1>0, <2>3, <2>5, ResponseEvidenceWork, BoundGrows DEF Follows
        <4>2. raised.ctx.response = SnapshotOf(r)
          BY <2>3, OperationsReply DEF WorkInv, CtxInv, CtxBase, SameReply
        <4> QED BY <4>1, <4>2
      <3> HIDE DEF raised
      <3>2. WorkInv(g, ready) /\ Bound(ready, r.venue) /\ ready.ctx.response = SnapshotOf(r)
        <4> DEFINE d == recompute_response_domain(raised.ctx)
        <4>1. /\ CtxInv(d) /\ Grows(raised.ctx, d) /\ SameBooks(raised.ctx, d)
              /\ d.venue_order_id = raised.ctx.venue_order_id
          BY <3>1, RecomputeInv DEF WorkInv
        <4>3. d.response = raised.ctx.response
          BY <3>1 DEF recompute_response_domain, WorkInv, CtxInv, CtxBase, CtxTyped
        <4>4. Exact(d)
          <5>1. raised.ctx.response.fill_count # None
            BY <1>0, <3>1, NoneAssumption DEF SnapshotOf
          <5> QED BY <3>1, <5>1, RecomputeInv DEF WorkInv
        <4> HIDE DEF d
        <4>5. Claimed(h, d)
          BY <2>7
        <4>2. WorkInv(h, [raised EXCEPT !.ctx = d]) /\ [raised EXCEPT !.ctx = d].ctx = d
          BY <3>1, <4>1, <4>5, FrameContext
        <4>6. WorkInv(g, [raised EXCEPT !.ctx = d])
          BY <4>2, <4>4, RelaxWork DEF Claimed, h
        <4> QED BY <3>1, <4>1, <4>2, <4>3, <4>6 DEF Bound, d
      <3> HIDE DEF ready
      <3>3. WorkInv(g, filed) /\ filed.ctx = ready.ctx
        <4>1. UnattributedRecord(r.venue, SnapshotOf(r)).rec \notin Reserved
          BY Unreserved
        <4> QED BY <3>2, <4>1, LogWork
      <3> HIDE DEF filed
      <3>4. WorkInv(g, entered) /\ entered.ctx = ready.ctx
        BY <3>3, AskWork DEF Requests
      <3> HIDE DEF entered
      <3>5. /\ StateInv(Unattributed(r), entered.ctx)
            /\ Unattributed(r).kind = "ImmediateFillUnattributed"
        BY <3>2, <3>4, UnattributedState DEF Bound
      <3>6. /\ OutcomeInv(g, ZeroFillResponse(bound, r))
            /\ OutcomeInv(g, halt_with_reason("CrossCheckMismatch", ready))
            /\ OutcomeInv(g, resolve_unattributed(entered, Unattributed(r)))
            /\ OutcomeInv(g, accept(Unattributed(r), entered))
        BY <2>2, <3>2, <3>4, <3>5, ZeroFillInv, HaltInv, ResolveInv, AcceptInv
        DEF HaltReason, Terminals, Halts, Driven, AskedFor
      <3> QED BY <1>1, <1>4, <2>5, <3>6 DEF o
    <2> QED BY <2>4, <2>5
  <1> QED BY <1>3, <1>4

\* A page of immediate fills ends well.
LEMMA ImmediateBackfillInv ==
  ASSUME NEW g, NEW w, WorkInv(g, w), NEW s, StateInv(s, w.ctx),
         s.kind = "ImmediateFillUnattributed", NEW page \in Seq(g.fills)
  PROVE  OutcomeInv(g, apply_immediate_fill_backfill(s, w, page))
  <1> DEFINE x == bind_venue_id(w, s.venue)
             a == AccountPage(x, page)
  <1>1. Bound(w, s.venue)
    BY StateBound
  <1>2. CASE BindError(w.ctx, s.venue) # None
    <2>1. BindError(w.ctx, s.venue) \in HaltReason
      BY <1>2 DEF BindError, HaltReason
    <2> QED BY <1>2, <2>1, HaltInv DEF apply_immediate_fill_backfill, ResolveAccounted
  <1>3. CASE BindError(w.ctx, s.venue) = None
    <2>1. Follows(g, w, x) /\ x.ctx.response = w.ctx.response
      BY <1>1, <1>3, BindWork, OperationsReply
      DEF Bound, WorkInv, CtxInv, CtxBase, SameReply
    <2> HIDE DEF x
    <2>2. PageInv(g, x, a)
      BY <2>1, PagesInv DEF Follows
    <2> HIDE DEF a
    <2>3. Follows(g, w, a.work)
      BY <2>1, <2>2, FollowsTransitive DEF PageInv
    <2>4. StateInv(s, a.work.ctx)
      <3>1. Mirrors(s, w.ctx) /\ a.work.ctx.response = w.ctx.response
        BY <2>1, <2>2 DEF PageInv, StateInv
      <3>2. Mirrors(s, a.work.ctx)
        BY <3>1, MirrorsStay
      <3> QED BY <2>3, <3>2, StateGrows DEF Follows, WorkInv, CtxInv
    <2>5. OutcomeInv(g, resolve_unattributed(a.work, s))
      BY <2>3, <2>4, ResolveInv DEF Follows
    <2>6. a.tag = "Halt" => OutcomeInv(g, halt_with_reason(a.reason, a.work))
      BY <2>2, <2>3, HaltInv DEF PageInv, Follows
    <2> QED BY <1>3, <2>5, <2>6 DEF apply_immediate_fill_backfill, ResolveAccounted, a, x
  <1> QED BY <1>2, <1>3

\* Finalizing a reconcile target ends well.
LEMMA ReconcileTargetInv ==
  ASSUME NEW g, NEW w, WorkInv(g, w), NEW v, Bound(w, v), NEW target \in Target
  PROVE  OutcomeInv(g, finalize_reconcile_target(w, target, v))
  <1> DEFINE unseen == IF target.filled = Qty THEN 0 ELSE 1
             remaining == OrElse(target.remaining,
                                 OrElse(w.ctx.last_venue_remaining_qty, unseen))
             p == IF target.terminal = "Filled" THEN Proposed("Filled", target.filled, remaining)
                  ELSE Proposed(target.terminal, None, None)
  <1>1. remaining \in Opt(Nat)
    BY DEF OrElse, Opt, Target, WorkInv, CtxInv, CtxBase, CtxTyped
  <1> HIDE DEF remaining
  <1>2. GoodProposal(p) /\ target.terminal \in Terminals
    BY <1>1 DEF GoodProposal, Proposed, Target, Terminals
  <1>3. finalize_reconcile_target(w, target, v)
          = try_finalize_terminal(w, p, v, target.terminal)
    BY DEF finalize_reconcile_target, remaining
  <1> HIDE DEF p
  <1> QED BY <1>2, <1>3, TryFinalizeInv

\* A pending cancel or reconcile after a fill.
LEMMA AfterFillInv ==
  ASSUME NEW g, NEW w, WorkInv(g, w), NEW v, Bound(w, v), NEW target \in Opt(Target), NEW enriched,
         target # None => /\ target.filled <= w.ctx.fill_obligation
                          /\ "ReconcilePending" \in g.standing
  PROVE  OutcomeInv(g, after_fill_cancel_or_reconcile(w, v, target, enriched))
  <1> DEFINE c == w.ctx
             o == after_fill_cancel_or_reconcile(w, v, target, enriched)
  <1>0. /\ remaining_qty_checked(c) \in Nat /\ remaining_qty_checked(c) # None
        /\ remaining_qty_checked(c) = Qty - c.attributed_fill_qty
        /\ c.attributed_fill_qty \in Nat /\ CtxInv(c)
    BY RemainingTyped DEF WorkInv
  <1>1. CASE target = None
    <2> DEFINE x == note_authority_complete(w, TRUE)
               p == Proposed("Filled", c.attributed_fill_qty, 0)
               s == CancelPending(c, v, c.attributed_fill_qty, remaining_qty_checked(c), None)
    <2>1. o \in {try_finalize_terminal(x, p, v, "Filled"), accept(s, w)}
      BY <1>0, <1>1 DEF after_fill_cancel_or_reconcile
    <2>2. WorkInv(g, x) /\ Bound(x, v)
      BY AuthorityWork, BoundGrows DEF Follows
    <2>3. GoodProposal(p) /\ "Filled" \in Terminals
      BY <1>0 DEF GoodProposal, Proposed, Terminals, Opt
    <2>4. StateInv(s, c) /\ s.kind = "CancelPending"
      <3> DEFINE m == c.attributed_fill_qty
                 n == Qty - m
      <3>1. remaining_qty_checked(c) = n /\ m \in Nat /\ v \in Venues /\ c.venue_order_id = v
        BY <1>0 DEF Bound
      <3>2. 0 \in Nat /\ None \in Opt(Target)
        BY DEF Opt
      <3> HIDE DEF n, c
      <3>3. StateInv(CancelPending(c, v, m, Qty - m, None), c)
            /\ CancelPending(c, v, m, Qty - m, None).kind = "CancelPending"
        BY <1>0, <3>1, <3>2, VenueStates
      <3> QED BY <3>1, <3>3 DEF n
    <2> HIDE DEF x, p, s, o
    <2>5. OutcomeInv(g, try_finalize_terminal(x, p, v, "Filled"))
      BY <2>2, <2>3, TryFinalizeInv
    <2>6. OutcomeInv(g, accept(s, w))
      BY <2>4, AcceptInv DEF Terminals, Halts, Driven, AskedFor
    <2> QED BY <2>1, <2>5, <2>6 DEF o
  <1>2. CASE target # None /\ RaiseFails(target.filled)
    <2>1. o = halt_with_reason("ObligationExceedsOrderQty", w)
      BY <1>0, <1>2 DEF after_fill_cancel_or_reconcile
    <2> QED BY <2>1, HaltInv DEF HaltReason
  <1>3. CASE target # None /\ ~ RaiseFails(target.filled)
    <2> DEFINE raised == note_fill_evidence(w, target.filled)
               rc == raised.ctx
               covered == note_authority_complete(raised, rc.attributed_fill_qty = Qty)
    <2>1. target \in Target /\ target.filled \in Nat /\ target.terminal \in Terminals
          /\ target.remaining \in Opt(Nat)
      BY <1>3 DEF Opt, Target
    <2>2. o \in {not_ready_for_terminal(raised, v, target.terminal, TRUE, target.remaining),
                 finalize_reconcile_target(covered, target, v),
                 accept(ReconcilePending(rc, v, target), raised)}
      BY <1>0, <1>3 DEF after_fill_cancel_or_reconcile
    <2>3. WorkInv(g, raised) /\ Bound(raised, v) /\ rc.fill_obligation >= target.filled
      BY <1>3, <2>1, EvidenceWork, BoundGrows DEF Follows, WorkInv, CtxInv
    <2> HIDE DEF raised, o
    <2>4. WorkInv(g, covered) /\ Bound(covered, v)
      BY <2>3, AuthorityWork, BoundGrows DEF Follows
    <2> HIDE DEF covered
    <2>5. /\ StateInv(ReconcilePending(rc, v, target), rc)
          /\ ReconcilePending(rc, v, target).kind = "ReconcilePending"
      <3>1. CtxInv(rc) /\ rc.fill_obligation \in Nat
        BY <2>3, Numbers DEF WorkInv, CtxInv
      <3>2. target.filled <= rc.fill_obligation
        BY <2>1, <2>3, <3>1
      <3> QED BY <2>1, <2>3, <3>1, <3>2, VenueStates DEF Bound, Opt
    <2>6. OutcomeInv(g, not_ready_for_terminal(raised, v, target.terminal, TRUE, target.remaining))
      BY <2>1, <2>3, NotReadyInv
    <2>7. OutcomeInv(g, finalize_reconcile_target(covered, target, v))
      BY <2>1, <2>4, ReconcileTargetInv
    <2>8. OutcomeInv(g, accept(ReconcilePending(rc, v, target), raised))
      <3>1. Driven(g, ReconcilePending(rc, v, target), raised)
        BY <1>3, <2>5 DEF Driven
      <3> QED BY <2>3, <2>5, <3>1, AcceptInv DEF Terminals, Halts
    <2> QED BY <2>2, <2>6, <2>7, <2>8 DEF o
  <1> QED BY <1>1, <1>2, <1>3

\* A fill on an order that is open or whose submission is unknown.
LEMMA OpenFillInv ==
  ASSUME NEW g, NEW w, WorkInv(g, w), NEW s, StateInv(s, w.ctx), NEW f \in g.fills,
         s.kind \in LiveKinds \cup PendingKinds \cup {"SubmitStarted", "SubmitUnknown"},
         s.kind \in g.standing
  PROVE  IF s.kind = "SubmitUnknown" THEN OutcomeInv(g, apply_fill_dedup_only(s, w, f))
         ELSE OutcomeInv(g, apply_fill_while_open(s, w, f))
  <1> DEFINE a == account_fill_core(w, f)
             x == a.work
  <1>1. AttemptInv(g, w, a)
    BY AccountFillInv
  <1>2. Follows(g, w, x) /\ WorkInv(g, x) /\ CtxInv(w.ctx) /\ CtxInv(x.ctx)
    BY <1>1 DEF AttemptInv, Follows, WorkInv
  <1> HIDE DEF a
  <1>3. /\ a.tag \in {"NoOp", "Enriched"} => StateInv(s, x.ctx)
        /\ s.kind \in {"SubmitStarted", "SubmitUnknown"} => StateInv(s, x.ctx)
    <2>1. Mirrors(s, w.ctx)
      BY DEF StateInv
    <2>2. a.tag \in {"NoOp", "Enriched"} => Mirrors(s, x.ctx)
      BY <1>1, <2>1, MirrorsStay DEF AttemptInv, GateFrame
    <2>3. s.kind \in {"SubmitStarted", "SubmitUnknown"} => Mirrors(s, x.ctx)
      BY <2>1, MirrorsStay DEF MirrorKinds, PendingKinds
    <2> QED BY <1>2, <2>2, <2>3, StateGrows DEF Follows, CtxInv
  <1>11. a.tag \in {"NoOp", "Applied", "Enriched", "Halt"}
    BY <1>1 DEF AttemptInv
  <1>4. s.kind \notin Terminals \cup Halts \cup {"SubmissionClosed"}
    BY DEF LiveKinds, PendingKinds, Terminals, Halts
  <1>5. a.tag = "Halt" => OutcomeInv(g, halt_with_reason(a.reason, x))
    BY <1>1, <1>2, HaltInv DEF AttemptInv
  <1>6. /\ OutcomeInv(g, accept(s, w))
        /\ a.tag \in {"NoOp", "Enriched"} => OutcomeInv(g, accept(s, x))
        /\ s.kind \in {"SubmitStarted", "SubmitUnknown"} => OutcomeInv(g, accept(s, x))
    BY <1>2, <1>3, <1>4, AcceptInv DEF Driven
  <1>7. s.kind \in {"SubmitStarted", "SubmitUnknown"}
          => OutcomeInv(g, apply_fill_dedup_only(s, w, f))
    BY <1>5, <1>6 DEF apply_fill_dedup_only, a
  <1>12. CASE s.kind = "SubmitUnknown"
    BY <1>7, <1>12
  <1>8. CASE s.kind = "SubmitStarted"
    BY <1>5, <1>6, <1>8 DEF apply_fill_while_open, AfterOpenFill, a
  <1>9. CASE s.kind \in PendingKinds
    <2>1. Bound(x, s.venue)
      BY <1>2, <1>9, StateBound, BoundGrows
    <2>2. s.target \in Opt(Target) /\ (s.target # None => s.target.filled <= x.ctx.fill_obligation)
      <3>1. /\ s.target \in Opt(Target)
            /\ s.target # None => s.target.filled \in Nat /\ s.target.filled <= w.ctx.fill_obligation
        BY DEF StateInv, OrderState, Opt, Target
      <3> QED BY <1>2, <3>1, Numbers DEF Follows, Grows, CtxInv
    <2>4. s.target # None => "ReconcilePending" \in g.standing
      BY <1>9 DEF StateInv, PendingKinds
    <2>3. OutcomeInv(g, after_fill_cancel_or_reconcile(x, s.venue, s.target, a.tag = "Enriched"))
      BY <1>2, <2>1, <2>2, <2>4, AfterFillInv
    <2> QED BY <1>5, <1>6, <1>9, <2>3 DEF apply_fill_while_open, AfterOpenFill, a, PendingKinds
  <1>10. CASE s.kind \in LiveKinds
    <2>1. Bound(x, s.venue)
      BY <1>2, <1>10, StateBound, BoundGrows
    <2>2. OutcomeInv(g, route_live_or_filled(x, x.ctx.venue_order_id))
      BY <1>2, <2>1, RouteLiveInv DEF Bound
    <2>3. s.kind \notin {"SubmitStarted", "SubmitUnknown"} /\ s.kind \notin PendingKinds
      BY <1>10 DEF LiveKinds, PendingKinds
    <2> QED BY <1>5, <1>6, <2>2, <2>3 DEF apply_fill_while_open, AfterOpenFill, a
  <1> QED BY <1>8, <1>9, <1>10, <1>12

-----------------------------------------------------------------------------
(* Handlers: venue reports and cancel outcomes                             *)

\* Journalling a report leaves the context alone.
LEMMA ObservedWork ==
  ASSUME NEW g, NEW w, WorkInv(g, w), NEW v, NEW rep
  PROVE  /\ WorkInv(g, Observed(w, v, rep, TRUE)) /\ Observed(w, v, rep, TRUE).ctx = w.ctx
         /\ WorkInv(g, Observed(w, v, rep, FALSE)) /\ Observed(w, v, rep, FALSE).ctx = w.ctx
  <1> DEFINE r(complete) == ReconcileObservedRecord(w.ctx, v, rep.filled, rep.remaining,
                                                    rep.others, complete)
  <1>2. /\ Observed(w, v, rep, TRUE) = AppendFsync(w, r(TRUE))
        /\ Observed(w, v, rep, FALSE) = AppendFsync(w, r(FALSE))
    BY DEF Observed
  <1>1. r(TRUE).rec \notin Reserved /\ r(FALSE).rec \notin Reserved
    BY Unreserved
  <1> HIDE DEF r
  <1> QED BY <1>1, <1>2, LogWork

\* Going (back) to a live state is a good outcome.
LEMMA LiveStatesInv ==
  ASSUME NEW g, NEW w, WorkInv(g, w), NEW v, Bound(w, v),
         NEW m, m = w.ctx.attributed_fill_qty, NEW n \in Nat
  PROVE  OutcomeInv(g, accept(Accepted(v), w)) /\ OutcomeInv(g, accept(Partial(v, m, n), w))
  <1>1. None \in Opt(Target) /\ CtxInv(w.ctx)
    BY DEF Opt, WorkInv
  <1>2. /\ StateInv(Accepted(v), w.ctx) /\ Accepted(v).kind = "Accepted"
        /\ StateInv(Partial(v, m, n), w.ctx) /\ Partial(v, m, n).kind = "Partial"
    BY <1>1, VenueStates DEF Bound
  <1> QED BY <1>2, AcceptInv DEF Terminals, Halts, Driven, AskedFor

\* So is going back to live while fills lag.
LEMMA ContinueInv ==
  ASSUME NEW g, NEW w, WorkInv(g, w), NEW v, Bound(w, v)
  PROVE  OutcomeInv(g, continue_reconcile_pending(w, v))
  <1> DEFINE x == Ask(w, {"BackfillFills"})
             n == w.ctx.attributed_fill_qty
             m == remaining_qty(w.ctx)
  <1>1. WorkInv(g, x) /\ Bound(x, v)
    BY AskWork DEF Requests, Bound
  <1>2. m \in Nat /\ n = x.ctx.attributed_fill_qty
    BY RemainingTyped, AskWork DEF WorkInv, Requests
  <1>3. continue_reconcile_pending(w, v) \in {accept(Accepted(v), x), accept(Partial(v, n, m), x)}
    BY DEF continue_reconcile_pending
  <1> HIDE DEF x, n, m
  <1> QED BY <1>1, <1>2, <1>3, LiveStatesInv

\* The status match of a report ends well.
LEMMA RouteStatusInv ==
  ASSUME NEW g, NEW w, WorkInv(g, w), NEW v, Bound(w, v), NEW rep \in Report, ~ MemberError(rep)
  PROVE  OutcomeInv(g, RouteStatus(w, v, rep))
  <1> DEFINE n == w.ctx.attributed_fill_qty
             remaining == Qty - rep.others - n
             p == Proposed("Filled", rep.filled, rep.remaining)
  <1>1. n \in Nat /\ remaining \in Int /\ rep.filled \in Nat /\ rep.remaining \in Nat
    BY RemainingTyped, QtyAssumption DEF WorkInv, Report
  <1>2. GoodProposal(p) /\ GoodProposal(ProposedCanceled)
        /\ "Filled" \in Terminals /\ "Canceled" \in Terminals
    BY <1>1 DEF GoodProposal, Proposed, ProposedCanceled, Terminals, Opt
  <1>3. RouteStatus(w, v, rep)
          \in {try_finalize_terminal(w, ProposedCanceled, v, "Canceled"),
               try_finalize_terminal(w, p, v, "Filled"), continue_reconcile_pending(w, v),
               halt_with_reason("OverFill", w), halt_with_reason("CrossCheckMismatch", w),
               accept(Accepted(v), w)}
          \cup (IF remaining < 0 THEN {} ELSE {accept(Partial(v, n, remaining), w)})
    BY DEF RouteStatus
  <1> HIDE DEF p, remaining
  <1>4. OutcomeInv(g, try_finalize_terminal(w, ProposedCanceled, v, "Canceled"))
        /\ OutcomeInv(g, try_finalize_terminal(w, p, v, "Filled"))
    BY <1>2, TryFinalizeInv
  <1>5. OutcomeInv(g, halt_with_reason("OverFill", w))
        /\ OutcomeInv(g, halt_with_reason("CrossCheckMismatch", w))
    BY HaltInv DEF HaltReason
  <1>6. OutcomeInv(g, continue_reconcile_pending(w, v))
    BY ContinueInv
  <1>7. OutcomeInv(g, accept(Accepted(v), w))
        /\ (~ (remaining < 0) => OutcomeInv(g, accept(Partial(v, n, remaining), w)))
    <2>1. ~ (remaining < 0) => remaining \in Nat
      BY <1>1
    <2> QED BY <1>1, <2>1, LiveStatesInv
  <1> QED BY <1>3, <1>4, <1>5, <1>6, <1>7

\* Bind, note the venue's remaining and journal the observation.
LEMMA SeenWork ==
  ASSUME NEW g, NEW w, WorkInv(g, w), NEW v \in Venues, BindError(w.ctx, v) = None, NEW rep \in Report
  PROVE  LET bound == bind_venue_id(w, v)
             seen == Observed([bound EXCEPT !.ctx = note_venue_remaining(bound.ctx, rep.remaining)],
                              v, rep, FALSE)
         IN WorkInv(g, seen) /\ Bound(seen, v)
  <1> DEFINE bound == bind_venue_id(w, v)
             noted == [bound EXCEPT !.ctx = note_venue_remaining(bound.ctx, rep.remaining)]
  <1>1. WorkInv(g, bound) /\ bound.ctx.venue_order_id = v
    BY BindWork DEF Follows
  <1> HIDE DEF bound
  <1>2. WorkInv(g, noted) /\ noted.ctx.venue_order_id = v
    <2>1. rep.remaining \in Opt(Nat)
      BY DEF Report, Opt
    <2> DEFINE d == note_venue_remaining(bound.ctx, rep.remaining)
    <2>2. CtxInv(d) /\ Quiet(bound.ctx, d) /\ d.venue_order_id = bound.ctx.venue_order_id
      BY <1>1, <2>1, NoteRemainingInv DEF WorkInv
    <2> HIDE DEF d
    <2>3. WorkInv(g, [bound EXCEPT !.ctx = d]) /\ [bound EXCEPT !.ctx = d].ctx = d
      BY <1>1, <2>2, QuietContext
    <2> QED BY <1>1, <2>2, <2>3 DEF d
  <1> HIDE DEF noted
  <1>3. WorkInv(g, Observed(noted, v, rep, FALSE)) /\ Bound(Observed(noted, v, rep, FALSE), v)
    <2>1. /\ WorkInv(g, Observed(noted, v, rep, FALSE))
          /\ Observed(noted, v, rep, FALSE).ctx = noted.ctx
      <3>1. \A n : WorkInv(g, n) => /\ WorkInv(g, Observed(n, v, rep, FALSE))
                                    /\ Observed(n, v, rep, FALSE).ctx = n.ctx
        BY ObservedWork
      <3> QED BY <1>2, <3>1
    <2> QED BY <1>2, <2>1 DEF Bound
  <1> QED BY <1>3 DEF noted, bound

\* A report ends well: the gate sees what it established.
LEMMA RouteReportInv ==
  ASSUME NEW g, NEW w, WorkInv(g, w), NEW v \in Venues, NEW rep \in Report,
         NEW page \in Seq(g.fills), NEW complete
  PROVE  OutcomeInv(g, route_from_backfill_status(w, v, rep, page, complete))
  <1> DEFINE member == rep.filled - rep.others
             bound == bind_venue_id(w, v)
             seen == Observed([bound EXCEPT !.ctx = note_venue_remaining(bound.ctx, rep.remaining)],
                              v, rep, FALSE)
             raised == note_fill_evidence(seen, member)
             a == AccountPage(raised, page)
             latched == note_authority_complete(a.work, complete)
             final == IF complete THEN Observed(latched, v, rep, TRUE) ELSE latched
             o == route_from_backfill_status(w, v, rep, page, complete)
  <1>0. o = IF MemberError(rep) THEN halt_with_reason("CrossCheckMismatch", w)
            ELSE IF BindError(w.ctx, v) # None THEN halt_with_reason(BindError(w.ctx, v), w)
            ELSE IF RaiseFails(member) THEN halt_with_reason("ObligationExceedsOrderQty", seen)
            ELSE IF a.tag = "Halt" THEN halt_with_reason(a.reason, a.work)
            ELSE IF final.ctx.attributed_fill_qty > member
            THEN halt_with_reason("CrossCheckMismatch", final)
            ELSE RouteStatus(final, v, rep)
    BY DEF route_from_backfill_status, RouteAccounted, RouteSettled
  <1> HIDE DEF o
  <1>1. CASE MemberError(rep)
    BY <1>0, <1>1, HaltInv DEF HaltReason, o
  <1>2. CASE ~ MemberError(rep) /\ BindError(w.ctx, v) # None
    <2>1. BindError(w.ctx, v) \in HaltReason
      BY <1>2 DEF BindError, HaltReason
    <2> QED BY <1>0, <1>2, <2>1, HaltInv DEF o
  <1>3. CASE ~ MemberError(rep) /\ BindError(w.ctx, v) = None
    <2>1. WorkInv(g, seen) /\ Bound(seen, v)
      BY <1>3, SeenWork
    <2> HIDE DEF seen
    <2>2. CASE RaiseFails(member)
      BY <1>0, <1>3, <2>1, <2>2, HaltInv DEF HaltReason, o
    <2>3. CASE ~ RaiseFails(member)
      <3>1. member \in Nat
        BY <1>3 DEF MemberError, Report
      <3> HIDE DEF member
      <3>2. WorkInv(g, raised) /\ Bound(raised, v)
        BY <2>1, <2>3, <3>1, EvidenceWork, BoundGrows DEF WorkInv, CtxInv, Follows
      <3> HIDE DEF raised
      <3>3. PageInv(g, raised, a)
        BY <3>2, PagesInv
      <3>4. WorkInv(g, a.work) /\ Bound(a.work, v)
        BY <3>2, <3>3, BoundGrows DEF PageInv, Follows
      <3> HIDE DEF a
      <3>5. WorkInv(g, latched) /\ Bound(latched, v)
        BY <3>4, AuthorityWork, BoundGrows DEF Follows
      <3> HIDE DEF latched
      <3>6. WorkInv(g, final) /\ Bound(final, v)
        <4>1. /\ WorkInv(g, Observed(latched, v, rep, TRUE))
              /\ Observed(latched, v, rep, TRUE).ctx = latched.ctx
          BY <3>5, ObservedWork
        <4> QED BY <3>5, <4>1 DEF Bound
      <3> HIDE DEF final
      <3>7. /\ a.tag = "Halt" => OutcomeInv(g, halt_with_reason(a.reason, a.work))
            /\ OutcomeInv(g, halt_with_reason("CrossCheckMismatch", final))
            /\ OutcomeInv(g, RouteStatus(final, v, rep))
        BY <1>3, <3>3, <3>4, <3>6, HaltInv, RouteStatusInv DEF HaltReason, PageInv
      <3> QED BY <1>0, <1>3, <2>3, <3>7 DEF o
    <2> QED BY <2>2, <2>3
  <1> QED BY <1>1, <1>2, <1>3

\* A reconcile result ends well.
LEMMA ReconcileReportInv ==
  ASSUME NEW g, NEW w, WorkInv(g, w), NEW s, StateInv(s, w.ctx), s.kind \in PendingKinds,
         NEW rep \in Report, NEW page \in Seq(g.fills), NEW complete
  PROVE  OutcomeInv(g, ReconcileReport(s, w, rep, page, complete))
  <1> DEFINE bound == bind_venue_id(w, s.venue)
             v == OrElse(rep.venue, s.venue)
  <1>1. s.venue \in Venues /\ v \in Venues
    <2>1. Bound(w, s.venue)
      BY StateBound
    <2> QED BY <2>1 DEF Bound, OrElse, Report, Opt
  <1>2. \A c, u : BindError(c, u) # None => BindError(c, u) \in HaltReason
    BY DEF BindError, HaltReason
  <1>3. ReconcileReport(s, w, rep, page, complete)
          = IF BindError(w.ctx, s.venue) # None
            THEN halt_with_reason(BindError(w.ctx, s.venue), w)
            ELSE IF BindError(bound.ctx, v) # None
            THEN halt_with_reason(BindError(bound.ctx, v), bound)
            ELSE route_from_backfill_status(bound, v, rep, page, complete)
    BY DEF ReconcileReport
  <1> HIDE DEF v
  <1>4. CASE BindError(w.ctx, s.venue) # None
    BY <1>2, <1>3, <1>4, HaltInv
  <1>5. CASE BindError(w.ctx, s.venue) = None
    <2>1. WorkInv(g, bound)
      BY <1>1, <1>5, BindWork DEF Follows
    <2> HIDE DEF bound
    <2>2. OutcomeInv(g, route_from_backfill_status(bound, v, rep, page, complete))
      BY <1>1, <2>1, RouteReportInv
    <2> QED BY <1>2, <1>3, <1>5, <2>1, <2>2, HaltInv
  <1> QED BY <1>4, <1>5

\* A matched row of an unknown submission ends well.
LEMMA MatchedInv ==
  ASSUME NEW g, NEW w, WorkInv(g, w), NEW exhaustive, NEW rep \in Report, rep.venue # None,
         NEW page \in Seq(g.fills)
  PROVE  OutcomeInv(g, MatchedBackfill(w, exhaustive, rep, page))
  <1> DEFINE v == rep.venue
             member == rep.filled - rep.others
             bound == bind_venue_id(w, v)
             seen == Observed([bound EXCEPT !.ctx = note_venue_remaining(bound.ctx, rep.remaining)],
                              v, rep, FALSE)
             raised == note_fill_evidence(seen, member)
             latched == note_authority_complete(raised, TRUE)
             a == AccountOwnedPage(latched, page)
             final == note_authority_complete(a.work, TRUE)
             S == {"BackfillUnknown"}
                  \cup (IF rep.filled > 0 /\ page = <<>> THEN {"BackfillFills"} ELSE {})
             o == MatchedBackfill(w, exhaustive, rep, page)
  <1>0. o = IF ~ rep.mine THEN halt_with_reason("Operator", w)
            ELSE IF ~ exhaustive THEN accept(Plain("SubmitUnknown"), Ask(w, S))
            ELSE IF MemberError(rep) THEN halt_with_reason("CrossCheckMismatch", w)
            ELSE IF BindError(w.ctx, v) # None THEN halt_with_reason(BindError(w.ctx, v), w)
            ELSE IF RaiseFails(member) THEN halt_with_reason("ObligationExceedsOrderQty", seen)
            ELSE IF a.tag = "Halt" THEN halt_with_reason(a.reason, a.work)
            ELSE route_from_backfill_status(final, v, rep, <<>>, TRUE)
    BY DEF MatchedBackfill, RouteMatched
  <1>1. v \in Venues
    BY DEF Report, Opt
  <1>2. S \in SUBSET Requests /\ "BackfillUnknown" \in S
    BY DEF Requests
  <1> HIDE DEF o, S
  <1>3. OutcomeInv(g, accept(Plain("SubmitUnknown"), Ask(w, S)))
    <2>1. WorkInv(g, Ask(w, S))
      BY <1>2, AskWork
    <2>2. "SubmitUnknown" \in Kinds \ (LiveKinds \cup PendingKinds \cup {"ImmediateFillUnattributed"})
          /\ None \in Opt(HaltReason \cup CloseReasons)
      BY DEF Kinds, LiveKinds, PendingKinds, Opt
    <2>3. StateInv(Plain("SubmitUnknown"), Ask(w, S).ctx) /\ Plain("SubmitUnknown").kind = "SubmitUnknown"
      BY <2>2, PlainInv
    <2>4. "BackfillUnknown" \in Ask(w, S).asks
      BY <1>2 DEF WorkInv, WorkTyped, Ask
    <2>5. Driven(g, Plain("SubmitUnknown"), Ask(w, S))
      BY <2>3, <2>4 DEF Driven, AskedFor
    <2> QED BY <2>1, <2>3, <2>5, AcceptInv DEF Terminals, Halts
  <1>4. OutcomeInv(g, halt_with_reason("Operator", w))
        /\ OutcomeInv(g, halt_with_reason("CrossCheckMismatch", w))
    BY HaltInv DEF HaltReason
  <1>5. CASE MemberError(rep)
    BY <1>0, <1>3, <1>4, <1>5 DEF o
  <1>6. CASE BindError(w.ctx, v) # None
    <2>1. BindError(w.ctx, v) \in HaltReason
      BY <1>6 DEF BindError, HaltReason
    <2> QED BY <1>0, <1>3, <1>4, <1>6, <2>1, HaltInv DEF o
  <1>7. CASE ~ MemberError(rep) /\ BindError(w.ctx, v) = None
    <2>1. WorkInv(g, seen)
      BY <1>1, <1>7, SeenWork
    <2> HIDE DEF seen
    <2>2. CASE RaiseFails(member)
      <3>1. OutcomeInv(g, halt_with_reason("ObligationExceedsOrderQty", seen))
        BY <2>1, HaltInv DEF HaltReason
      <3> QED BY <1>0, <1>3, <1>4, <1>7, <2>2, <3>1 DEF o
    <2>3. CASE ~ RaiseFails(member)
      <3>1. member \in Nat
        BY <1>7 DEF MemberError, Report
      <3> HIDE DEF member
      <3>2. WorkInv(g, raised)
        BY <2>1, <2>3, <3>1, EvidenceWork DEF WorkInv, CtxInv, Follows
      <3> HIDE DEF raised
      <3>3. WorkInv(g, latched)
        BY <3>2, AuthorityWork DEF Follows
      <3> HIDE DEF latched
      <3>4. PageInv(g, latched, a)
        BY <3>3, PagesInv
      <3> HIDE DEF a
      <3>5. WorkInv(g, final)
        BY <3>4, AuthorityWork DEF PageInv, Follows
      <3> HIDE DEF final
      <3>6. a.tag = "Halt" => OutcomeInv(g, halt_with_reason(a.reason, a.work))
        BY <3>4, HaltInv DEF PageInv, Follows
      <3>7. OutcomeInv(g, route_from_backfill_status(final, v, rep, <<>>, TRUE))
        <4>1. <<>> \in Seq(g.fills)
          OBVIOUS
        <4>2. \A complete : OutcomeInv(g, route_from_backfill_status(final, v, rep, <<>>, complete))
          BY <1>1, <3>5, <4>1, RouteReportInv
        <4> QED BY <4>2
      <3> QED BY <1>0, <1>3, <1>4, <1>7, <2>3, <3>6, <3>7 DEF o
    <2> QED BY <2>2, <2>3
  <1> QED BY <1>5, <1>6, <1>7

\* A cancel makes the authority stale and is journalled.
LEMMA CancelLogged ==
  ASSUME NEW g, NEW w, WorkInv(g, w)
  PROVE  /\ Follows(g, w, AppendFsync(authority_invalidate_effects(w), CancelRecord))
         /\ SameReply(w.ctx, AppendFsync(authority_invalidate_effects(w), CancelRecord).ctx)
         /\ ~ AppendFsync(authority_invalidate_effects(w), CancelRecord).ctx.authority_complete
  <1> DEFINE x == authority_invalidate_effects(w)
  <1>1. CtxInv(w.ctx) /\ WorkTyped(w) /\ CtxBase(w.ctx)
    BY DEF WorkInv, CtxInv
  <1>2. /\ WorkTyped(x) /\ CtxBase(x.ctx) /\ Quiet(w.ctx, x.ctx)
        /\ x.ctx.fill_obligation = w.ctx.fill_obligation
        /\ x.ctx.attributed_fill_qty = w.ctx.attributed_fill_qty
        /\ ~ x.ctx.authority_complete
        /\ x.qty = w.qty /\ x.fee = w.fee /\ Marks(x.log) = Marks(w.log)
    BY <1>1, InvalidateWork
  <1>3. SameReply(w.ctx, x.ctx)
    BY <1>1, OperationsReply DEF CtxBase
  <1> HIDE DEF x
  <1>4. /\ WorkTyped(AppendFsync(x, CancelRecord)) /\ AppendFsync(x, CancelRecord).ctx = x.ctx
        /\ AppendFsync(x, CancelRecord).qty = w.qty /\ AppendFsync(x, CancelRecord).fee = w.fee
        /\ Marks(AppendFsync(x, CancelRecord).log) = Marks(w.log)
    <2>1. CancelRecord.rec \notin Reserved
      BY Unreserved
    <2> QED BY <1>2, <2>1, AppendWork
  <1> QED BY <1>1, <1>2, <1>3, <1>4, QuietWork DEF CtxInv, x

\* Every cancel outcome ends well.
LEMMA SettleInv ==
  ASSUME NEW g, NEW w, WorkInv(g, w), NEW s, StateInv(s, w.ctx), s.kind = "CancelPending", NEW outcome
  PROVE  /\ OutcomeInv(g, SettleCancel(s, w, outcome))
         /\ SettleCancel(s, w, outcome).work.ctx = w.ctx
  <1> DEFINE c == w.ctx
             waiting == CancelPending(c, s.venue, s.filled, s.remaining, s.target)
             n == MaxOf(c.attributed_fill_qty, s.filled)
             m == remaining_qty(c)
             fallback == IF c.fill_obligation > 0 THEN "Filled" ELSE "Canceled"
             asking == Ask(w, {"ReconcileCancel"})
  <1>1. /\ SettleCancel(s, w, outcome)
             \in {try_finalize_terminal(w, ProposedCanceled, s.venue, "Canceled"),
                  try_finalize_terminal(w, ProposedTerminal, s.venue, fallback),
                  accept(waiting, w), accept(Accepted(s.venue), w),
                  accept(Partial(s.venue, n, m), w), accept(waiting, asking)}
    BY DEF SettleCancel
  <1>2. /\ s.filled \in Nat /\ s.remaining \in Nat /\ s.target \in Opt(Target)
        /\ Bound(w, s.venue)
    BY StateBound DEF StateInv, OrderState, PendingKinds
  <1>11. s.filled = c.attributed_fill_qty /\ s.remaining = Qty - c.attributed_fill_qty
    BY DEF StateInv, Mirrors, PendingKinds
  <1>3. StateInv(waiting, c) /\ waiting.kind = "CancelPending"
    <2>1. /\ StateInv(CancelPending(c, s.venue, s.filled, Qty - s.filled, None), c)
          /\ CancelPending(c, s.venue, s.filled, Qty - s.filled, None).kind = "CancelPending"
      BY <1>2, <1>11, VenueStates DEF Bound, WorkInv, StateInv
    <2>2. s.target = None
      BY DEF StateInv
    <2> QED BY <1>11, <2>1, <2>2
  <1>4. n = c.attributed_fill_qty /\ m \in Nat
    BY <1>2, <1>11, RemainingTyped DEF MaxOf, WorkInv
  <1>5. /\ GoodProposal(ProposedCanceled) /\ GoodProposal(ProposedTerminal)
        /\ "Canceled" \in Terminals /\ fallback \in Terminals
    BY DEF GoodProposal, ProposedCanceled, ProposedTerminal, Proposed, Terminals
  <1>6. WorkInv(g, asking) /\ asking.ctx = c
    BY AskWork DEF Requests
  <1> HIDE DEF n, m, waiting, fallback, asking
  <1>7. OutcomeInv(g, accept(waiting, w)) /\ OutcomeInv(g, accept(waiting, asking))
    BY <1>3, <1>6, AcceptInv DEF Terminals, Halts, Driven, AskedFor
  <1>8. OutcomeInv(g, accept(Accepted(s.venue), w)) /\ OutcomeInv(g, accept(Partial(s.venue, n, m), w))
    BY <1>2, <1>4, LiveStatesInv
  <1>9. /\ OutcomeInv(g, try_finalize_terminal(w, ProposedCanceled, s.venue, "Canceled"))
        /\ OutcomeInv(g, try_finalize_terminal(w, ProposedTerminal, s.venue, fallback))
    BY <1>2, <1>5, TryFinalizeInv
  <1>10. SettleCancel(s, w, outcome).work.ctx = w.ctx
    BY <1>1, <1>6, OutcomeCtx, TryFinalizeCtx DEF WorkInv
  <1> QED BY <1>1, <1>7, <1>8, <1>9, <1>10

\* A cancel outcome raises what the pending state knew, then waits, goes back
\* to live, or asks the gate.
LEMMA CancelOutcomeInv ==
  ASSUME NEW g, NEW w, WorkInv(g, w), NEW s, StateInv(s, w.ctx), s.kind = "CancelPending", NEW outcome
  PROVE  /\ OutcomeInv(g, apply_cancel_outcome(s, w, outcome))
         /\ ~ apply_cancel_outcome(s, w, outcome).work.ctx.authority_complete
  <1> DEFINE logged == AppendFsync(authority_invalidate_effects(w), CancelRecord)
             rc == s.resp.fill_count
             snapped == [logged EXCEPT !.ctx.response.fill_count
                                         = OrElse(logged.ctx.response.fill_count, rc)]
             counted == IF rc = None THEN logged ELSE NoteResponseEvidence(snapped, rc)
             avg == OrElse(counted.ctx.response.avg, s.resp.avg)
             fee == OrElse(counted.ctx.response.fee, s.resp.fee)
             kept == [counted EXCEPT !.ctx.response.avg = avg, !.ctx.response.fee = fee]
             raised == note_fill_evidence(kept, s.target.filled)
             rest == OrElse(s.target.remaining, raised.ctx.last_venue_remaining_qty)
             aimed == IF s.target = None THEN kept
                      ELSE [raised EXCEPT !.ctx.last_venue_remaining_qty = rest]
             bound == bind_venue_id(aimed, s.venue)
             o == apply_cancel_outcome(s, w, outcome)
  <1>0. o = IF rc # None /\ RaiseFails(rc)
            THEN halt_with_reason("ObligationExceedsOrderQty", snapped)
            ELSE IF s.target # None /\ RaiseFails(s.target.filled)
            THEN halt_with_reason("ObligationExceedsOrderQty", kept)
            ELSE IF BindError(aimed.ctx, s.venue) # None
            THEN halt_with_reason(BindError(aimed.ctx, s.venue), aimed)
            ELSE SettleCancel(s, bound, outcome)
    BY DEF apply_cancel_outcome
  <1> HIDE DEF o
  <1>1. /\ rc \in Opt(Nat) /\ s.resp.avg \in Opt(Nat) /\ s.resp.fee \in Opt(Nat)
        /\ s.filled \in Nat /\ s.remaining \in Nat /\ s.target \in Opt(Target)
        /\ Bound(w, s.venue)
    BY StateBound DEF StateInv, OrderState, Resp, PendingKinds
  <1>6. /\ rc = w.ctx.response.fill_count /\ s.resp.avg = w.ctx.response.avg
        /\ s.resp.fee = w.ctx.response.fee
    BY DEF StateInv, Mirrors, PendingKinds, RespOf
  <1>2. /\ Follows(g, w, logged) /\ WorkInv(g, logged) /\ ~ logged.ctx.authority_complete
        /\ SameReply(w.ctx, logged.ctx)
    BY CancelLogged DEF Follows
  <1> HIDE DEF logged
  <1>3. /\ Follows(g, w, snapped) /\ WorkInv(g, snapped) /\ ~ snapped.ctx.authority_complete
        /\ SameReply(w.ctx, snapped.ctx)
    <2> DEFINE r == [logged.ctx.response EXCEPT !.fill_count = OrElse(@, rc)]
               d == [logged.ctx EXCEPT !.response = r]
    <2>1. r \in ResponseSnapshot
      BY <1>1, <1>2 DEF WorkInv, CtxInv, CtxBase, CtxTyped, ResponseSnapshot, OrElse
    <2>2. snapped = [logged EXCEPT !.ctx = d]
      BY <1>2 DEF WorkInv, WorkTyped, CtxInv, CtxBase, CtxTyped, ResponseSnapshot
    <2>5. r = logged.ctx.response
      BY <1>2, <1>6 DEF WorkInv, CtxInv, CtxBase, CtxTyped, ResponseSnapshot, OrElse, SameReply
    <2>6. SameReply(logged.ctx, d)
      BY <1>2, <2>5 DEF WorkInv, CtxInv, CtxBase, CtxTyped, SameReply
    <2> HIDE DEF r, snapped
    <2>8. r.fill_count = logged.ctx.response.fill_count /\ r.boundary = logged.ctx.response.boundary
      BY <2>5
    <2>3. CtxInv(d) /\ Quiet(logged.ctx, d) /\ ~ d.authority_complete
      BY <1>2, <2>1, <2>8, ResponseInv DEF WorkInv
    <2> HIDE DEF d
    <2>4. Follows(g, logged, snapped) /\ snapped.ctx = d
      BY <1>2, <2>2, <2>3, QuietContext
    <2>7. SameReply(w.ctx, snapped.ctx)
      BY <1>2, <2>4, <2>6 DEF SameReply
    <2> QED BY <1>2, <2>3, <2>4, <2>7, FollowsTransitive DEF Follows
  <1> HIDE DEF snapped
  <1>4. CASE rc # None /\ RaiseFails(rc)
    <2> DEFINE h == halt_with_reason("ObligationExceedsOrderQty", snapped)
    <2>1. "ObligationExceedsOrderQty" \in HaltReason
      BY DEF HaltReason
    <2>2. OutcomeInv(g, h)
      BY <1>3, <2>1, HaltInv
    <2>3. h.work.ctx = snapped.ctx
      BY <1>3, OutcomeCtx DEF WorkInv
    <2>4. o = h
      BY <1>0, <1>4
    <2> HIDE DEF h
    <2>5. OutcomeInv(g, o) /\ ~ o.work.ctx.authority_complete
      BY <1>3, <2>2, <2>3, <2>4
    <2> QED BY <2>5 DEF o
  <1>5. CASE ~ (rc # None /\ RaiseFails(rc))
    <2>1. /\ Follows(g, w, counted) /\ WorkInv(g, counted) /\ ~ counted.ctx.authority_complete
          /\ SameReply(w.ctx, counted.ctx)
      <3>1. CASE rc = None
        BY <1>2, <3>1
      <3>2. CASE rc # None
        <4>1. rc \in Nat /\ ~ RaiseFails(rc)
          BY <1>1, <1>5, <3>2 DEF Opt
        <4>2. /\ Follows(g, snapped, NoteResponseEvidence(snapped, rc))
              /\ ~ NoteResponseEvidence(snapped, rc).ctx.authority_complete
          BY <1>3, <4>1, ResponseEvidenceWork
        <4>3. Follows(g, w, NoteResponseEvidence(snapped, rc))
          BY <1>3, <4>2, FollowsTransitive
        <4>4. SameReply(w.ctx, NoteResponseEvidence(snapped, rc).ctx)
          BY <1>3, OperationsReply DEF WorkInv, CtxInv, CtxBase, SameReply
        <4> QED BY <3>2, <4>2, <4>3, <4>4 DEF Follows
      <3> QED BY <3>1, <3>2
    <2> HIDE DEF counted
    <2>2. /\ Follows(g, w, kept) /\ WorkInv(g, kept) /\ ~ kept.ctx.authority_complete
          /\ SameReply(w.ctx, kept.ctx)
      <3>1. avg \in Opt(Nat) /\ fee \in Opt(Nat)
        BY <1>1, <2>1 DEF OrElse, WorkInv, CtxInv, CtxBase, CtxTyped, ResponseSnapshot
      <3>4. avg = counted.ctx.response.avg /\ fee = counted.ctx.response.fee
        BY <1>6, <2>1 DEF OrElse, SameReply
      <3> HIDE DEF avg, fee
      <3>0. kept = Carried(counted, avg, fee)
        BY DEF Carried
      <3> HIDE DEF kept
      <3>2. /\ Follows(g, counted, kept) /\ ~ kept.ctx.authority_complete
            /\ SameReply(counted.ctx, kept.ctx)
        BY <2>1, <3>0, <3>1, <3>4, KeptWork
      <3>3. Follows(g, w, kept)
        BY <2>1, <3>2, FollowsTransitive
      <3> QED BY <2>1, <3>2, <3>3 DEF Follows, SameReply
    <2> HIDE DEF kept
    <2>3. CASE s.target # None /\ RaiseFails(s.target.filled)
      <3> DEFINE h == halt_with_reason("ObligationExceedsOrderQty", kept)
      <3>1. "ObligationExceedsOrderQty" \in HaltReason
        BY DEF HaltReason
      <3>2. OutcomeInv(g, h)
        BY <2>2, <3>1, HaltInv
      <3>3. h.work.ctx = kept.ctx
        BY <2>2, OutcomeCtx DEF WorkInv
      <3>4. o = h
        BY <1>0, <1>5, <2>3
      <3> HIDE DEF h
      <3>5. OutcomeInv(g, o) /\ ~ o.work.ctx.authority_complete
        BY <2>2, <3>2, <3>3, <3>4
      <3> QED BY <3>5 DEF o
    <2>4. CASE ~ (s.target # None /\ RaiseFails(s.target.filled))
      <3>1. /\ Follows(g, w, aimed) /\ WorkInv(g, aimed) /\ ~ aimed.ctx.authority_complete
            /\ SameReply(w.ctx, aimed.ctx)
        <4>1. CASE s.target = None
          BY <2>2, <4>1
        <4>2. CASE s.target # None
          <5>1. s.target.filled \in Nat /\ s.target.remaining \in Opt(Nat)
            BY <1>1, <4>2 DEF Opt, Target
          <5>2. Follows(g, kept, raised) /\ ~ raised.ctx.authority_complete
            BY <2>2, <2>4, <4>2, <5>1, EvidenceWork DEF WorkInv, CtxInv
          <5>3. Follows(g, w, raised) /\ WorkInv(g, raised)
            BY <2>2, <5>2, FollowsTransitive DEF Follows
          <5>8. SameReply(kept.ctx, raised.ctx)
            BY <2>2, OperationsReply DEF WorkInv, CtxInv, CtxBase
          <5> HIDE DEF raised
          <5>4. rest \in Opt(Nat)
            BY <5>1, <5>3 DEF OrElse, WorkInv, CtxInv, CtxBase, CtxTyped
          <5> HIDE DEF rest
          <5> DEFINE d == note_venue_remaining(raised.ctx, rest)
          <5>5. aimed = [raised EXCEPT !.ctx = d]
            BY <4>2, <5>3 DEF note_venue_remaining, WorkInv, WorkTyped
          <5>6. CtxInv(d) /\ Quiet(raised.ctx, d) /\ ~ d.authority_complete
            BY <5>2, <5>3, <5>4, NoteRemainingInv DEF WorkInv
          <5>9. SameReply(raised.ctx, d)
            BY <5>3 DEF note_venue_remaining, WorkInv, CtxInv, CtxBase, CtxTyped, SameReply
          <5> HIDE DEF d, aimed
          <5>7. Follows(g, raised, aimed) /\ aimed.ctx = d
            BY <5>3, <5>5, <5>6, QuietContext
          <5>10. SameReply(w.ctx, aimed.ctx)
            BY <2>2, <5>7, <5>8, <5>9 DEF SameReply
          <5> QED BY <5>3, <5>6, <5>7, <5>10, FollowsTransitive DEF Follows
        <4> QED BY <4>1, <4>2
      <3> HIDE DEF aimed
      <3>2. CASE BindError(aimed.ctx, s.venue) # None
        <4>1. BindError(aimed.ctx, s.venue) \in HaltReason
          BY <3>2 DEF BindError, HaltReason
        <4> DEFINE h == halt_with_reason(BindError(aimed.ctx, s.venue), aimed)
        <4>2. OutcomeInv(g, h)
          BY <3>1, <4>1, HaltInv
        <4>3. h.work.ctx = aimed.ctx
          BY <3>1, OutcomeCtx DEF WorkInv
        <4>4. o = h
          BY <1>0, <1>5, <2>4, <3>2
        <4> HIDE DEF h
        <4>5. OutcomeInv(g, o) /\ ~ o.work.ctx.authority_complete
          BY <3>1, <4>2, <4>3, <4>4
        <4> QED BY <4>5 DEF o
      <3>3. CASE BindError(aimed.ctx, s.venue) = None
        <4>1. /\ Follows(g, w, bound) /\ WorkInv(g, bound) /\ Bound(bound, s.venue)
              /\ ~ bound.ctx.authority_complete
              /\ SameReply(w.ctx, bound.ctx)
          <5>1. Follows(g, aimed, bound) /\ ~ bound.ctx.authority_complete
            BY <1>1, <3>1, <3>3, BindWork DEF Bound
          <5>3. SameReply(w.ctx, bound.ctx)
            BY <3>1, OperationsReply DEF WorkInv, CtxInv, CtxBase, SameReply
          <5> HIDE DEF bound
          <5>2. Follows(g, w, bound)
            BY <3>1, <5>1, FollowsTransitive
          <5> QED BY <1>1, <5>1, <5>2, <5>3, BoundGrows DEF Follows
        <4> HIDE DEF bound
        <4>2. StateInv(s, bound.ctx)
          <5>1. Mirrors(s, w.ctx)
            BY DEF StateInv
          <5>2. Mirrors(s, bound.ctx)
            BY <4>1, <5>1, MirrorsStay DEF SameReply
          <5> QED BY <4>1, <5>2, StateGrows DEF Follows, WorkInv, CtxInv
        <4>3. /\ OutcomeInv(g, SettleCancel(s, bound, outcome))
              /\ ~ SettleCancel(s, bound, outcome).work.ctx.authority_complete
          BY <4>1, <4>2, SettleInv
        <4> QED BY <1>0, <1>5, <2>4, <3>3, <4>3 DEF o
      <3> QED BY <3>2, <3>3
    <2> QED BY <2>3, <2>4
  <1> QED BY <1>4, <1>5

\* request_cancel ends well from every state that can be canceled.
LEMMA RequestCancelInv ==
  ASSUME NEW g, NEW w, WorkInv(g, w), NEW s, StateInv(s, w.ctx),
         s.kind \in LiveKinds \cup {"ImmediateFillUnattributed"}
  PROVE  OutcomeInv(g, request_cancel(s, w))
  <1> DEFINE logged == AppendFsync(authority_invalidate_effects(w), CancelRecord)
             c == logged.ctx
             pending == CancelPending(c, s.venue, c.attributed_fill_qty, remaining_qty(c), None)
             carried == [s.resp EXCEPT !.remaining_count = None]
             t == IF s.kind = "ImmediateFillUnattributed"
                  THEN [pending EXCEPT !.resp = carried] ELSE pending
  <1>1. Follows(g, w, logged) /\ WorkInv(g, logged) /\ SameReply(w.ctx, logged.ctx)
    BY CancelLogged DEF Follows
  <1>2. request_cancel(s, w) = accept(t, logged)
    BY DEF request_cancel
  <1> HIDE DEF logged
  <1>3. Bound(logged, s.venue)
    BY <1>1, StateBound, BoundGrows
  <1>4. StateInv(pending, c) /\ pending.kind = "CancelPending"
    <2>1. /\ remaining_qty(c) = Qty - c.attributed_fill_qty /\ CtxInv(c)
          /\ None \in Opt(Target) /\ 0 \in Nat
      BY <1>1, RemainingTyped DEF WorkInv, Opt
    <2> QED BY <1>3, <2>1, VenueStates DEF Bound
  <1>5. s.kind = "ImmediateFillUnattributed" => carried = RespOf(c)
    BY <1>1 DEF StateInv, Mirrors, SameReply, RespOf
  <1> HIDE DEF carried
  <1>6. t = pending
    <2>1. pending.resp = RespOf(c) /\ pending \in OrderState
      BY <1>4 DEF StateInv, Mirrors, PendingKinds
    <2> HIDE DEF pending
    <2> QED BY <1>5, <2>1 DEF OrderState
  <1> HIDE DEF pending
  <1> HIDE DEF t
  <1> QED BY <1>1, <1>2, <1>4, <1>6, AcceptInv DEF Terminals, Halts, Driven, AskedFor

\* A page of one fill.
LEMMA Single == \A S : \A f \in S : <<f>> \in Seq(S)
  OBVIOUS

\* A fill on an order that is not frozen ends well.
LEMMA FillInv ==
  ASSUME NEW g, NEW w, WorkInv(g, w), NEW s, StateInv(s, w.ctx), NEW f \in g.fills,
         ~ is_restart_frozen(s), s.kind \notin {"New", "SubmitPrepared"},
         s.kind \in g.standing
  PROVE  OutcomeInv(g, on_fill(s, w, f))
  <1>1. s.kind \in LiveKinds \cup PendingKinds
          \cup {"SubmitStarted", "SubmitUnknown", "ImmediateFillUnattributed"}
    BY DEF is_restart_frozen, StateInv, OrderState, Kinds, LiveKinds, PendingKinds, Terminals
  <1>2. CASE s.kind = "ImmediateFillUnattributed"
    <2>1. <<f>> \in Seq(g.fills)
      BY Single
    <2>2. OutcomeInv(g, apply_immediate_fill_backfill(s, w, <<f>>))
      BY <1>2, <2>1, ImmediateBackfillInv
    <2>3. on_fill(s, w, f) = apply_immediate_fill_backfill(s, w, <<f>>)
      BY <1>2 DEF on_fill, is_restart_frozen
    <2> QED BY <2>2, <2>3
  <1>3. CASE s.kind # "ImmediateFillUnattributed"
    <2>1. IF s.kind = "SubmitUnknown" THEN OutcomeInv(g, apply_fill_dedup_only(s, w, f))
          ELSE OutcomeInv(g, apply_fill_while_open(s, w, f))
      BY <1>1, <1>3, OpenFillInv
    <2> QED BY <1>3, <2>1 DEF on_fill
  <1> QED BY <1>2, <1>3

\* A fill on a frozen order leaves a sound context and a sound state.
LEMMA FrozenFillSound ==
  ASSUME NEW g, NEW w, WorkInv(g, w), NEW s, StateInv(s, w.ctx), NEW f \in g.fills
  PROVE  LET o == restart_safe_fill(s, w, f)
         IN /\ CtxInv(o.work.ctx) /\ Since(g, o.work.ctx) /\ BooksMatch(g, o.work)
            /\ StateInv(o.state, o.work.ctx)
            /\ o.outcome \in {"Accept", "Halt"}
            /\ o.state.kind # "Halted" => Claimed(g, o.work.ctx)
            /\ IsLog(o.work.log) /\ Marks(o.work.log) = BindMarks(g.ctx, o.work.ctx)
            /\ o.outcome = "Halt" => o.state.kind = "Halted"
            /\ o.outcome = "Accept"
                 => o.state = s /\ o.work.ctx.venue_order_id = w.ctx.venue_order_id
  <1> DEFINE a == account_fill_core(w, f)
             x == a.work
             held == IF reservation_held(s) = "Released"
                     THEN [x EXCEPT !.hold = "ReserveFull"] ELSE x
             reason == IF a.tag = "Halt" THEN a.reason ELSE "PostTerminalFill"
             o == restart_safe_fill(s, w, f)
  <1>0. o = IF a.tag \in {"NoOp", "Enriched"} THEN accept(s, x)
            ELSE halt_with_reason(reason, held)
    BY DEF restart_safe_fill, AfterFrozenFill
  <1>1. AttemptInv(g, w, a)
    BY AccountFillInv
  <1>2. WorkInv(g, x) /\ Grows(w.ctx, x.ctx) /\ CtxInv(x.ctx) /\ CtxInv(w.ctx)
    BY <1>1 DEF AttemptInv, Follows, WorkInv
  <1> HIDE DEF a, o
  <1>3. a.tag \in {"NoOp", "Enriched"} => StateInv(s, x.ctx)
    <2>1. Mirrors(s, w.ctx)
      BY DEF StateInv
    <2>2. a.tag \in {"NoOp", "Enriched"} => Mirrors(s, x.ctx)
      BY <1>1, <2>1, MirrorsStay DEF AttemptInv, GateFrame
    <2> QED BY <1>2, <2>2, StateGrows DEF CtxInv
  <1>4. CASE a.tag \in {"NoOp", "Enriched"}
    <2>1. o = accept(s, x)
      BY <1>0, <1>4
    <2>2. CtxInv(o.work.ctx) /\ Since(g, o.work.ctx) /\ StateInv(o.state, o.work.ctx)
          /\ BooksMatch(g, o.work) /\ Claimed(g, o.work.ctx)
          /\ o.outcome = "Accept" /\ o.state = s
          /\ IsLog(o.work.log) /\ Marks(o.work.log) = BindMarks(g.ctx, o.work.ctx)
      BY <1>2, <1>3, <1>4, <2>1 DEF accept, WorkInv, WorkTyped, Traced
    <2>3. x.ctx.venue_order_id = w.ctx.venue_order_id
      BY <1>1, <1>4 DEF AttemptInv, GateFrame
    <2>4. o.work.ctx.venue_order_id = w.ctx.venue_order_id
      BY <2>1, <2>3 DEF accept
    <2> QED BY <2>2, <2>4 DEF o
  <1>5. CASE a.tag \notin {"NoOp", "Enriched"}
    <2>1. reason \in HaltReason
      BY <1>1 DEF AttemptInv, HaltReason
    <2> DEFINE y == Ask(held, {"HaltNewExposure"})
    <2>2. y.ctx = x.ctx /\ y.qty = x.qty /\ y.fee = x.fee /\ y.log = x.log
      BY <1>2 DEF Ask, WorkInv, WorkTyped
    <2>3. StateInv(Halted(reason), x.ctx)
      <3>1. "Halted" \in Kinds \ (LiveKinds \cup PendingKinds \cup {"ImmediateFillUnattributed"})
        BY DEF Kinds, LiveKinds, PendingKinds
      <3> HIDE DEF reason
      <3> QED BY <2>1, <3>1, PlainInv DEF Halted, Opt
    <2> HIDE DEF held, reason
    <2>5. o = [outcome |-> "Halt", state |-> Halted(reason), work |-> y]
      BY <1>0, <1>5 DEF halt_with_reason, halt_with_reason_state
    <2> HIDE DEF y
    <2>6. BooksMatch(g, y)
      BY <1>2, <2>2 DEF WorkInv, BooksMatch
    <2>4. CtxInv(o.work.ctx) /\ Since(g, o.work.ctx) /\ StateInv(o.state, o.work.ctx)
          /\ o.outcome = "Halt" /\ BooksMatch(g, o.work) /\ o.state.kind = "Halted"
          /\ IsLog(o.work.log) /\ Marks(o.work.log) = BindMarks(g.ctx, o.work.ctx)
      BY <1>2, <2>2, <2>3, <2>5, <2>6 DEF WorkInv, WorkTyped, Traced, Halted, Plain
    <2> QED BY <2>4 DEF o
  <1> QED BY <1>4, <1>5
=============================================================================
