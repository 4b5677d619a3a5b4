----------------------------- MODULE BasketProofs -----------------------------
(* Proofs about Basket: what the order objects, their rows and the venue      *)
(* agree on, over any sequence of calls, dropped futures and restarts.        *)
EXTENDS Basket, FiniteSetTheorems, WellFoundedInduction, TLAPS

VenueOrder ==
    [symbol : {"sym"}, side : {"Buy"}, order_type : {"Market", "Limit"},
     price : {None}, trigger_price : {None}, quantity : Nat, filled_quantity : Int,
     pending_quantity : Int, canceled_quantity : Int, rejected : BOOLEAN,
     slot : Slots, at : Nat, peak : Int, modified : BOOLEAN]

Write == [slot : Slots, row : Row, awaited : BOOLEAN]

Task == [op : {"none", "execute", "flags", "modify"}, slot : Slots \cup {0},
         pc : {"none", "visit", "answer", "save"}, ret : Nat \cup {None}]

Reported == [order_id : Nat, filled_quantity : Int, status : OrderStatus]

TypeOK ==
    /\ style \in Styles /\ broker \in BOOLEAN
    /\ orders \in [Slots -> Order \cup {None}]
    /\ db \in [Slots -> Row \cup {None}]
    /\ worker \subseteq Write /\ task \in Task
    /\ venue \in Seq(VenueOrder) /\ reports \subseteq Reported
    /\ now \in Nat /\ spent \in [{"moves", "disturbances"} -> Nat]
    /\ torn \subseteq Slots /\ shrunk \subseteq Slots

(* A venue order whose quantity was never modified: nothing it says of its   *)
(* fills, as it is or once its quantities are split anew, exceeds its peak.   *)
Sound(v) ==
    v.modified \/
    /\ v.quantity > 0 /\ 0 <= v.filled_quantity /\ v.filled_quantity <= v.quantity
    /\ v.pending_quantity >= 0 /\ v.canceled_quantity >= 0
    /\ v.filled_quantity <= v.peak
    /\ v.pending_quantity > 0 => v.quantity - v.pending_quantity <= v.peak
    /\ v.canceled_quantity > 0 => v.quantity - v.canceled_quantity <= v.peak

SoundVenue == \A i \in Ids : Sound(venue[i])

(* What is said to be filled of order i of a venue, the venue has filled.    *)
Covered(ven, i, n) == i \in 1 .. Len(ven) /\ (ven[i].modified \/ n <= ven[i].peak)

SoundReports == \A r \in reports : Covered(venue, r.order_id, r.filled_quantity)

(* An order object or a row of slot s: its id is that of an order the venue  *)
(* has for this slot, and its fills are that order's.                         *)
Backed(ven, less, s, x) ==
    /\ x.order_id # None => x.order_id \in 1 .. Len(ven) /\ ven[x.order_id].slot = s
    /\ x.filled_quantity > 0 => /\ x.order_id # None
                                /\ Covered(ven, x.order_id, x.filled_quantity)
    /\ s \notin less => x.filled_quantity <= x.quantity

SoundRecords ==
    /\ \A s \in Slots : orders[s] # None => Backed(venue, shrunk, s, orders[s])
    /\ \A s \in Slots : db[s] # None => Backed(venue, shrunk, s, db[s])
    /\ \A w \in worker : Backed(venue, shrunk, w.slot, w.row)

(* The call under way holds an order of the basket; between its place and    *)
(* its answer, an id that nothing else knows.                                 *)
SoundTask ==
    /\ task.pc \in {"visit", "answer", "save"} =>
         task.slot \in Slots /\ orders[task.slot] # None
    /\ task.pc \in {"none", "visit"} => task.ret = None
    /\ task.op # "execute" => task.ret = None
    /\ task.op = "execute" /\ task.pc = "answer" =>
         /\ orders[task.slot].order_id = None
         /\ task.ret # None => task.ret \in Ids /\ venue[task.ret].slot = task.slot

Saving(s) == task.pc = "save" /\ task.slot = s

(* A write that is awaited is that of the call under way, and writes what    *)
(* the order holds; one that is not may come late.                            *)
SoundWrites ==
    /\ \A w \in worker :
         \/ w.awaited /\ Saving(w.slot) /\ w.row = to_row(orders[w.slot])
         \/ ~w.awaited /\ w.slot \in torn
    /\ task.pc = "save" => \E w \in worker : w.awaited /\ w.slot = task.slot

(* The row agrees with the order, unless the order is being saved.           *)
Durable(s) ==
    orders[s] # None /\ ~Saving(s) =>
        /\ db[s] # None
        /\ db[s].order_id = orders[s].order_id
        /\ db[s].filled_quantity = orders[s].filled_quantity
        /\ s \notin shrunk => db[s].status = orders[s].status

(* An order of the venue is known by its id, to its order object or to the   *)
(* call that waits to store it.                                               *)
Known(i) ==
    LET s == venue[i].slot IN
    \/ task.op = "execute" /\ task.pc = "answer" /\ task.slot = s /\ task.ret = i
    \/ orders[s] # None /\ orders[s].order_id = i

Untorn ==
    /\ \A s \in Slots \ torn : Durable(s)
    /\ \A i \in Ids : venue[i].slot \notin torn => Known(i)

(* Every order has one index, and an index names an order.                   *)
Indexed ==
    /\ \A i \in DOMAIN index : index[i] \in Slots /\ orders[index[i]] # None
    /\ \A s \in Slots : orders[s] # None => \E i \in DOMAIN index : index[i] = s
    /\ \A i, j \in DOMAIN index : index[i] = index[j] => i = j

IInv ==
    /\ TypeOK /\ SoundVenue /\ SoundReports /\ SoundRecords
    /\ SoundTask /\ SoundWrites /\ Untorn /\ Indexed

-----------------------------------------------------------------------------
(* The venue's operators on one order.                                        *)

(* Overwriting the three quantities changes nothing else.                    *)
Split(v, f, p, c) ==
    [v EXCEPT !.filled_quantity = f, !.pending_quantity = p, !.canceled_quantity = c]

LEMMA Resplit ==
    ASSUME NEW v \in VenueOrder, NEW f \in Int, NEW p \in Int, NEW c \in Int
    PROVE  /\ Split(v, f, p, c) \in VenueOrder
           /\ Split(v, f, p, c).quantity = v.quantity
           /\ Split(v, f, p, c).filled_quantity = f
           /\ Split(v, f, p, c).pending_quantity = p
           /\ Split(v, f, p, c).canceled_quantity = c
           /\ Split(v, f, p, c).slot = v.slot
           /\ Split(v, f, p, c).peak = v.peak
           /\ Split(v, f, p, c).modified = v.modified
<1> DEFINE x == [v EXCEPT !.filled_quantity = f]
           y == [x EXCEPT !.pending_quantity = p]
           w == [y EXCEPT !.canceled_quantity = c]
<1>1. /\ x \in VenueOrder /\ x.quantity = v.quantity /\ x.filled_quantity = f
      /\ x.slot = v.slot /\ x.peak = v.peak /\ x.modified = v.modified
  BY DEF VenueOrder
<1> HIDE DEF x
<1>2. /\ y \in VenueOrder /\ y.quantity = v.quantity /\ y.filled_quantity = f
      /\ y.pending_quantity = p
      /\ y.slot = v.slot /\ y.peak = v.peak /\ y.modified = v.modified
  BY <1>1 DEF VenueOrder
<1> HIDE DEF y
<1>3. /\ w \in VenueOrder /\ w.quantity = v.quantity /\ w.filled_quantity = f
      /\ w.pending_quantity = p /\ w.canceled_quantity = c
      /\ w.slot = v.slot /\ w.peak = v.peak /\ w.modified = v.modified
  BY <1>2 DEF VenueOrder
<1>4. QED
  BY <1>3 DEF x, y, Split

(* A later state w of the venue order v.                                     *)
Grows(v, w) ==
    /\ w \in VenueOrder /\ Sound(w)
    /\ w.slot = v.slot /\ (v.modified => w.modified) /\ v.peak <= w.peak

LEMMA VenueFields ==
    ASSUME NEW v \in VenueOrder
    PROVE  v.peak \in Int /\ v.slot \in Slots /\ v.peak <= v.peak
BY DEF VenueOrder

LEMMA Entry ==
    ASSUME NEW ven \in Seq(VenueOrder), NEW i \in 1 .. Len(ven)
    PROVE  /\ ven[i] \in VenueOrder /\ ven[i].peak \in Int /\ ven[i].slot \in Slots
           /\ ven[i].peak <= ven[i].peak
<1>1. ven[i] \in VenueOrder
  OBVIOUS
<1>2. QED
  BY <1>1, VenueFields

LEMMA PlacedSound ==
    ASSUME NEW o \in Order, o.quantity > 0, NEW s \in Slots, NEW t \in Nat
    PROVE  place(o, s, t) \in VenueOrder /\ Sound(place(o, s, t)) /\ place(o, s, t).slot = s
<1> DEFINE v == [symbol |-> "sym", side |-> "Buy",
                 order_type |-> IF o.order_type = "MARKET" THEN "Market" ELSE "Limit",
                 price |-> None, trigger_price |-> None, quantity |-> o.quantity,
                 filled_quantity |-> 0, pending_quantity |-> 0, canceled_quantity |-> 0,
                 rejected |-> FALSE, slot |-> s, at |-> t, peak |-> 0,
                 modified |-> FALSE]
           n == normalise_quantities(o.quantity, 0, 0, 0)
<1>1. /\ v \in VenueOrder /\ v.quantity = o.quantity /\ v.slot = s /\ v.peak = 0
      /\ v.filled_quantity = 0 /\ v.pending_quantity = 0 /\ v.canceled_quantity = 0
      /\ ~v.modified
  BY DEF VenueOrder, Order
<1>2. o.quantity \in Nat /\ o.quantity \in Int
  BY DEF Order
<1>3. n = [f |-> 0, p |-> o.quantity, c |-> 0]
  BY <1>2 DEF normalise_quantities
<1>4. place(o, s, t) = from_init(v)
  BY DEF place, order_place
<1> HIDE DEF v
<1>5. from_init(v) = Split(v, n.f, n.p, n.c)
  BY <1>1 DEF from_init, make_right_quantity, Split
<1>6. from_init(v) = Split(v, 0, o.quantity, 0)
  BY <1>3, <1>5
<1>7. QED
  BY <1>1, <1>2, <1>4, <1>6, Resplit DEF Sound

LEMMA ModifiedSound ==
    ASSUME NEW v \in VenueOrder, Sound(v), NEW q \in Nat
    PROVE  Grows(v, modify(v, q))
<1> DEFINE x == [v EXCEPT !.quantity = q]
           w == [x EXCEPT !.modified = v.modified \/ q # v.quantity]
<1>1. /\ x \in VenueOrder /\ x.quantity = q /\ x.slot = v.slot /\ x.peak = v.peak
      /\ x.modified = v.modified
      /\ x.filled_quantity = v.filled_quantity
      /\ x.pending_quantity = v.pending_quantity
      /\ x.canceled_quantity = v.canceled_quantity
  BY DEF VenueOrder
<1> HIDE DEF x
<1>2. /\ w \in VenueOrder /\ w.quantity = q /\ w.slot = v.slot /\ w.peak = v.peak
      /\ w.modified = (v.modified \/ q # v.quantity)
      /\ w.filled_quantity = v.filled_quantity
      /\ w.pending_quantity = v.pending_quantity
      /\ w.canceled_quantity = v.canceled_quantity
  BY <1>1 DEF VenueOrder
<1>3. modify(v, q) = w
  BY <1>1 DEF modify, order_modify, x
<1> HIDE DEF w
<1>4. Sound(w)
  BY <1>2 DEF Sound
<1>5. v.peak <= w.peak
  BY <1>2 DEF VenueOrder
<1>6. QED
  BY <1>2, <1>3, <1>4, <1>5 DEF Grows

LEMMA CanceledSound ==
    ASSUME NEW v \in VenueOrder, Sound(v)
    PROVE  Grows(v, cancel(v))
<1>1. v.peak <= v.peak /\ v.quantity - v.filled_quantity \in Int
  BY DEF VenueOrder
<1>2. CASE status(v) = "Complete"
  BY <1>1, <1>2 DEF cancel, order_cancel, Grows
<1>3. CASE status(v) # "Complete"
  <2> DEFINE x == [v EXCEPT !.canceled_quantity = v.quantity - v.filled_quantity]
             w == [x EXCEPT !.pending_quantity = 0]
  <2>1. cancel(v) = w
    BY <1>3 DEF cancel, order_cancel
  <2>2. /\ x \in VenueOrder /\ x.quantity = v.quantity /\ x.slot = v.slot
        /\ x.peak = v.peak /\ x.modified = v.modified
        /\ x.filled_quantity = v.filled_quantity
        /\ x.canceled_quantity = v.quantity - v.filled_quantity
    BY <1>1 DEF VenueOrder
  <2> HIDE DEF x
  <2>3. /\ w \in VenueOrder /\ w.quantity = v.quantity /\ w.slot = v.slot
        /\ w.peak = v.peak /\ w.modified = v.modified
        /\ w.filled_quantity = v.filled_quantity
        /\ w.pending_quantity = 0
        /\ w.canceled_quantity = v.quantity - v.filled_quantity
    BY <2>2 DEF VenueOrder
  <2> HIDE DEF w
  <2>4. Sound(w)
    BY <2>3 DEF Sound, VenueOrder
  <2>5. QED
    BY <1>1, <2>1, <2>3, <2>4 DEF Grows
<1>4. QED
  BY <1>2, <1>3

(* The simulation forces the quantities of an order that is not done.        *)
LEMMA ForcedSound ==
    ASSUME NEW v \in VenueOrder, Sound(v), NEW st \in Status, NEW t \in Nat,
           NEW w \in get(v, st, t)
    PROVE  Grows(v, w)
<1>1. PICK x \in modify_by_status(v, st, t > v.at) :
        w = [x EXCEPT !.peak = IF @ < x.filled_quantity THEN x.filled_quantity ELSE @]
  BY DEF get
<1>2. /\ x \in VenueOrder /\ x.slot = v.slot /\ x.modified = v.modified
      /\ x.peak = v.peak /\ x.quantity = v.quantity
      /\ \/ x.modified
         \/ /\ x.quantity > 0 /\ 0 <= x.filled_quantity /\ x.filled_quantity <= x.quantity
            /\ x.pending_quantity >= 0 /\ x.canceled_quantity >= 0
            /\ x.pending_quantity > 0 =>
                 \/ x.quantity - x.pending_quantity <= v.peak
                 \/ x.quantity - x.pending_quantity <= x.filled_quantity
            /\ x.canceled_quantity > 0 =>
                 \/ x.quantity - x.canceled_quantity <= v.peak
                 \/ x.quantity - x.canceled_quantity <= x.filled_quantity
  <2>1. CASE x = v
    BY <2>1 DEF Sound
  <2>2. CASE ~is_done(v) /\ x \in modify_order_by_status(v, st)
    <3> DEFINE q == v.quantity
    <3>1. /\ q \in Nat /\ q \in Int /\ v.pending_quantity \in Int /\ v.peak \in Int
          /\ v.pending_quantity > 0
      BY <2>2 DEF VenueOrder, is_done
    <3>2. CASE x = Split(v, 0, 0, q)
      BY <3>1, <3>2, Resplit DEF Sound
    <3>3. CASE x = Split(v, 0, v.pending_quantity, 0)
      BY <3>1, <3>3, Resplit DEF Sound
    <3>4. CASE x = Split(v, q, 0, 0)
      BY <3>1, <3>4, Resplit DEF Sound
    <3> DEFINE drawn == IF q > 1 THEN 1 .. (q - 1) ELSE {1}
    <3>5. ASSUME NEW a \in drawn,
                 x \in {Split(v, a, 0, q - a), Split(v, a, q - a, 0)}
          PROVE  /\ x \in VenueOrder /\ x.slot = v.slot /\ x.modified = v.modified
                 /\ x.peak = v.peak /\ x.quantity = v.quantity
                 /\ \/ x.modified
                    \/ /\ x.quantity > 0 /\ 0 <= x.filled_quantity
                       /\ x.filled_quantity <= x.quantity
                       /\ x.pending_quantity >= 0 /\ x.canceled_quantity >= 0
                       /\ x.pending_quantity > 0 =>
                            x.quantity - x.pending_quantity <= x.filled_quantity
                       /\ x.canceled_quantity > 0 =>
                            x.quantity - x.canceled_quantity <= x.filled_quantity
      <4>1. a \in Int /\ q - a \in Int /\ (q > 0 => 1 <= a /\ a <= q)
        BY <3>1
      <4>2. QED
        BY <3>1, <3>5, <4>1, Resplit DEF Sound
    <3>6. \/ x \in {Split(v, 0, 0, q), Split(v, 0, v.pending_quantity, 0),
                    Split(v, q, 0, 0)}
          \/ \E a \in drawn : x \in {Split(v, a, 0, q - a), Split(v, a, q - a, 0)}
      BY <2>2 DEF modify_order_by_status, Split, Status
    <3>7. QED
      BY <3>2, <3>3, <3>4, <3>5, <3>6
  <2>3. QED
    BY <2>1, <2>2 DEF modify_by_status
<1> DEFINE top == IF x.peak < x.filled_quantity THEN x.filled_quantity ELSE x.peak
<1>3. /\ top \in Int /\ v.peak <= top /\ x.filled_quantity <= top
  BY <1>2 DEF VenueOrder
<1>4. w = [x EXCEPT !.peak = top]
  BY <1>1, <1>2 DEF VenueOrder
<1> HIDE DEF top
<1>5. /\ w \in VenueOrder /\ w.slot = x.slot /\ w.modified = x.modified
      /\ w.peak = top /\ w.quantity = x.quantity
      /\ w.filled_quantity = x.filled_quantity
      /\ w.pending_quantity = x.pending_quantity
      /\ w.canceled_quantity = x.canceled_quantity
  BY <1>2, <1>3, <1>4 DEF VenueOrder
<1>6. x.quantity \in Int /\ x.pending_quantity \in Int /\ x.canceled_quantity \in Int
      /\ x.filled_quantity \in Int /\ v.peak \in Int
  BY <1>2 DEF VenueOrder
<1>7. Sound(w)
  BY <1>2, <1>3, <1>5, <1>6 DEF Sound
<1>8. QED
  BY <1>2, <1>3, <1>5, <1>7 DEF Grows

(* A snapshot, whose quantities are split anew, says no more than the peak.  *)
LEMMA SnapshotSound ==
    ASSUME NEW i \in Nat, NEW v \in VenueOrder, Sound(v)
    PROVE  LET r == Report(<<i, cloned_clone_weak(v)>>) IN
           /\ r \in Reported /\ r.order_id = i
           /\ v.modified \/ r.filled_quantity <= v.peak
<1> DEFINE n == normalise_quantities(v.quantity, v.filled_quantity,
                                     v.pending_quantity, v.canceled_quantity)
           w == Split(v, n.f, n.p, n.c)
           r == Report(<<i, w>>)
<1>1. /\ v.quantity \in Int /\ v.filled_quantity \in Int /\ v.pending_quantity \in Int
      /\ v.canceled_quantity \in Int /\ v.peak \in Int
  BY DEF VenueOrder
<1>2. /\ n.f \in Int /\ n.p \in Int /\ n.c \in Int
      /\ v.modified \/ n.f <= v.peak
  BY <1>1 DEF normalise_quantities, MinOf, Sound
<1>3. cloned_clone_weak(v) = w
  BY DEF cloned_clone_weak, from_init, make_right_quantity, Split
<1> HIDE DEF n
<1>4. w.filled_quantity = n.f
  BY <1>2, Resplit
<1> HIDE DEF w
<1>5. r \in Reported /\ r.order_id = i /\ r.filled_quantity = n.f
  BY <1>2, <1>4 DEF Report, Reported, OrderStatus
<1>6. QED
  BY <1>2, <1>3, <1>5

-----------------------------------------------------------------------------
(* What any step does to the venue.                                           *)

(* No order is lost or given to another slot, and the fills it vouches for   *)
(* never shrink.                                                              *)
VenueKept ==
    /\ venue' \in Seq(VenueOrder) /\ reports' \subseteq Reported
    /\ SoundVenue' /\ SoundReports'
    /\ Len(venue) <= Len(venue')
    /\ \A i \in Ids : /\ venue'[i].slot = venue[i].slot
                      /\ venue[i].modified => venue'[i].modified
                      /\ venue[i].peak <= venue'[i].peak

LEMMA VenueUntouched ==
    ASSUME IInv, UNCHANGED <<venue, reports>>
    PROVE  VenueKept /\ Len(venue') = Len(venue)
<1>1. venue \in Seq(VenueOrder) /\ Len(venue) \in Nat
  BY DEF IInv, TypeOK
<1>2. \A i \in Ids : venue[i].peak <= venue[i].peak
  BY <1>1, Entry DEF Ids
<1>3. QED
  BY <1>1, <1>2 DEF VenueKept, IInv, TypeOK, SoundVenue, SoundReports, Ids

LEMMA VenueWritten ==
    ASSUME IInv, NEW ven \in Seq(VenueOrder), VenueSet(ven),
           Len(venue) <= Len(ven),
           \A i \in 1 .. Len(ven) : Sound(ven[i]),
           \A i \in Ids : Grows(venue[i], ven[i])
    PROVE  VenueKept
<1> DEFINE new == {Report(snap) : snap \in {<<i, cloned_clone_weak(ven[i])>> :
                                             i \in 1 .. Len(ven)}}
<1>1. venue' = ven /\ reports' = reports \cup new
  BY DEF VenueSet
<1>2. ASSUME NEW r \in new
      PROVE  r \in Reported /\ Covered(ven, r.order_id, r.filled_quantity)
  <2>1. PICK i \in 1 .. Len(ven) : r = Report(<<i, cloned_clone_weak(ven[i])>>)
    OBVIOUS
  <2>2. i \in Nat /\ ven[i] \in VenueOrder /\ Sound(ven[i])
    OBVIOUS
  <2>3. QED
    BY <2>1, <2>2, SnapshotSound DEF Covered
<1>3. ASSUME NEW r \in reports
      PROVE  Covered(ven, r.order_id, r.filled_quantity)
  <2>1. Covered(venue, r.order_id, r.filled_quantity)
    BY DEF IInv, SoundReports
  <2>2. /\ r.order_id \in Ids /\ r.order_id \in 1 .. Len(ven)
        /\ venue[r.order_id].peak \in Int /\ ven[r.order_id].peak \in Int
    BY <2>1, Entry DEF Covered, Ids, IInv, TypeOK
  <2>3. Grows(venue[r.order_id], ven[r.order_id])
    BY <2>2
  <2>4. r.filled_quantity \in Int
    BY DEF IInv, TypeOK, Reported
  <2>5. QED
    BY <2>1, <2>2, <2>3, <2>4 DEF Covered, Grows
<1> HIDE DEF new
<1>4. reports' \subseteq Reported /\ SoundReports'
  BY <1>1, <1>2, <1>3 DEF IInv, TypeOK, SoundReports
<1>5. SoundVenue'
  BY <1>1 DEF SoundVenue, Ids
<1>6. QED
  BY <1>1, <1>4, <1>5 DEF VenueKept, Grows

LEMMA VenueOneChanged ==
    ASSUME IInv, NEW i \in Ids, NEW w, Grows(venue[i], w),
           VenueSet([venue EXCEPT ![i] = w])
    PROVE  VenueKept /\ Len(venue') = Len(venue)
<1> DEFINE ven == [venue EXCEPT ![i] = w]
<1>1. venue \in Seq(VenueOrder) /\ w \in VenueOrder /\ Sound(w)
  BY DEF IInv, TypeOK, Grows
<1>2. ven \in Seq(VenueOrder) /\ Len(ven) = Len(venue)
      /\ \A j \in Ids : ven[j] = IF j = i THEN w ELSE venue[j]
  BY <1>1 DEF Ids
<1>3. venue' = ven
  BY DEF VenueSet
<1> HIDE DEF ven
<1>4. \A j \in Ids : Grows(venue[j], venue[j])
  BY <1>1, Entry DEF Grows, IInv, SoundVenue, Ids
<1>5. \A j \in 1 .. Len(ven) : Sound(ven[j])
  BY <1>1, <1>2 DEF IInv, SoundVenue, Ids
<1>6. \A j \in Ids : Grows(venue[j], ven[j])
  BY <1>2, <1>4
<1>7. Len(venue) <= Len(ven)
  BY <1>1, <1>2
<1>8. QED
  BY <1>2, <1>3, <1>5, <1>6, <1>7, VenueWritten DEF ven

LEMMA VenueOneAdded ==
    ASSUME IInv, NEW w \in VenueOrder, Sound(w), VenueSet(Append(venue, w))
    PROVE  /\ VenueKept /\ Len(venue') = Len(venue) + 1
           /\ venue' = Append(venue, w)
<1> DEFINE ven == Append(venue, w)
<1>1. venue \in Seq(VenueOrder)
  BY DEF IInv, TypeOK
<1>2. /\ ven \in Seq(VenueOrder) /\ Len(ven) = Len(venue) + 1
      /\ \A j \in Ids : ven[j] = venue[j]
      /\ ven[Len(venue) + 1] = w
  BY <1>1 DEF Ids
<1>3. venue' = ven
  BY DEF VenueSet
<1> HIDE DEF ven
<1>4. \A j \in Ids : Grows(venue[j], venue[j])
  BY <1>1, Entry DEF Grows, IInv, SoundVenue, Ids
<1>5. \A j \in 1 .. Len(ven) : j \in Ids \/ j = Len(venue) + 1
  BY <1>1, <1>2 DEF Ids
<1>6. \A j \in 1 .. Len(ven) : Sound(ven[j])
  BY <1>2, <1>5 DEF IInv, SoundVenue
<1>7. \A j \in Ids : Grows(venue[j], ven[j])
  BY <1>2, <1>4
<1>8. Len(venue) <= Len(ven)
  BY <1>1, <1>2
<1>9. QED
  BY <1>2, <1>3, <1>6, <1>7, <1>8, VenueWritten DEF ven

(* What was backed stays backed.                                             *)
LEMMA BackedKept ==
    ASSUME IInv, VenueKept, shrunk \subseteq shrunk', NEW s \in Slots,
           NEW x \in Order \cup Row, Backed(venue, shrunk, s, x)
    PROVE  Backed(venue', shrunk', s, x)
<1>1. x.filled_quantity \in Nat
  BY DEF Order, Row
<1>2. venue \in Seq(VenueOrder) /\ venue' \in Seq(VenueOrder)
      /\ Len(venue) \in Nat /\ Len(venue') \in Nat
  BY DEF IInv, TypeOK, VenueKept
<1>3. 1 .. Len(venue) \subseteq 1 .. Len(venue')
  BY <1>2 DEF VenueKept
<1>4. ASSUME Covered(venue, x.order_id, x.filled_quantity)
      PROVE  Covered(venue', x.order_id, x.filled_quantity)
  <2>1. x.order_id \in Ids /\ x.order_id \in 1 .. Len(venue')
    BY <1>3, <1>4 DEF Covered, Ids
  <2>2. venue[x.order_id].peak \in Int /\ venue'[x.order_id].peak \in Int
    BY <1>2, <2>1, Entry DEF Ids
  <2>3. QED
    BY <1>1, <1>4, <2>1, <2>2 DEF Covered, VenueKept
<1>5. QED
  BY <1>3, <1>4 DEF Backed, VenueKept, Ids

(* The records that no step of this kind writes.                             *)
LEMMA RecordsKept ==
    ASSUME IInv, VenueKept, shrunk \subseteq shrunk',
           \A s \in Slots : orders'[s] # None =>
               \/ orders'[s] = orders[s]
               \/ Backed(venue', shrunk', s, orders'[s]),
           \A s \in Slots : db'[s] # None =>
               \/ db'[s] = db[s]
               \/ Backed(venue', shrunk', s, db'[s]),
           \A w \in worker' :
               \/ \E u \in worker : u.slot = w.slot /\ u.row = w.row
               \/ Backed(venue', shrunk', w.slot, w.row)
    PROVE  SoundRecords'
<1>1. ASSUME NEW s \in Slots, orders'[s] # None
      PROVE  Backed(venue', shrunk', s, orders'[s])
  <2>1. CASE orders'[s] = orders[s]
    <3>1. orders[s] \in Order /\ Backed(venue, shrunk, s, orders[s])
      BY <1>1, <2>1 DEF IInv, TypeOK, SoundRecords
    <3>2. QED
      BY <2>1, <3>1, BackedKept
  <2>2. QED
    BY <1>1, <2>1
<1>2. ASSUME NEW s \in Slots, db'[s] # None
      PROVE  Backed(venue', shrunk', s, db'[s])
  <2>1. CASE db'[s] = db[s]
    <3>1. db[s] \in Row /\ Backed(venue, shrunk, s, db[s])
      BY <1>2, <2>1 DEF IInv, TypeOK, SoundRecords
    <3>2. QED
      BY <2>1, <3>1, BackedKept
  <2>2. QED
    BY <1>2, <2>1
<1>3. ASSUME NEW w \in worker'
      PROVE  Backed(venue', shrunk', w.slot, w.row)
  <2>1. ASSUME NEW u \in worker, u.slot = w.slot, u.row = w.row
        PROVE  Backed(venue', shrunk', w.slot, w.row)
    <3>1. u.slot \in Slots /\ u.row \in Row /\ Backed(venue, shrunk, u.slot, u.row)
      BY DEF IInv, TypeOK, SoundRecords, Write
    <3>2. QED
      BY <2>1, <3>1, BackedKept
  <2>2. QED
    BY <2>1
<1>4. QED
  BY <1>1, <1>2, <1>3 DEF SoundRecords

-----------------------------------------------------------------------------
(* What any step does to the call under way and to the index.                *)

LEMMA Least ==
    ASSUME NEW T \in SUBSET Nat, T # {}
    PROVE  \E u \in T : \A w \in T : u <= w
<1> DEFINE R == {ss \in Nat \X Nat : ss[1] < ss[2]}
<1>1. IsWellFoundedOn(R, Nat)
  BY NatLessThanWellFounded DEF OpToRel
<1>2. PICK u \in T : \A w \in T : ~(<<w, u>> \in R)
  <2> HIDE DEF R
  <2>1. QED
    BY <1>1, WFMin
<1>3. ASSUME NEW w \in T PROVE u <= w
  <2>1. w \in Nat /\ u \in Nat
    OBVIOUS
  <2>2. ~(w < u)
    BY <1>2, <2>1
  <2>3. QED
    BY <2>1, <2>2
<1>4. QED
  BY <1>3

First(s) == CHOOSE u \in After(s) : \A w \in After(s) : u <= w

LEMMA FirstAfter ==
    ASSUME NEW s \in Nat, After(s) # {}
    PROVE  First(s) \in Slots /\ orders[First(s)] # None
<1>1. After(s) \in SUBSET Nat /\ After(s) \subseteq {u \in Slots : orders[u] # None}
  BY BasketAssumption DEF After, Slots
<1>2. \E u \in After(s) : \A w \in After(s) : u <= w
  BY <1>1, Least
<1>3. First(s) \in After(s)
  BY <1>2 DEF First
<1>4. QED
  BY <1>1, <1>3

(* The call has ended, or is about to look at an order of the basket.        *)
Advanced ==
    /\ task' \in Task /\ task'.pc \in {"none", "visit"} /\ task'.ret = None
    /\ task'.pc = "visit" => task'.slot \in Slots /\ orders[task'.slot] # None

LEMMA IdleIsTask == Idle \in Task /\ Idle.pc = "none" /\ Idle.ret = None
BY DEF Idle, Task

LEMMA AdvanceSound ==
    ASSUME IInv, NEW s \in Slots, Advance(s)
    PROVE  Advanced
<1>1. CASE task.op = "modify" \/ After(s) = {}
  BY <1>1, IdleIsTask DEF Advance, Advanced
<1>2. CASE ~(task.op = "modify" \/ After(s) = {})
  <2> DEFINE u == First(s)
  <2>1. u \in Slots /\ orders[u] # None
    BY <1>2, FirstAfter, BasketAssumption DEF Slots
  <2>2. task' = [task EXCEPT !.slot = u, !.pc = "visit", !.ret = None]
    BY <1>2 DEF Advance, Visit, First
  <2> HIDE DEF u
  <2>3. task \in Task
    BY DEF IInv, TypeOK
  <2>4. task' = [op |-> task.op, slot |-> u, pc |-> "visit", ret |-> None]
    BY <2>2, <2>3 DEF Task
  <2>5. QED
    BY <2>1, <2>3, <2>4 DEF Advanced, Task
<1>3. QED
  BY <1>1, <1>2

SameOrders == \A s \in Slots : orders'[s] = None <=> orders[s] = None

LEMMA AdvancedSound ==
    ASSUME Advanced, SameOrders
    PROVE  SoundTask'
BY DEF Advanced, SameOrders, SoundTask

LEMMA IndexKept ==
    ASSUME IInv, UNCHANGED index, SameOrders
    PROVE  Indexed'
BY DEF IInv, Indexed, SameOrders

(* A write in the pool that is not awaited stays that of a torn slot.        *)
LEMMA NoneAwaited ==
    ASSUME IInv, task.pc # "save", NEW w \in worker
    PROVE  ~w.awaited /\ w.slot \in torn
BY DEF IInv, SoundWrites, Saving

(* A step that writes no row and changes neither the id, the fills nor the   *)
(* status of an order.                                                        *)
Placing == task.op = "execute" /\ task.pc = "answer"

LEMMA QuietKeeps ==
    ASSUME IInv, TypeOK', VenueKept, Len(venue') = Len(venue),
           shrunk \subseteq shrunk', SameOrders,
           UNCHANGED <<index, db, worker, torn>>,
           \A s \in Slots : orders[s] # None =>
               /\ orders'[s].order_id = orders[s].order_id
               /\ orders'[s].filled_quantity = orders[s].filled_quantity
               /\ orders'[s].status = orders[s].status
               /\ s \notin shrunk' => orders'[s].filled_quantity <= orders'[s].quantity,
           \/ UNCHANGED <<orders, task>>
           \/ task.pc # "save" /\ ~Placing /\ task'.pc # "save" /\ SoundTask'
    PROVE  IInv'
<1>1. SoundRecords'
  <2>1. ASSUME NEW s \in Slots, orders'[s] # None
        PROVE  Backed(venue', shrunk', s, orders'[s])
    <3>1. orders[s] \in Order /\ Backed(venue, shrunk, s, orders[s])
      BY <2>1 DEF IInv, TypeOK, SoundRecords, SameOrders
    <3>2. Backed(venue', shrunk', s, orders[s])
      BY <3>1, BackedKept
    <3>3. QED
      BY <2>1, <3>2 DEF Backed, SameOrders
  <2>2. QED
    BY <2>1, RecordsKept
<1>2. SoundTask'
  <2>1. ASSUME UNCHANGED <<orders, task>>, Placing, task.ret # None
        PROVE  task.ret \in Ids' /\ venue'[task.ret].slot = task.slot
    <3>1. task.ret \in Ids /\ venue[task.ret].slot = task.slot
      BY <2>1 DEF IInv, SoundTask, Placing
    <3>2. QED
      BY <3>1 DEF VenueKept, Ids
  <2>2. CASE UNCHANGED <<orders, task>>
    BY <2>1, <2>2 DEF IInv, SoundTask, Placing
  <2>3. QED
    BY <2>2
<1>3. SoundWrites'
  <2>1. CASE UNCHANGED <<orders, task>>
    BY <2>1 DEF IInv, SoundWrites, Saving
  <2>2. CASE task.pc # "save" /\ task'.pc # "save"
    BY <2>2, NoneAwaited DEF SoundWrites
  <2>3. QED
    BY <2>1, <2>2
<1>4. \A s \in Slots \ torn : Durable(s)'
  <2> TAKE s \in Slots \ torn
  <2>1. Saving(s)' <=> Saving(s)
    BY DEF Saving
  <2>2. QED
    BY <2>1 DEF IInv, Untorn, Durable, SameOrders
<1>5. ASSUME NEW i \in Ids', venue'[i].slot \notin torn
      PROVE  Known(i)'
  <2>1. i \in Ids /\ venue'[i].slot = venue[i].slot
    BY DEF Ids, VenueKept
  <2>2. Known(i) /\ venue[i].slot \in Slots
    BY <1>5, <2>1, Entry DEF IInv, Untorn, TypeOK, Ids
  <2>3. QED
    BY <2>1, <2>2 DEF Known, Placing, SameOrders
<1>6. Untorn'
  BY <1>4, <1>5 DEF Untorn
<1>7. Indexed'
  BY IndexKept
<1>8. QED
  BY <1>1, <1>2, <1>3, <1>6, <1>7 DEF IInv, VenueKept

-----------------------------------------------------------------------------
(* The operators on one order object.                                         *)

(* The order x is the order o with the same id, fills and status.            *)
Same(o, x) ==
    /\ x \in Order /\ x.order_id = o.order_id
    /\ x.filled_quantity = o.filled_quantity /\ x.status = o.status

LEMMA UnlockedSame ==
    ASSUME NEW o \in Order
    PROVE  Same(o, set_clock(o)) /\ set_clock(o).quantity = o.quantity
<1> DEFINE x == [o EXCEPT !.modification_lock_till = Epoch]
           y == [x EXCEPT !.cancellation_lock_till = Epoch]
<1>1. Same(o, x) /\ x.quantity = o.quantity
  BY DEF Same, Order, Epoch
<1> HIDE DEF x
<1>2. Same(o, y) /\ y.quantity = o.quantity
  BY <1>1 DEF Same, Order, Epoch
<1>3. set_clock(o) = y
  BY DEF set_clock, unlocked_with_clock, x
<1>4. QED
  BY <1>2, <1>3

LEMMA LockedSame ==
    ASSUME NEW o \in Order, NEW code, NEW t \in Nat
    PROVE  /\ Same(o, add_lock(o, code, LockCap, t))
           /\ add_lock(o, code, LockCap, t).quantity = o.quantity
<1> DEFINE till == t + MinOf(LockCap, LockCap)
<1>1. till \in Int
  BY BasketAssumption DEF MinOf
<1> HIDE DEF till
<1>2. add_lock(o, code, LockCap, t) \in {[o EXCEPT !.modification_lock_till = till],
                                         [o EXCEPT !.cancellation_lock_till = till]}
  BY DEF add_lock, till
<1>3. QED
  BY <1>1, <1>2 DEF Same, Order

LEMMA ResizedSame ==
    ASSUME NEW o \in Order, NEW q \in Nat
    PROVE  Same(o, set_local_field(o, q)) /\ set_local_field(o, q).quantity = q
BY DEF Same, Order, set_local_field

LEMMA MarketSame ==
    ASSUME NEW o \in Order
    PROVE  Same(o, to_market(o)) /\ to_market(o).quantity = o.quantity
BY DEF Same, Order, to_market

LEMMA CountedSame ==
    ASSUME NEW o \in Order
    PROVE  LET x == [o EXCEPT !.num_modifications = @ + 1] IN
           Same(o, x) /\ x.quantity = o.quantity
BY DEF Same, Order

LEMMA RowOf ==
    ASSUME NEW o \in Order
    PROVE  /\ to_row(o) \in Row /\ to_row(o) # None
           /\ to_row(o).order_id = o.order_id
           /\ to_row(o).filled_quantity = o.filled_quantity
           /\ to_row(o).status = o.status /\ to_row(o).quantity = o.quantity
BY BasketAssumption DEF to_row, Row, Order

LEMMA OrderOf ==
    ASSUME NEW r \in Row, NEW t
    PROVE  /\ from_row(r, t) \in Order /\ from_row(r, t) # None
           /\ from_row(r, t).order_id = r.order_id
           /\ from_row(r, t).filled_quantity = r.filled_quantity
           /\ from_row(r, t).status = r.status /\ from_row(r, t).quantity = r.quantity
BY BasketAssumption DEF from_row, from_init_with_clock, Row, Order, Epoch

(* A report never takes a fill back, adds no more than it says, and leaves   *)
(* an order within its quantity within it.                                    *)
LEMMA UpdatedOrder ==
    ASSUME NEW o \in Order, NEW r \in Reported
    PROVE  LET x == order_update(o, r) IN
           /\ x \in Order /\ x.order_id = o.order_id /\ x.quantity = o.quantity
           /\ o.filled_quantity <= x.filled_quantity
           /\ x.filled_quantity = o.filled_quantity \/ x.filled_quantity <= r.filled_quantity
           /\ o.filled_quantity <= o.quantity => x.filled_quantity <= x.quantity
           /\ Panics(o) => x.filled_quantity = o.filled_quantity
<1> DEFINE y == [o EXCEPT !.status = r.status]
           n == set_from_value(o, r.filled_quantity)
           z == [y EXCEPT !.filled_quantity = n]
<1>1. /\ o.filled_quantity \in Nat /\ o.quantity \in Nat /\ r.filled_quantity \in Int
      /\ o.filled_quantity \in Int
  BY DEF Order, Reported
<1>2. /\ y \in Order /\ y.order_id = o.order_id /\ y.quantity = o.quantity
      /\ y.filled_quantity = o.filled_quantity
  BY DEF Order, Reported
<1> HIDE DEF y
<1>3. CASE order_is_done(o)
  BY <1>1, <1>3 DEF order_update, Panics
<1>4. CASE Panics(o)
  BY <1>1, <1>2, <1>4 DEF order_update, y, Panics
<1>5. CASE ~order_is_done(o) /\ ~Panics(o)
  <2>1. o.filled_quantity <= o.quantity
    BY <1>1, <1>5 DEF Panics
  <2>2. /\ n \in Nat /\ o.filled_quantity <= n /\ n <= o.quantity
        /\ n = o.filled_quantity \/ n <= r.filled_quantity
    BY <1>1, <2>1 DEF set_from_value, MinOf
  <2> HIDE DEF n
  <2>3. /\ z \in Order /\ z.order_id = o.order_id /\ z.quantity = o.quantity
        /\ z.filled_quantity = n
    BY <1>2, <2>2 DEF Order
  <2>4. order_update(o, r) = z
    BY <1>5 DEF order_update, y, n
  <2> HIDE DEF z
  <2>5. QED
    BY <1>5, <2>2, <2>3, <2>4
<1>6. QED
  BY <1>3, <1>4, <1>5

-----------------------------------------------------------------------------
(* The quiet actions.                                                         *)

(* One order is written with the same id, fills and status.                  *)
LEMMA OneSame ==
    ASSUME IInv, NEW s \in Slots, orders[s] # None, NEW x, Same(orders[s], x),
           orders' = [orders EXCEPT ![s] = x]
    PROVE  /\ orders' \in [Slots -> Order \cup {None}] /\ SameOrders
           /\ \A u \in Slots : u # s => orders'[u] = orders[u]
           /\ orders'[s] = x
<1>1. x # None
  BY BasketAssumption DEF Same
<1>2. QED
  BY <1>1 DEF IInv, TypeOK, SameOrders, Same

LEMMA WithinNow ==
    ASSUME IInv, NEW s \in Slots, orders[s] # None
    PROVE  /\ orders[s] \in Order
           /\ s \notin shrunk => orders[s].filled_quantity <= orders[s].quantity
BY DEF IInv, TypeOK, SoundRecords, Backed

LEMMA SpendType ==
    ASSUME IInv, NEW what \in {"moves", "disturbances"}, NEW max, Spend(what, max)
    PROVE  spent' \in [{"moves", "disturbances"} -> Nat]
BY DEF IInv, TypeOK, Spend

LEMMA TickKeeps == ASSUME IInv, Tick PROVE IInv'
<1>1. UNCHANGED <<style, orders, index, broker, db, worker, task, venue, reports, spent,
                  torn, shrunk>> /\ now' = now + 1
  BY DEF Tick
<1>2. VenueKept /\ Len(venue') = Len(venue)
  BY <1>1, VenueUntouched
<1>3. TypeOK'
  BY <1>1 DEF IInv, TypeOK
<1>4. QED
  BY <1>1, <1>2, <1>3, WithinNow, QuietKeeps DEF SameOrders

LEMMA VenueMoveKeeps ==
    ASSUME IInv, NEW i \in Ids, NEW st \in Moves, VenueMove(i, st)
    PROVE  IInv'
<1>1. PICK v \in get(venue[i], st, now) : VenueSet([venue EXCEPT ![i] = v])
  BY DEF VenueMove
<1>2. UNCHANGED <<style, orders, index, broker, db, worker, task, now, torn, shrunk>>
  BY DEF VenueMove
<1>3. Grows(venue[i], v)
  <2>1. venue[i] \in VenueOrder /\ Sound(venue[i]) /\ now \in Nat /\ st \in Status
    BY Entry, BasketAssumption DEF IInv, TypeOK, SoundVenue, Ids
  <2>2. QED
    BY <2>1, ForcedSound
<1>4. VenueKept /\ Len(venue') = Len(venue)
  BY <1>1, <1>3, VenueOneChanged
<1>5. spent' \in [{"moves", "disturbances"} -> Nat]
  BY SpendType DEF VenueMove
<1>6. TypeOK'
  BY <1>2, <1>4, <1>5 DEF IInv, TypeOK, VenueKept
<1>7. QED
  BY <1>2, <1>4, <1>6, WithinNow, QuietKeeps DEF SameOrders

LEMMA LockKeeps ==
    ASSUME IInv, NEW s \in Slots, NEW code, lock_order(s, code)
    PROVE  IInv'
<1> DEFINE x == add_lock(orders[s], code, LockCap, now)
<1>1. /\ task = Idle /\ orders[s] # None
      /\ orders' = [orders EXCEPT ![s] = x]
      /\ UNCHANGED <<style, index, broker, db, worker, task, venue, reports, now, torn, shrunk>>
  BY DEF lock_order
<1>2. Same(orders[s], x) /\ x.quantity = orders[s].quantity
  BY <1>1, WithinNow, LockedSame DEF IInv, TypeOK
<1> HIDE DEF x
<1>3. VenueKept /\ Len(venue') = Len(venue)
  BY <1>1, VenueUntouched
<1>4. spent' \in [{"moves", "disturbances"} -> Nat]
  BY SpendType DEF lock_order, Disturb
<1>5. /\ orders' \in [Slots -> Order \cup {None}] /\ SameOrders
      /\ \A u \in Slots : u # s => orders'[u] = orders[u]
      /\ orders'[s] = x
  BY <1>1, <1>2, OneSame
<1>6. TypeOK'
  BY <1>1, <1>4, <1>5 DEF IInv, TypeOK
<1>7. SoundTask'
  BY <1>1, IdleIsTask DEF SoundTask, Idle
<1>8. task.pc # "save" /\ task'.pc # "save" /\ ~Placing
  BY <1>1, IdleIsTask DEF Placing
<1>9. QED
  BY <1>1, <1>2, <1>3, <1>5, <1>6, <1>7, <1>8, WithinNow, QuietKeeps DEF Same

LEMMA AdoptKeeps == ASSUME IInv, Adopt PROVE IInv'
<1>1. /\ task = Idle /\ broker' = TRUE
      /\ orders' = [s \in Slots |-> IF orders[s] = None THEN None ELSE set_clock(orders[s])]
      /\ UNCHANGED <<style, index, db, worker, task, venue, reports, now, spent, torn, shrunk>>
  BY DEF Adopt
<1>2. ASSUME NEW s \in Slots, orders[s] # None
      PROVE  /\ Same(orders[s], orders'[s]) /\ orders'[s] # None
             /\ orders'[s].quantity = orders[s].quantity
  BY <1>1, <1>2, WithinNow, UnlockedSame, BasketAssumption DEF Same
<1>3. SameOrders
  BY <1>1, <1>2 DEF SameOrders
<1>4. orders' \in [Slots -> Order \cup {None}]
  BY <1>1, <1>2 DEF Same
<1>5. TypeOK'
  BY <1>1, <1>4 DEF IInv, TypeOK
<1>6. VenueKept /\ Len(venue') = Len(venue)
  BY <1>1, VenueUntouched
<1>7. SoundTask'
  BY <1>1, IdleIsTask DEF SoundTask, Idle
<1>8. task.pc # "save" /\ task'.pc # "save" /\ ~Placing
  BY <1>1, IdleIsTask DEF Placing
<1>9. QED
  BY <1>1, <1>2, <1>3, <1>5, <1>6, <1>7, <1>8, WithinNow, QuietKeeps DEF Same

(* A step of a call that changes nothing but the call and the venue.         *)
LEMMA CallKeeps ==
    ASSUME IInv, VenueKept, Len(venue') = Len(venue),
           UNCHANGED <<style, orders, index, broker, db, worker, now, torn, shrunk>>,
           spent' \in [{"moves", "disturbances"} -> Nat],
           task.pc # "save", ~Placing, task' \in Task, task'.pc # "save", SoundTask'
    PROVE  IInv'
<1>1. TypeOK'
  BY DEF IInv, TypeOK, VenueKept
<1>2. QED
  BY <1>1, WithinNow, QuietKeeps DEF SameOrders

LEMMA BeginKeeps ==
    ASSUME IInv, NEW op \in {"execute", "flags"}, Begin(op)
    PROVE  IInv'
<1>1. /\ task = Idle
      /\ task' = [op |-> op, slot |-> First(0), pc |-> "visit", ret |-> None]
      /\ UNCHANGED <<style, orders, index, broker, db, worker, venue, reports, now, spent,
                     torn, shrunk>>
  BY DEF Begin, First
<1>2. First(0) \in Slots /\ orders[First(0)] # None
  BY FirstAfter DEF Begin
<1>3. VenueKept /\ Len(venue') = Len(venue)
  BY <1>1, VenueUntouched
<1>4. task' \in Task /\ SoundTask' /\ task'.pc # "save"
  BY <1>1, <1>2 DEF Task, SoundTask
<1>5. task.pc # "save" /\ ~Placing
  BY <1>1, IdleIsTask DEF Placing
<1>6. spent' \in [{"moves", "disturbances"} -> Nat]
  BY <1>1 DEF IInv, TypeOK
<1>7. QED
  BY <1>1, <1>3, <1>4, <1>5, <1>6, CallKeeps

(* A fan-out that goes on, whatever it told the venue.                       *)
LEMMA AdvanceKeeps ==
    ASSUME IInv, VenueKept, Len(venue') = Len(venue), NEW s \in Slots, Advance(s),
           UNCHANGED <<style, orders, index, broker, db, worker, now, torn, shrunk>>,
           spent' \in [{"moves", "disturbances"} -> Nat],
           task.pc # "save", ~Placing
    PROVE  IInv'
<1>1. Advanced
  BY AdvanceSound
<1>2. SoundTask'
  BY <1>1, AdvancedSound DEF SameOrders
<1>3. QED
  BY <1>1, <1>2, CallKeeps DEF Advanced

(* The order the broker is told about is one of its orders.                  *)
LEMMA IdKnown ==
    ASSUME IInv, NEW s \in Slots, orders[s] # None, orders[s].order_id # None
    PROVE  /\ orders[s].order_id \in Ids
           /\ venue[orders[s].order_id] \in VenueOrder /\ Sound(venue[orders[s].order_id])
<1>1. orders[s].order_id \in 1 .. Len(venue)
  BY DEF IInv, SoundRecords, Backed
<1>2. QED
  BY <1>1, Entry DEF IInv, TypeOK, SoundVenue, Ids

LEMMA SendModifyKeeps ==
    ASSUME IInv, NEW s \in Slots, orders[s] # None, NEW o, Same(orders[s], o),
           NEW t \in Task, t.pc = "answer", t.op \in {"modify", "flags"},
           t.slot = s, t.ret = None, SendModify(s, o, t),
           shrunk \subseteq shrunk', shrunk' \subseteq Slots,
           s \notin shrunk' => o.filled_quantity <= o.quantity,
           task.pc # "save", ~Placing
    PROVE  IInv'
<1>1. /\ orders' = [orders EXCEPT ![s] = o]
      /\ UNCHANGED <<style, index, broker, db, worker, now, torn>>
  BY DEF SendModify
<1>2. /\ orders' \in [Slots -> Order \cup {None}] /\ SameOrders
      /\ \A u \in Slots : u # s => orders'[u] = orders[u]
      /\ orders'[s] = o
  BY <1>1, OneSame
<1>3. /\ VenueKept /\ Len(venue') = Len(venue)
      /\ spent' \in [{"moves", "disturbances"} -> Nat]
  <2>1. CASE UNCHANGED <<venue, reports, spent>>
    BY <2>1, VenueUntouched DEF IInv, TypeOK
  <2>2. CASE Disturb /\ UNCHANGED <<venue, reports>>
    BY <2>2, VenueUntouched, SpendType DEF Disturb
  <2>3. CASE /\ Sendable(o) /\ UNCHANGED spent
             /\ VenueSet([venue EXCEPT ![o.order_id] = modify(@, o.quantity)])
    <3> DEFINE id == orders[s].order_id
               w == modify(venue[id], o.quantity)
    <3>1. o.order_id = id /\ id # None /\ o.quantity \in Nat
      BY <2>3 DEF Same, Sendable, Order
    <3>2. id \in Ids /\ Grows(venue[id], w)
      BY <3>1, IdKnown, ModifiedSound
    <3>3. VenueSet([venue EXCEPT ![id] = w])
      BY <2>3, <3>1
    <3> HIDE DEF id, w
    <3>4. QED
      BY <2>3, <3>2, <3>3, VenueOneChanged DEF IInv, TypeOK
  <2>4. QED
    BY <2>1, <2>2, <2>3 DEF SendModify
<1>4. task' \in Task /\ SoundTask' /\ task'.pc # "save"
  <2>1. CASE task' = task
    BY <1>2, <2>1 DEF IInv, TypeOK, SoundTask, SameOrders, Placing
  <2>2. CASE Advance(s)
    BY <1>2, <2>2, AdvanceSound, AdvancedSound DEF Advanced
  <2>3. CASE task' = t
    BY <1>2, <2>3 DEF SoundTask, SameOrders
  <2>4. QED
    BY <2>1, <2>2, <2>3 DEF SendModify
<1>5. TypeOK'
  BY <1>1, <1>2, <1>3, <1>4 DEF IInv, TypeOK, VenueKept
<1>6. QED
  BY <1>1, <1>2, <1>3, <1>4, <1>5, WithinNow, QuietKeeps DEF Same

LEMMA CallModifyKeeps ==
    ASSUME IInv, NEW s \in Slots, NEW q \in NewQuantities[s], CallModify(s, q)
    PROVE  IInv'
<1> DEFINE o == set_local_field(orders[s], q)
           t == [op |-> "modify", slot |-> s, pc |-> "answer", ret |-> None]
<1>1. /\ task = Idle /\ orders[s] # None /\ SendModify(s, o, t)
      /\ shrunk' = IF q < orders[s].filled_quantity THEN shrunk \cup {s} ELSE shrunk
  BY DEF CallModify
<1>2. q \in Nat
  BY BasketAssumption
<1>3. Same(orders[s], o) /\ o.quantity = q
  BY <1>1, <1>2, WithinNow, ResizedSame
<1> HIDE DEF o
<1>4. orders[s].filled_quantity \in Nat
  BY <1>1, WithinNow DEF Order
<1>5. s \notin shrunk' => o.filled_quantity <= o.quantity
  BY <1>1, <1>2, <1>3, <1>4 DEF Same
<1>6. t \in Task /\ t.pc = "answer" /\ t.op \in {"modify", "flags"} /\ t.slot = s
      /\ t.ret = None
  BY DEF Task
<1>7. shrunk \subseteq shrunk' /\ shrunk' \subseteq Slots
  BY <1>1 DEF IInv, TypeOK
<1>8. task.pc # "save" /\ ~Placing
  BY <1>1, IdleIsTask DEF Placing
<1> HIDE DEF t
<1>9. QED
  BY <1>1, <1>3, <1>5, <1>6, <1>7, <1>8, SendModifyKeeps

LEMMA FlagKeeps ==
    ASSUME IInv, NEW s \in Slots, Flag(s)
    PROVE  IInv'
<1> DEFINE o == orders[s]
<1>1. task.op = "flags" /\ task.pc = "visit" /\ task.slot = s /\ UNCHANGED shrunk
  BY DEF Flag, Visiting
<1>2. o # None /\ o \in Order /\ task.ret = None /\ task \in Task
  BY <1>1, WithinNow DEF IInv, SoundTask, TypeOK
<1>3. task.pc # "save" /\ ~Placing
  BY <1>1 DEF Placing
<1>4. CASE SendModify(s, to_market(o), [task EXCEPT !.pc = "answer"])
  <2> DEFINE t == [task EXCEPT !.pc = "answer"]
             m == to_market(o)
  <2>1. t \in Task /\ t.pc = "answer" /\ t.op \in {"modify", "flags"} /\ t.slot = s
        /\ t.ret = None
    BY <1>1, <1>2 DEF Task
  <2>2. Same(o, m) /\ m.quantity = o.quantity
    BY <1>2, MarketSame
  <2>3. s \notin shrunk' => m.filled_quantity <= m.quantity
    BY <1>1, <1>2, <2>2, WithinNow DEF Same
  <2>4. SendModify(s, m, t)
    BY <1>4
  <2> HIDE DEF t, m
  <2>5. shrunk \subseteq shrunk' /\ shrunk' \subseteq Slots
    BY <1>1 DEF IInv, TypeOK
  <2>6. QED
    BY <1>2, <1>3, <2>1, <2>2, <2>3, <2>4, <2>5, SendModifyKeeps
<1>5. CASE CancelExpired(s, o)
  <2>1. /\ VenueKept /\ Len(venue') = Len(venue)
        /\ spent' \in [{"moves", "disturbances"} -> Nat]
    <3>1. CASE UNCHANGED <<venue, reports, spent>>
      BY <3>1, VenueUntouched DEF IInv, TypeOK
    <3>2. CASE Disturb /\ UNCHANGED <<venue, reports>>
      BY <3>2, VenueUntouched, SpendType DEF Disturb
    <3>3. CASE /\ o.order_id # None /\ UNCHANGED spent
               /\ VenueSet([venue EXCEPT ![o.order_id] = cancel(@)])
      <4> DEFINE id == orders[s].order_id
                 w == cancel(venue[id])
      <4>1. id \in Ids /\ Grows(venue[id], w)
        BY <1>2, <3>3, IdKnown, CanceledSound
      <4>2. VenueSet([venue EXCEPT ![id] = w])
        BY <3>3
      <4> HIDE DEF id, w
      <4>3. QED
        BY <3>3, <4>1, <4>2, VenueOneChanged DEF IInv, TypeOK
    <3>4. QED
      BY <1>5, <3>1, <3>2, <3>3 DEF CancelExpired
  <2>2. Advance(s) /\ UNCHANGED <<style, orders, index, broker, db, worker, now, torn>>
    BY <1>5 DEF CancelExpired
  <2>3. QED
    BY <1>1, <1>3, <2>1, <2>2, AdvanceKeeps
<1>6. CASE /\ Advance(s)
           /\ UNCHANGED <<style, orders, index, broker, db, worker, venue, reports, now,
                          spent, torn>>
  BY <1>1, <1>3, <1>6, VenueUntouched, AdvanceKeeps DEF IInv, TypeOK
<1>7. QED
  BY <1>4, <1>5, <1>6 DEF Flag

-----------------------------------------------------------------------------
(* The actions that place, save and restore.                                  *)

(* An order that execute sends asks for something.                           *)
LEMMA ExecutableAsks ==
    ASSUME IInv, NEW s \in Slots, orders[s] # None, Executable(orders[s])
    PROVE  orders[s] \in Order /\ orders[s].quantity > 0 /\ orders[s].order_id = None
<1>1. orders[s] \in Order /\ Backed(venue, shrunk, s, orders[s])
  BY DEF IInv, TypeOK, SoundRecords
<1>2. orders[s].quantity \in Nat /\ orders[s].filled_quantity \in Nat
  BY <1>1 DEF Order
<1>3. QED
  BY <1>1, <1>2 DEF Executable, is_complete, Backed

LEMMA SendKeeps ==
    ASSUME IInv, NEW s \in Slots, Send(s)
    PROVE  IInv'
<1>1. /\ task.op = "execute" /\ task.pc = "visit" /\ task.slot = s
      /\ UNCHANGED <<style, orders, index, broker, db, worker, now, torn, shrunk>>
  BY DEF Send, Visiting
<1>2. orders[s] # None /\ task.ret = None /\ task \in Task
  BY <1>1 DEF IInv, SoundTask, TypeOK
<1>3. task.pc # "save" /\ ~Placing
  BY <1>1 DEF Placing
<1>4. CASE Advance(s) /\ UNCHANGED <<venue, reports, spent>>
  BY <1>1, <1>3, <1>4, VenueUntouched, AdvanceKeeps DEF IInv, TypeOK
<1>5. CASE /\ Executable(orders[s]) /\ Disturb /\ task' = [task EXCEPT !.pc = "answer"]
           /\ UNCHANGED <<venue, reports>>
  <2>1. orders[s].order_id = None
    BY <1>5 DEF Executable
  <2>2. task' \in Task /\ SoundTask' /\ task'.pc # "save"
    BY <1>1, <1>2, <1>5, <2>1 DEF Task, SoundTask
  <2>3. spent' \in [{"moves", "disturbances"} -> Nat]
    BY <1>5, SpendType DEF Disturb
  <2>4. QED
    BY <1>1, <1>3, <1>5, <2>2, <2>3, VenueUntouched, CallKeeps
<1>6. CASE /\ Executable(orders[s]) /\ UNCHANGED spent
           /\ VenueSet(Append(venue, place(orders[s], s, now)))
           /\ task' = [task EXCEPT !.pc = "answer", !.ret = Len(venue) + 1]
  <2> DEFINE v == place(orders[s], s, now)
             id == Len(venue) + 1
  <2>1. v \in VenueOrder /\ Sound(v) /\ v.slot = s
    BY <1>2, <1>6, ExecutableAsks, PlacedSound DEF IInv, TypeOK
  <2>2. VenueSet(Append(venue, v))
    BY <1>6
  <2> HIDE DEF v
  <2>3. VenueKept /\ Len(venue') = id /\ venue' = Append(venue, v)
    BY <2>1, <2>2, VenueOneAdded
  <2>4. venue \in Seq(VenueOrder) /\ Len(venue) \in Nat /\ id \in Nat
    BY DEF IInv, TypeOK
  <2>5. id \in Ids' /\ venue'[id] = v
    BY <2>3, <2>4 DEF Ids
  <2>6. task'.op = "execute" /\ task'.pc = "answer" /\ task'.slot = s /\ task'.ret = id
        /\ task' \in Task
    BY <1>1, <1>2, <1>6, <2>4 DEF Task
  <2>7. orders[s].order_id = None
    BY <1>6 DEF Executable
  <2>8. TypeOK'
    BY <1>1, <1>6, <2>3, <2>6 DEF IInv, TypeOK, VenueKept
  <2>9. SoundTask'
    BY <1>1, <1>2, <2>1, <2>5, <2>6, <2>7 DEF SoundTask
  <2>10. SoundRecords'
    BY <1>1, <2>3, RecordsKept
  <2>11. SoundWrites'
    BY <1>1, <1>3, <2>6, NoneAwaited DEF SoundWrites
  <2>12. \A u \in Slots \ torn : Durable(u)'
    BY <1>1, <2>6 DEF IInv, Untorn, Durable, Saving
  <2>13. ASSUME NEW i \in Ids', venue'[i].slot \notin torn
         PROVE  Known(i)'
    <3>1. CASE i = id
      BY <2>1, <2>5, <2>6, <3>1 DEF Known
    <3>2. CASE i # id
      <4>1. i \in Ids
        BY <2>3, <2>4, <3>2 DEF Ids
      <4>2. venue'[i].slot = venue[i].slot
        BY <2>3, <4>1 DEF VenueKept
      <4>3. Known(i) /\ ~Placing
        BY <1>3, <2>13, <4>1, <4>2 DEF IInv, Untorn
      <4>4. orders[venue[i].slot] # None /\ orders[venue[i].slot].order_id = i
        BY <4>3 DEF Known, Placing
      <4>5. QED
        BY <1>1, <4>2, <4>4 DEF Known
    <3>3. QED
      BY <3>1, <3>2
  <2>14. Untorn'
    BY <1>1, <2>12, <2>13 DEF Untorn
  <2>15. Indexed'
    BY <1>1, IndexKept DEF SameOrders
  <2>16. QED
    BY <2>3, <2>8, <2>9, <2>10, <2>11, <2>14, <2>15 DEF IInv, VenueKept
<1>7. QED
  BY <1>4, <1>5, <1>6 DEF Send

(* A save, at once: the row is that of the order, or the slot is torn.       *)
LEMMA SaveSound ==
    ASSUME IInv, NEW s \in Slots, NEW o \in Order, save_to_db(s, o)
    PROVE  /\ db' \in [Slots -> Row \cup {None}] /\ torn' \subseteq Slots
           /\ torn \subseteq torn' /\ spent' \in [{"moves", "disturbances"} -> Nat]
           /\ \A u \in Slots : u # s => db'[u] = db[u]
           /\ db'[s] = to_row(o) \/ (s \in torn' /\ db'[s] = db[s])
<1>1. CASE db' = [db EXCEPT ![s] = to_row(o)] /\ UNCHANGED <<torn, spent>>
  <2>1. to_row(o) \in Row /\ db \in [Slots -> Row \cup {None}]
    BY RowOf DEF IInv, TypeOK
  <2>2. /\ db' \in [Slots -> Row \cup {None}] /\ db'[s] = to_row(o)
        /\ \A u \in Slots : u # s => db'[u] = db[u]
    BY <1>1, <2>1
  <2>3. QED
    BY <1>1, <2>2 DEF IInv, TypeOK
<1>2. CASE torn' = torn \cup {s} /\ Disturb /\ UNCHANGED db
  BY <1>2, SpendType DEF Disturb, IInv, TypeOK
<1>3. QED
  BY <1>1, <1>2 DEF save_to_db

(* The answer of the broker is stored and saved.                             *)
LEMMA AnsweredKeeps ==
    ASSUME IInv, NEW s \in Slots, NEW o \in Order, Answered(s, o),
           task.pc = "answer", task.slot = s,
           Backed(venue, shrunk, s, o),
           o.filled_quantity = orders[s].filled_quantity, o.status = orders[s].status,
           IF Placing THEN o.order_id = task.ret ELSE o.order_id = orders[s].order_id
    PROVE  IInv'
<1>1. /\ orders' = [orders EXCEPT ![s] = o]
      /\ UNCHANGED <<style, index, broker, venue, reports, now, shrunk>>
  BY DEF Answered
<1>2. orders[s] # None /\ o # None /\ task \in Task
  BY BasketAssumption DEF IInv, SoundTask, TypeOK
<1>3. /\ orders' \in [Slots -> Order \cup {None}] /\ SameOrders
      /\ \A u \in Slots : u # s => orders'[u] = orders[u]
      /\ orders'[s] = o
  BY <1>1, <1>2 DEF IInv, TypeOK, SameOrders
<1>4. VenueKept
  BY <1>1, VenueUntouched
<1> DEFINE w0 == [slot |-> s, row |-> to_row(o), awaited |-> TRUE]
<1>5. w0 \in Write /\ w0.slot = s /\ w0.row = to_row(o) /\ w0.awaited
  BY RowOf DEF Write
<1> HIDE DEF w0
<1>6. /\ db' \in [Slots -> Row \cup {None}] /\ torn' \subseteq Slots
      /\ torn \subseteq torn' /\ spent' \in [{"moves", "disturbances"} -> Nat]
      /\ \A u \in Slots : u # s => db'[u] = db[u]
      /\ \/ /\ UNCHANGED worker /\ Advance(s)
            /\ db'[s] = to_row(o) \/ (s \in torn' /\ db'[s] = db[s])
         \/ /\ worker' = worker \cup {w0} /\ task' = [task EXCEPT !.pc = "save"]
            /\ UNCHANGED <<db, torn>>
  <2>1. CASE save_to_db(s, o) /\ Advance(s) /\ UNCHANGED worker
    BY <2>1, SaveSound
  <2>2. CASE /\ save_to_db_async(s, o) /\ task' = [task EXCEPT !.pc = "save"]
             /\ UNCHANGED <<db, torn, spent>>
    BY <2>2 DEF save_to_db_async, w0, IInv, TypeOK
  <2>3. QED
    BY <2>1, <2>2 DEF Answered
<1>7. \/ Advanced /\ SoundTask' /\ task'.pc # "save" /\ UNCHANGED worker
         /\ (db'[s] = to_row(o) \/ (s \in torn' /\ db'[s] = db[s]))
      \/ /\ task' \in Task /\ task'.pc = "save" /\ task'.slot = s
         /\ (task.op # "execute" => task'.ret = None) /\ task'.op = task.op
         /\ worker' = worker \cup {w0} /\ UNCHANGED <<db, torn>>
  <2>1. CASE Advance(s) /\ UNCHANGED worker
             /\ (db'[s] = to_row(o) \/ (s \in torn' /\ db'[s] = db[s]))
    BY <1>3, <2>1, AdvanceSound, AdvancedSound DEF Advanced
  <2>2. CASE worker' = worker \cup {w0} /\ task' = [task EXCEPT !.pc = "save"]
             /\ UNCHANGED <<db, torn>>
    BY <1>2, <2>2 DEF Task, IInv, SoundTask
  <2>3. QED
    BY <1>6, <2>1, <2>2
<1>8. SoundTask'
  BY <1>2, <1>3, <1>7 DEF SoundTask, IInv, SameOrders
<1>9. TypeOK'
  BY <1>1, <1>3, <1>5, <1>6, <1>7 DEF IInv, TypeOK, Advanced
<1>10. Backed(venue', shrunk', s, o) /\ Backed(venue', shrunk', s, to_row(o))
  BY <1>1, RowOf DEF Backed
<1>11. SoundRecords'
  <2>1. \A u \in Slots : orders'[u] # None =>
          \/ orders'[u] = orders[u] \/ Backed(venue', shrunk', u, orders'[u])
    BY <1>3, <1>10
  <2>2. \A u \in Slots : db'[u] # None =>
          \/ db'[u] = db[u] \/ Backed(venue', shrunk', u, db'[u])
    BY <1>6, <1>10
  <2>3. \A w \in worker' :
          \/ \E u \in worker : u.slot = w.slot /\ u.row = w.row
          \/ Backed(venue', shrunk', w.slot, w.row)
    BY <1>5, <1>6, <1>10
  <2>4. QED
    BY <1>1, <1>4, <2>1, <2>2, <2>3, RecordsKept
<1>12. SoundWrites'
  <2>1. \A w \in worker : ~w.awaited /\ w.slot \in torn'
    BY <1>6, NoneAwaited
  <2>2. QED
    BY <1>3, <1>5, <1>7, <2>1 DEF SoundWrites, Saving
<1>13. ASSUME NEW u \in Slots \ torn' PROVE Durable(u)'
  <2>1. Durable(u)
    BY <1>6 DEF IInv, Untorn
  <2>2. CASE u # s
    BY <1>1, <1>3, <1>6, <2>1, <2>2 DEF Durable, Saving, SameOrders
  <2>3. CASE u = s
    BY <1>3, <1>7, <2>3, RowOf DEF Durable, Saving
  <2>4. QED
    BY <2>2, <2>3
<1>14. ASSUME NEW i \in Ids', venue'[i].slot \notin torn'
       PROVE  Known(i)'
  <2>1. i \in Ids /\ venue'[i].slot = venue[i].slot /\ i # None
    BY <1>1, BasketAssumption DEF Ids, IInv, TypeOK
  <2>2. Known(i) /\ venue[i].slot \in Slots
    BY <1>6, <1>14, <2>1, Entry DEF IInv, Untorn, TypeOK, Ids
  <2>3. CASE venue[i].slot # s
    BY <1>3, <2>1, <2>2, <2>3 DEF Known
  <2>4. CASE venue[i].slot = s /\ ~Placing
    BY <1>2, <1>3, <2>1, <2>2, <2>4 DEF Known, Placing
  <2>5. CASE venue[i].slot = s /\ Placing
    <3>1. orders[s].order_id = None
      BY <2>5 DEF IInv, SoundTask, Placing
    <3>2. task.ret = i
      BY <2>1, <2>2, <2>5, <3>1 DEF Known
    <3>3. QED
      BY <1>2, <1>3, <2>1, <2>5, <3>2 DEF Known
  <2>6. QED
    BY <2>3, <2>4, <2>5
<1>15. Untorn'
  BY <1>13, <1>14 DEF Untorn
<1>16. Indexed'
  BY <1>1, <1>3, IndexKept
<1>17. QED
  BY <1>4, <1>8, <1>9, <1>11, <1>12, <1>15, <1>16 DEF IInv, VenueKept

LEMMA StoreKeeps ==
    ASSUME IInv, NEW s \in Slots, Store(s)
    PROVE  IInv'
<1> DEFINE x == [orders[s] EXCEPT !.order_id = task.ret]
<1>1. Placing /\ task.pc = "answer" /\ task.slot = s /\ Answered(s, x)
  BY DEF Store, Placing
<1>2. /\ orders[s] # None /\ orders[s].order_id = None
      /\ task.ret # None => task.ret \in Ids /\ venue[task.ret].slot = s
      /\ task.ret \in Nat \cup {None}
  BY <1>1 DEF IInv, SoundTask, Placing, TypeOK, Task
<1>3. orders[s] \in Order /\ Backed(venue, shrunk, s, orders[s])
  BY <1>2 DEF IInv, TypeOK, SoundRecords
<1>4. /\ x \in Order /\ x.order_id = task.ret /\ x.quantity = orders[s].quantity
      /\ x.filled_quantity = orders[s].filled_quantity /\ x.status = orders[s].status
  BY <1>2, <1>3 DEF Order
<1> HIDE DEF x
<1>5. Backed(venue, shrunk, s, x)
  BY <1>2, <1>3, <1>4 DEF Backed, Ids
<1>6. QED
  BY <1>1, <1>4, <1>5, AnsweredKeeps

LEMMA CountKeeps ==
    ASSUME IInv, NEW s \in Slots, Count(s)
    PROVE  IInv'
<1> DEFINE x == [orders[s] EXCEPT !.num_modifications = @ + 1]
<1>1. ~Placing /\ task.pc = "answer" /\ task.slot = s /\ Answered(s, x)
  BY DEF Count, Placing
<1>2. orders[s] # None
  BY <1>1 DEF IInv, SoundTask
<1>3. orders[s] \in Order /\ Backed(venue, shrunk, s, orders[s])
  BY <1>2 DEF IInv, TypeOK, SoundRecords
<1>4. Same(orders[s], x) /\ x.quantity = orders[s].quantity
  BY <1>3, CountedSame
<1> HIDE DEF x
<1>5. Backed(venue, shrunk, s, x)
  BY <1>3, <1>4 DEF Backed, Same
<1>6. QED
  BY <1>1, <1>4, <1>5, AnsweredKeeps DEF Same

LEMMA UpsertKeeps ==
    ASSUME IInv, NEW w \in worker, upsert_order(w)
    PROVE  IInv'
<1> DEFINE s == w.slot
<1>1. /\ worker' = worker \ {w}
      /\ UNCHANGED <<style, orders, index, broker, venue, reports, now, shrunk>>
  BY DEF upsert_order
<1>2. w \in Write /\ s \in Slots /\ w.row \in Row /\ Backed(venue, shrunk, s, w.row)
  BY DEF IInv, TypeOK, Write, SoundRecords
<1>3. /\ db' \in [Slots -> Row \cup {None}] /\ torn' \subseteq Slots
      /\ torn \subseteq torn' /\ spent' \in [{"moves", "disturbances"} -> Nat]
      /\ \A u \in Slots : u # s => db'[u] = db[u]
      /\ db'[s] = w.row \/ (s \in torn' /\ db'[s] = db[s])
  <2>1. CASE db' = [db EXCEPT ![s] = w.row] /\ UNCHANGED <<torn, spent>>
    BY <1>2, <2>1 DEF IInv, TypeOK
  <2>2. CASE torn' = torn \cup {s} /\ Disturb /\ UNCHANGED db
    BY <1>2, <2>2, SpendType DEF Disturb, IInv, TypeOK
  <2>3. QED
    BY <2>1, <2>2 DEF upsert_order
<1>4. IF w.awaited THEN Advance(s) ELSE UNCHANGED task
  BY DEF upsert_order
<1>5. VenueKept
  BY <1>1, VenueUntouched
<1> HIDE DEF s
<1>6. SameOrders
  BY <1>1 DEF SameOrders
<1>7. Indexed'
  BY <1>1, <1>6, IndexKept
<1>8. SoundRecords'
  <2>1. Backed(venue', shrunk', s, w.row)
    BY <1>1, <1>2
  <2>2. \A u \in Slots : db'[u] # None =>
          \/ db'[u] = db[u] \/ Backed(venue', shrunk', u, db'[u])
    BY <1>3, <2>1
  <2>3. QED
    BY <1>1, <1>5, <2>2, RecordsKept
<1>9. CASE w.awaited
  <2>1. /\ Saving(s) /\ w.row = to_row(orders[s]) /\ orders[s] # None
        /\ orders[s] \in Order
    BY <1>2, <1>9, WithinNow DEF IInv, SoundWrites, SoundTask, Saving, s
  <2>2. Advanced
    BY <1>2, <1>4, <1>9, AdvanceSound
  <2>3. SoundTask'
    BY <1>6, <2>2, AdvancedSound
  <2>4. TypeOK'
    BY <1>1, <1>3, <2>2 DEF IInv, TypeOK, Advanced
  <2>5. ASSUME NEW u \in worker' PROVE ~u.awaited /\ u.slot \in torn'
    <3>1. u \in worker /\ u # w /\ u \in Write
      BY <1>1 DEF IInv, TypeOK
    <3>2. CASE u.awaited
      <4>1. Saving(u.slot) /\ u.row = to_row(orders[u.slot])
        BY <3>1, <3>2 DEF IInv, SoundWrites
      <4>2. u.slot = w.slot /\ u.row = w.row
        BY <2>1, <4>1 DEF Saving, s
      <4>3. u = w
        BY <1>2, <1>9, <3>1, <3>2, <4>2 DEF Write
      <4>4. QED
        BY <3>1, <4>3
    <3>3. CASE ~u.awaited
      BY <1>3, <3>1, <3>3 DEF IInv, SoundWrites
    <3>4. QED
      BY <3>2, <3>3
  <2>6. SoundWrites'
    BY <2>2, <2>5 DEF SoundWrites, Advanced
  <2>7. ASSUME NEW u \in Slots \ torn' PROVE Durable(u)'
    <3>1. Durable(u)
      BY <1>3 DEF IInv, Untorn
    <3>2. CASE u # s
      BY <1>1, <1>3, <2>1, <3>1, <3>2 DEF Durable, Saving
    <3>3. CASE u = s
      BY <1>1, <1>3, <2>1, <3>3, RowOf DEF Durable
    <3>4. QED
      BY <3>2, <3>3
  <2>8. ASSUME NEW i \in Ids', venue'[i].slot \notin torn' PROVE Known(i)'
    BY <1>1, <1>3, <2>1, <2>8 DEF IInv, Untorn, Known, Saving, Ids
  <2>9. QED
    BY <1>5, <1>7, <1>8, <2>3, <2>4, <2>6, <2>7, <2>8 DEF IInv, Untorn, VenueKept
<1>10. CASE ~w.awaited
  <2>1. s \in torn /\ UNCHANGED task
    BY <1>4, <1>10 DEF IInv, SoundWrites, s
  <2>2. TypeOK'
    BY <1>1, <1>3, <2>1 DEF IInv, TypeOK
  <2>3. SoundTask'
    BY <1>1, <2>1 DEF IInv, SoundTask, Ids
  <2>4. SoundWrites'
    <3>1. \A u \in worker' :
            \/ u.awaited /\ Saving(u.slot)' /\ u.row = to_row(orders'[u.slot])
            \/ ~u.awaited /\ u.slot \in torn'
      BY <1>1, <1>3, <2>1 DEF IInv, SoundWrites, Saving
    <3>2. task'.pc = "save" => \E u \in worker' : u.awaited /\ u.slot = task'.slot
      BY <1>1, <1>10, <2>1 DEF IInv, SoundWrites
    <3>3. QED
      BY <3>1, <3>2 DEF SoundWrites
  <2>5. \A u \in Slots \ torn' : Durable(u)'
    BY <1>1, <1>3, <2>1 DEF IInv, Untorn, Durable, Saving
  <2>6. ASSUME NEW i \in Ids', venue'[i].slot \notin torn' PROVE Known(i)'
    BY <1>1, <1>3, <2>1, <2>6 DEF IInv, Untorn, Known, Ids
  <2>7. QED
    BY <1>5, <1>7, <1>8, <2>2, <2>3, <2>4, <2>5, <2>6 DEF IInv, Untorn, VenueKept
<1>11. QED
  BY <1>9, <1>10

(* A report is applied and saved, unless it changes nothing or panics.       *)
LEMMA DeliverKeeps ==
    ASSUME IInv, NEW s \in Slots, NEW r \in reports, task = Idle, orders[s] # None,
           orders[s].order_id = r.order_id, Deliver(s, r)
    PROVE  IInv'
<1> DEFINE o == orders[s]
           x == order_update(o, r)
<1>1. /\ orders' = [orders EXCEPT ![s] = x]
      /\ IF order_is_done(o) \/ Panics(o) THEN UNCHANGED <<db, torn, spent>>
         ELSE save_to_db(s, x)
      /\ UNCHANGED <<style, index, broker, worker, task, venue, reports, now, shrunk>>
  BY DEF Deliver
<1>2. /\ o \in Order /\ Backed(venue, shrunk, s, o) /\ r \in Reported
      /\ Covered(venue, r.order_id, r.filled_quantity)
  BY DEF IInv, TypeOK, SoundRecords, SoundReports
<1>3. /\ x \in Order /\ x.order_id = o.order_id /\ x.quantity = o.quantity
      /\ o.filled_quantity <= x.filled_quantity
      /\ x.filled_quantity = o.filled_quantity \/ x.filled_quantity <= r.filled_quantity
      /\ o.filled_quantity <= o.quantity => x.filled_quantity <= x.quantity
      /\ Panics(o) => x.filled_quantity = o.filled_quantity
  BY <1>2, UpdatedOrder
<1>4. order_is_done(o) => x = o
  BY DEF order_update
<1> HIDE DEF x
<1>5. x # None
  BY <1>3, BasketAssumption
<1>6. /\ orders' \in [Slots -> Order \cup {None}] /\ SameOrders
      /\ \A u \in Slots : u # s => orders'[u] = orders[u]
      /\ orders'[s] = x
  BY <1>1, <1>3, <1>5 DEF IInv, TypeOK, SameOrders
<1>7. VenueKept
  BY <1>1, VenueUntouched
<1>8. Backed(venue', shrunk', s, x)
  <2>1. /\ x.filled_quantity \in Nat /\ o.filled_quantity \in Nat /\ o.quantity \in Nat
        /\ r.filled_quantity \in Int
    BY <1>2, <1>3 DEF Order, Reported
  <2>2. s \notin shrunk => x.filled_quantity <= x.quantity
    BY <1>2, <1>3 DEF Backed
  <2>3. r.order_id # None /\ r.order_id \in 1 .. Len(venue)
        /\ venue[r.order_id].peak \in Int
    BY <1>2, BasketAssumption, Entry DEF Covered, IInv, TypeOK
  <2>4. ASSUME x.filled_quantity > 0
        PROVE  Covered(venue, x.order_id, x.filled_quantity)
    <3>1. CASE x.filled_quantity = o.filled_quantity
      BY <1>2, <1>3, <2>4, <3>1 DEF Backed
    <3>2. CASE x.filled_quantity <= r.filled_quantity
      BY <1>2, <1>3, <2>1, <2>3, <3>2 DEF Covered
    <3>3. QED
      BY <1>3, <3>1, <3>2
  <2>5. Backed(venue, shrunk, s, x)
    BY <1>2, <1>3, <2>2, <2>3, <2>4 DEF Backed
  <2>6. QED
    BY <1>1, <2>5
<1>9. /\ db' \in [Slots -> Row \cup {None}] /\ torn' \subseteq Slots
      /\ torn \subseteq torn' /\ spent' \in [{"moves", "disturbances"} -> Nat]
      /\ \A u \in Slots : u # s => db'[u] = db[u]
      /\ \/ db'[s] = to_row(x)
         \/ db'[s] = db[s] /\ (s \in torn' \/ x = o \/ Panics(o))
  <2>1. CASE UNCHANGED <<db, torn, spent>> /\ (order_is_done(o) \/ Panics(o))
    BY <1>4, <2>1 DEF IInv, TypeOK
  <2>2. CASE save_to_db(s, x)
    BY <1>3, <2>2, SaveSound
  <2>3. QED
    BY <1>1, <2>1, <2>2
<1>10. TypeOK'
  BY <1>1, <1>6, <1>9 DEF IInv, TypeOK
<1>11. SoundRecords'
  <2>1. \A u \in Slots : orders'[u] # None =>
          \/ orders'[u] = orders[u] \/ Backed(venue', shrunk', u, orders'[u])
    BY <1>6, <1>8
  <2>2. Backed(venue', shrunk', s, to_row(x))
    BY <1>3, <1>8, RowOf DEF Backed
  <2>3. \A u \in Slots : db'[u] # None =>
          \/ db'[u] = db[u] \/ Backed(venue', shrunk', u, db'[u])
    BY <1>9, <2>2
  <2>4. QED
    BY <1>1, <1>7, <2>1, <2>3, RecordsKept
<1>12. SoundTask' /\ task.pc = "none" /\ task'.pc = "none"
  BY <1>1, IdleIsTask DEF SoundTask, Idle
<1>13. SoundWrites'
  BY <1>1, <1>9, <1>12, NoneAwaited DEF SoundWrites
<1>14. ASSUME NEW u \in Slots \ torn' PROVE Durable(u)'
  <2>1. Durable(u) /\ ~Saving(u) /\ ~Saving(u)'
    BY <1>9, <1>12 DEF IInv, Untorn, Saving
  <2>2. CASE u # s
    BY <1>1, <1>6, <1>9, <2>1, <2>2 DEF Durable
  <2>3. CASE u = s /\ db'[s] = to_row(x)
    BY <1>3, <1>6, <2>3, RowOf DEF Durable
  <2>4. CASE u = s /\ db'[s] = db[s] /\ x = o
    BY <1>1, <1>6, <2>1, <2>4 DEF Durable
  <2>5. CASE u = s /\ db'[s] = db[s] /\ Panics(o)
    <3>1. s \in shrunk
      BY <1>2, <2>5 DEF Backed, Panics, Order
    <3>2. QED
      BY <1>1, <1>3, <1>6, <2>1, <2>5, <3>1 DEF Durable
  <2>6. QED
    BY <1>9, <2>2, <2>3, <2>4, <2>5
<1>15. ASSUME NEW i \in Ids', venue'[i].slot \notin torn' PROVE Known(i)'
  <2>1. i \in Ids /\ venue'[i].slot = venue[i].slot /\ Known(i) /\ venue[i].slot \in Slots
    BY <1>1, <1>9, <1>15, Entry DEF IInv, Untorn, Ids, TypeOK
  <2>2. orders[venue[i].slot] # None /\ orders[venue[i].slot].order_id = i
    BY <1>12, <2>1 DEF Known
  <2>3. QED
    BY <1>3, <1>5, <1>6, <2>1, <2>2 DEF Known
<1>16. Indexed'
  BY <1>1, <1>6, IndexKept
<1>17. QED
  BY <1>7, <1>10, <1>11, <1>12, <1>13, <1>14, <1>15, <1>16 DEF IInv, Untorn, VenueKept

LEMMA JoinKeeps ==
    ASSUME IInv, NEW ix, Join(ix)
    PROVE  IInv'
<1> DEFINE idx == IF ix = None THEN get_next_index ELSE ix
           new(s) == from_init_with_clock(
                        [quantity |-> Quantity[s], filled_quantity |-> 0, status |-> "OPEN",
                         order_id |-> None, order_type |-> "LIMIT", timestamp |-> now,
                         convert_to_market_after_expiry |-> s \in Converts,
                         cancel_after_expiry |-> s \in Cancels], now)
<1>1. PICK s \in Slots :
        /\ task = Idle /\ IndexFree(idx)
        /\ \A u \in Slots : (orders[u] # None) <=> (u < s)
        /\ orders' = [orders EXCEPT ![s] = new(s)]
        /\ index' = [i \in DOMAIN index \cup {idx} |-> IF i = idx THEN s ELSE index[i]]
        /\ save_to_db(s, new(s))
        /\ UNCHANGED <<style, broker, worker, task, venue, reports, now, shrunk>>
  BY DEF Join
<1> DEFINE o == new(s)
<1>2. /\ o \in Order /\ o.order_id = None /\ o.filled_quantity = 0
      /\ o.quantity = Quantity[s]
  BY BasketAssumption DEF from_init_with_clock, Order, OrderStatus, Epoch, IInv, TypeOK
<1>3. idx \notin DOMAIN index
  BY <1>1 DEF IndexFree
<1> HIDE DEF idx, new
<1>4. o # None /\ Quantity[s] \in Nat \ {0}
  BY <1>2, BasketAssumption
<1>5. orders[s] = None
  <2>1. s \in Int /\ ~(s < s)
    BY BasketAssumption DEF Slots
  <2>2. QED
    BY <1>1, <2>1
<1>6. /\ orders' \in [Slots -> Order \cup {None}]
      /\ \A u \in Slots : u # s => orders'[u] = orders[u]
      /\ orders'[s] = o
  BY <1>1, <1>2 DEF IInv, TypeOK
<1>7. /\ db' \in [Slots -> Row \cup {None}] /\ torn' \subseteq Slots
      /\ torn \subseteq torn' /\ spent' \in [{"moves", "disturbances"} -> Nat]
      /\ \A u \in Slots : u # s => db'[u] = db[u]
      /\ db'[s] = to_row(o) \/ (s \in torn' /\ db'[s] = db[s])
  BY <1>1, <1>2, SaveSound
<1>8. VenueKept
  BY <1>1, VenueUntouched
<1>9. TypeOK'
  BY <1>1, <1>6, <1>7 DEF IInv, TypeOK
<1>10. Backed(venue', shrunk', s, o) /\ Backed(venue', shrunk', s, to_row(o))
  BY <1>2, <1>4, RowOf DEF Backed
<1>11. SoundRecords'
  <2>1. \A u \in Slots : orders'[u] # None =>
          \/ orders'[u] = orders[u] \/ Backed(venue', shrunk', u, orders'[u])
    BY <1>6, <1>10
  <2>2. \A u \in Slots : db'[u] # None =>
          \/ db'[u] = db[u] \/ Backed(venue', shrunk', u, db'[u])
    BY <1>7, <1>10
  <2>3. QED
    BY <1>1, <1>8, <2>1, <2>2, RecordsKept
<1>12. SoundTask' /\ task.pc = "none" /\ task'.pc = "none"
  BY <1>1, IdleIsTask DEF SoundTask, Idle
<1>13. SoundWrites'
  BY <1>1, <1>7, <1>12, NoneAwaited DEF SoundWrites
<1>14. ASSUME NEW u \in Slots \ torn' PROVE Durable(u)'
  <2>1. Durable(u) /\ ~Saving(u) /\ ~Saving(u)'
    BY <1>7, <1>12 DEF IInv, Untorn, Saving
  <2>2. CASE u # s
    BY <1>1, <1>6, <1>7, <2>1, <2>2 DEF Durable
  <2>3. CASE u = s
    BY <1>2, <1>6, <1>7, <2>3, RowOf DEF Durable
  <2>4. QED
    BY <2>2, <2>3
<1>15. ASSUME NEW i \in Ids', venue'[i].slot \notin torn' PROVE Known(i)'
  <2>1. i \in Ids /\ venue'[i].slot = venue[i].slot /\ Known(i) /\ venue[i].slot \in Slots
    BY <1>1, <1>7, <1>15, Entry DEF IInv, Untorn, Ids, TypeOK
  <2>2. orders[venue[i].slot] # None /\ orders[venue[i].slot].order_id = i
    BY <1>12, <2>1 DEF Known
  <2>3. QED
    BY <1>5, <1>6, <2>1, <2>2 DEF Known
<1>16. Indexed'
  <2>1. /\ DOMAIN index' = DOMAIN index \cup {idx} /\ index'[idx] = s
        /\ \A i \in DOMAIN index : index'[i] = index[i]
    BY <1>1, <1>3
  <2>2. \A i \in DOMAIN index : index[i] \in Slots /\ orders[index[i]] # None /\ index[i] # s
    BY <1>5 DEF IInv, Indexed
  <2>3. \A i \in DOMAIN index' : index'[i] \in Slots /\ orders'[index'[i]] # None
    BY <1>4, <1>6, <2>1, <2>2
  <2>4. \A u \in Slots : orders'[u] # None => \E i \in DOMAIN index' : index'[i] = u
    BY <1>6, <2>1 DEF IInv, Indexed
  <2>5. \A i, j \in DOMAIN index' : index'[i] = index'[j] => i = j
    BY <2>1, <2>2 DEF IInv, Indexed
  <2>6. QED
    BY <2>3, <2>4, <2>5 DEF Indexed
<1>17. QED
  BY <1>8, <1>9, <1>11, <1>12, <1>13, <1>14, <1>15, <1>16 DEF IInv, Untorn, VenueKept

LEMMA DropKeeps == ASSUME IInv, Drop PROVE IInv'
<1>1. /\ Disturb /\ task' = Idle
      /\ worker' = {[w EXCEPT !.awaited = FALSE] : w \in worker}
      /\ torn' = IF task.pc = "save" \/ task.ret # None
                 THEN torn \cup {task.slot} ELSE torn
      /\ UNCHANGED <<style, orders, index, broker, db, venue, reports, now, shrunk>>
  BY DEF Drop
<1>2. task.pc = "save" \/ task.ret # None => task.slot \in Slots
  BY DEF IInv, SoundTask, TypeOK, Task
<1>3. torn \subseteq torn' /\ torn' \subseteq Slots
  BY <1>1, <1>2 DEF IInv, TypeOK
<1>4. ASSUME NEW w \in worker'
      PROVE  /\ w \in Write /\ ~w.awaited /\ w.slot \in torn'
             /\ \E u \in worker : u.slot = w.slot /\ u.row = w.row
  <2>1. PICK u \in worker : w = [u EXCEPT !.awaited = FALSE]
    BY <1>1
  <2>2. u \in Write
    BY DEF IInv, TypeOK
  <2>3. w \in Write /\ ~w.awaited /\ w.slot = u.slot /\ w.row = u.row
    BY <2>1, <2>2 DEF Write
  <2>4. u.slot \in torn'
    BY <1>1, <1>3 DEF IInv, SoundWrites, Saving
  <2>5. QED
    BY <2>3, <2>4
<1>5. spent' \in [{"moves", "disturbances"} -> Nat]
  BY <1>1, SpendType DEF Disturb
<1>6. TypeOK'
  BY <1>1, <1>3, <1>4, <1>5, IdleIsTask DEF IInv, TypeOK
<1>7. VenueKept
  BY <1>1, VenueUntouched
<1>8. SoundRecords'
  BY <1>1, <1>4, <1>7, RecordsKept
<1>9. SoundTask' /\ task'.pc = "none"
  BY <1>1, IdleIsTask DEF SoundTask, Idle
<1>10. SoundWrites'
  BY <1>4, <1>9 DEF SoundWrites
<1>11. ASSUME NEW u \in Slots \ torn' PROVE Durable(u)'
  <2>1. Durable(u) /\ ~Saving(u)
    BY <1>1, <1>3 DEF IInv, Untorn, Saving
  <2>2. QED
    BY <1>1, <2>1 DEF Durable
<1>12. ASSUME NEW i \in Ids', venue'[i].slot \notin torn' PROVE Known(i)'
  <2>1. i \in Ids /\ venue'[i].slot = venue[i].slot /\ Known(i) /\ i # None
    BY <1>1, <1>3, <1>12, BasketAssumption DEF IInv, Untorn, Ids, TypeOK
  <2>2. orders[venue[i].slot] # None /\ orders[venue[i].slot].order_id = i
    BY <1>1, <1>12, <2>1 DEF Known
  <2>3. QED
    BY <1>1, <2>1, <2>2 DEF Known
<1>13. Indexed'
  BY <1>1, IndexKept DEF SameOrders
<1>14. QED
  BY <1>6, <1>7, <1>8, <1>9, <1>10, <1>11, <1>12, <1>13 DEF IInv, Untorn, VenueKept

(* The ranks of a finite set of numbers are 0, 1, ... without a gap.         *)
Rank(K, s) == Cardinality({u \in K : u < s})

LEMMA Ranked ==
    ASSUME NEW K \in SUBSET Nat, IsFiniteSet(K)
    PROVE  /\ Cardinality(K) \in Nat
           /\ \A s \in K : Rank(K, s) \in 0 .. (Cardinality(K) - 1)
           /\ \A s, t \in K : Rank(K, s) = Rank(K, t) => s = t
           /\ \A i \in 0 .. (Cardinality(K) - 1) : \E s \in K : Rank(K, s) = i
<1> DEFINE n == Cardinality(K)
           Below(s) == {u \in K : u < s}
<1>1. n \in Nat
  BY FS_CardinalityType
<1>2. ASSUME NEW s \in K
      PROVE  IsFiniteSet(Below(s)) /\ Rank(K, s) \in Nat /\ Rank(K, s) < n
  <2>1. Below(s) \in SUBSET K /\ s \notin Below(s)
    OBVIOUS
  <2>2. /\ IsFiniteSet(Below(s)) /\ Cardinality(Below(s)) <= n
        /\ n = Cardinality(Below(s)) => K = Below(s)
    BY <2>1, FS_Subset
  <2>3. Cardinality(Below(s)) \in Nat
    BY <2>2, FS_CardinalityType
  <2>4. K # Below(s)
    BY <2>1
  <2> HIDE DEF Below, n
  <2>5. QED
    BY <1>1, <2>2, <2>3, <2>4 DEF Rank, Below
<1>3. ASSUME NEW s \in K, NEW t \in K, s < t
      PROVE  Rank(K, s) < Rank(K, t)
  <2>1. Below(s) \in SUBSET Below(t) /\ s \in Below(t) /\ s \notin Below(s)
    <3>1. s \in Nat /\ t \in Nat /\ \A u \in K : u \in Nat
      OBVIOUS
    <3>2. ASSUME NEW u \in Below(s) PROVE u \in Below(t)
      <4>1. u \in Nat /\ u \in K /\ u < s
        BY <3>1
      <4>2. QED
        BY <1>3, <3>1, <4>1
    <3>3. s \in Below(t)
      BY <1>3
    <3>4. s \notin Below(s)
      BY <3>1
    <3>5. QED
      BY <3>2, <3>3, <3>4
  <2>2. IsFiniteSet(Below(t))
    BY <1>2
  <2>3. /\ Cardinality(Below(s)) <= Cardinality(Below(t))
        /\ Cardinality(Below(t)) = Cardinality(Below(s)) => Below(t) = Below(s)
    BY <2>1, <2>2, FS_Subset
  <2>4. Rank(K, s) \in Nat /\ Rank(K, t) \in Nat
    BY <1>2
  <2>5. Below(t) # Below(s)
    BY <2>1
  <2> HIDE DEF Below
  <2>6. QED
    BY <2>3, <2>4, <2>5 DEF Rank, Below
<1>4. ASSUME NEW s \in K, NEW t \in K, Rank(K, s) = Rank(K, t)
      PROVE  s = t
  <2>1. s \in Nat /\ t \in Nat /\ Rank(K, s) \in Nat
    BY <1>2
  <2>2. ~(s < t) /\ ~(t < s)
    BY <1>3, <1>4, <2>1
  <2>3. QED
    BY <2>1, <2>2
<1>5. ASSUME NEW s \in K PROVE Rank(K, s) \in 0 .. (n - 1)
  <2>1. Rank(K, s) \in Nat /\ Rank(K, s) < n
    BY <1>2
  <2> HIDE DEF n
  <2>2. QED
    BY <1>1, <2>1
<1> DEFINE f == [s \in K |-> Rank(K, s)]
           T == 0 .. (n - 1)
<1>6. f \in Injection(K, T)
  <2>1. f \in [K -> T]
    BY <1>5
  <2>2. QED
    BY <1>4, <2>1 DEF Injection, IsInjective
<1>7. IsFiniteSet(T) /\ Cardinality(T) = n
  <2>1. 0 \in Int /\ n - 1 \in Int
    BY <1>1
  <2>2. IsFiniteSet(T) /\ Cardinality(T) = IF 0 > n - 1 THEN 0 ELSE n - 1 - 0 + 1
    BY <2>1, FS_Interval
  <2>3. QED
    BY <1>1, <2>2
<1>8. f \in Surjection(K, T)
  BY <1>6, <1>7, FS_Injection
<1>9. \A i \in T : \E s \in K : f[s] = i
  BY <1>8 DEF Surjection
<1>10. QED
  BY <1>1, <1>4, <1>5, <1>9

LEMMA RestartKeeps == ASSUME IInv, Restart PROVE IInv'
<1> DEFINE kept == {s \in Slots : db[s] # None}
           n == Cardinality(kept)
<1>1. /\ \A s \in Slots : orders[s] # None
      /\ Disturb
      /\ orders' = [s \in Slots |-> IF s \in kept THEN from_row(db[s], now) ELSE None]
      /\ index' = [i \in 0 .. (n - 1) |-> CHOOSE s \in kept : Rank(kept, s) = i]
      /\ task' = Idle /\ worker' = {}
      /\ torn' = torn \cup {w.slot : w \in worker}
                      \cup (IF task.ret # None THEN {task.slot} ELSE {})
      /\ UNCHANGED <<style, broker, db, venue, reports, now, shrunk>>
  BY DEF Restart, Rank
<1>2. torn \subseteq torn' /\ torn' \subseteq Slots
  <2>1. task.ret # None => task.slot \in Slots
    BY DEF IInv, SoundTask, TypeOK, Task
  <2>2. \A w \in worker : w.slot \in Slots
    BY DEF IInv, TypeOK, Write
  <2>3. QED
    BY <1>1, <2>1, <2>2 DEF IInv, TypeOK
<1>3. ASSUME NEW s \in kept
      PROVE  /\ db[s] \in Row /\ orders'[s] \in Order /\ orders'[s] # None
             /\ orders'[s].order_id = db[s].order_id
             /\ orders'[s].filled_quantity = db[s].filled_quantity
             /\ orders'[s].status = db[s].status
             /\ orders'[s].quantity = db[s].quantity
  <2>1. db[s] \in Row /\ orders'[s] = from_row(db[s], now)
    BY <1>1 DEF IInv, TypeOK
  <2>2. QED
    BY <2>1, OrderOf
<1>4. \A s \in Slots \ kept : orders'[s] = None
  BY <1>1
<1>5. orders' \in [Slots -> Order \cup {None}]
  BY <1>1, <1>3
<1>6. spent' \in [{"moves", "disturbances"} -> Nat]
  BY <1>1, SpendType DEF Disturb
<1>7. TypeOK'
  BY <1>1, <1>2, <1>5, <1>6, IdleIsTask DEF IInv, TypeOK
<1>8. VenueKept
  BY <1>1, VenueUntouched
<1>9. SoundRecords'
  <2>1. ASSUME NEW s \in Slots, orders'[s] # None
        PROVE  Backed(venue', shrunk', s, orders'[s])
    <3>1. s \in kept
      BY <1>4, <2>1
    <3>2. Backed(venue, shrunk, s, db[s])
      BY <3>1 DEF IInv, SoundRecords
    <3>3. QED
      BY <1>1, <1>3, <3>1, <3>2 DEF Backed
  <2>2. QED
    BY <1>1, <1>8, <2>1, RecordsKept
<1>10. SoundTask' /\ task'.pc = "none"
  BY <1>1, IdleIsTask DEF SoundTask, Idle
<1>11. SoundWrites'
  BY <1>1, <1>10 DEF SoundWrites
<1>12. ASSUME NEW u \in Slots \ torn' PROVE Durable(u)'
  BY <1>1, <1>3, <1>4 DEF Durable
<1>13. ASSUME NEW i \in Ids', venue'[i].slot \notin torn' PROVE Known(i)'
  <2> DEFINE s == venue[i].slot
  <2>1. i \in Ids /\ venue'[i].slot = s /\ Known(i) /\ i # None /\ s \in Slots
        /\ Durable(s)
    BY <1>1, <1>2, <1>13, BasketAssumption, Entry DEF IInv, Untorn, Ids, TypeOK
  <2>2. orders[s] # None /\ orders[s].order_id = i
    BY <1>1, <1>13, <2>1 DEF Known
  <2>3. ~Saving(s)
    BY <1>1, <1>13, <2>1 DEF IInv, SoundWrites, Saving
  <2>4. db[s] # None /\ db[s].order_id = i
    BY <2>1, <2>2, <2>3 DEF Durable
  <2>5. QED
    BY <1>3, <2>1, <2>4 DEF Known
<1>14. Indexed'
  <2>1. kept \in SUBSET Nat /\ IsFiniteSet(kept)
    <3>1. kept \in SUBSET Slots /\ IsFiniteSet(Slots) /\ Slots \subseteq Nat
      BY BasketAssumption, FS_Interval DEF Slots
    <3>2. QED
      BY <3>1, FS_Subset
  <2> HIDE DEF kept
  <2>2. /\ \A s \in kept : Rank(kept, s) \in 0 .. (n - 1)
        /\ \A s, t \in kept : Rank(kept, s) = Rank(kept, t) => s = t
        /\ \A i \in 0 .. (n - 1) : \E s \in kept : Rank(kept, s) = i
    BY <2>1, Ranked
  <2> HIDE DEF n
  <2>3. DOMAIN index' = 0 .. (n - 1)
    BY <1>1
  <2>4. ASSUME NEW i \in 0 .. (n - 1)
        PROVE  index'[i] \in kept /\ Rank(kept, index'[i]) = i
    <3>1. index'[i] = CHOOSE s \in kept : Rank(kept, s) = i
      BY <1>1
    <3>2. QED
      BY <2>2, <3>1
  <2>5. \A s \in kept : index'[Rank(kept, s)] = s
    BY <2>2, <2>4
  <2>6. \A i \in DOMAIN index' : index'[i] \in Slots /\ orders'[index'[i]] # None
    BY <1>3, <2>3, <2>4 DEF kept
  <2>7. \A s \in Slots : orders'[s] # None => \E i \in DOMAIN index' : index'[i] = s
    BY <1>4, <2>2, <2>3, <2>5
  <2>8. \A i, j \in DOMAIN index' : index'[i] = index'[j] => i = j
    BY <2>3, <2>4
  <2>9. QED
    BY <2>6, <2>7, <2>8 DEF Indexed
<1>15. QED
  BY <1>7, <1>8, <1>9, <1>10, <1>11, <1>12, <1>13, <1>14 DEF IInv, Untorn, VenueKept

-----------------------------------------------------------------------------
(* The invariant.                                                             *)

LEMMA InitIInv == Init => IInv
<1> SUFFICES ASSUME Init PROVE IInv
  OBVIOUS
<1>1. TypeOK
  <2>1. spent \in [{"moves", "disturbances"} -> Nat]
    BY DEF Init
  <2>2. <<>> \in Seq(VenueOrder)
    OBVIOUS
  <2>3. QED
    BY <2>1, <2>2, IdleIsTask DEF Init, TypeOK
<1>2. Ids = {} /\ worker = {} /\ reports = {}
  BY DEF Init, Ids
<1>3. SoundVenue /\ SoundReports
  BY <1>2 DEF SoundVenue, SoundReports
<1>4. SoundRecords
  BY <1>2 DEF Init, SoundRecords
<1>5. SoundTask /\ SoundWrites
  BY <1>2, IdleIsTask DEF Init, SoundTask, SoundWrites, Idle
<1>6. Untorn
  BY <1>2 DEF Init, Untorn, Durable
<1>7. Indexed
  BY DEF Init, Indexed
<1>8. QED
  BY <1>1, <1>3, <1>4, <1>5, <1>6, <1>7 DEF IInv

(* A caller's steps on one order.                                            *)
LEMMA SlotKeeps ==
    ASSUME IInv, NEW s \in Slots,
           \/ execute(s) \/ execute_async(s) \/ Flag(s)
           \/ order_modify_call(s) \/ modify_async(s)
           \/ \E r \in reports : update_orders(s, r) \/ update(s, r)
    PROVE  IInv'
<1>1. CASE Send(s)
  BY <1>1, SendKeeps
<1>2. CASE Store(s)
  BY <1>2, StoreKeeps
<1>3. CASE Flag(s)
  BY <1>3, FlagKeeps
<1>4. CASE Count(s)
  BY <1>4, CountKeeps
<1>5. ASSUME NEW q \in NewQuantities[s], CallModify(s, q) PROVE IInv'
  BY <1>5, CallModifyKeeps
<1>6. ASSUME NEW r \in reports, update_orders(s, r) \/ update(s, r) PROVE IInv'
  BY <1>6, DeliverKeeps DEF update_orders, update, Addressed
<1>7. QED
  BY <1>1, <1>2, <1>3, <1>4, <1>5, <1>6
     DEF execute, execute_async, order_modify_call, modify_async

LEMMA Inductive == IInv /\ [Next]_vars => IInv'
<1> SUFFICES ASSUME IInv, [Next]_vars PROVE IInv'
  OBVIOUS
<1>1. CASE UNCHANGED vars
  <2>1. VenueKept /\ Len(venue') = Len(venue)
    BY <1>1, VenueUntouched DEF vars
  <2>2. TypeOK'
    BY <1>1 DEF vars, IInv, TypeOK
  <2>3. QED
    BY <1>1, <2>1, <2>2, WithinNow, QuietKeeps DEF vars, SameOrders
<1>2. ASSUME NEW ix \in {None, 0}, \/ add_order(ix) \/ add(ix)
                                   \/ async_add_order(ix) \/ async_add(ix)
      PROVE  IInv'
  BY <1>2, JoinKeeps DEF add_order, add, async_add_order, async_add
<1>3. CASE strategy_add \/ async_strategy_add
  BY <1>3, AdoptKeeps DEF strategy_add, async_strategy_add
<1>4. CASE execute_all \/ execute_all_async \/ check_flags \/ check_flags_async
  BY <1>4, BeginKeeps DEF execute_all, execute_all_async, check_flags, check_flags_async
<1>5. ASSUME NEW s \in Slots,
             \/ execute(s) \/ execute_async(s) \/ Flag(s)
             \/ order_modify_call(s) \/ modify_async(s)
             \/ \E r \in reports : update_orders(s, r) \/ update(s, r)
      PROVE  IInv'
  BY <1>5, SlotKeeps
<1>6. ASSUME NEW l \in Locks, lock_order(l[1], l[2]) PROVE IInv'
  <2>1. l[1] \in Slots
    BY BasketAssumption
  <2>2. QED
    BY <1>6, <2>1, LockKeeps
<1>7. ASSUME NEW w \in worker, upsert_order(w) PROVE IInv'
  BY <1>7, UpsertKeeps
<1>8. ASSUME NEW i \in Ids, NEW st \in Moves, VenueMove(i, st) PROVE IInv'
  BY <1>8, VenueMoveKeeps
<1>9. CASE Tick \/ Drop \/ Restart
  BY <1>9, TickKeeps, DropKeeps, RestartKeeps
<1>10. QED
  BY <1>1, <1>2, <1>3, <1>4, <1>5, <1>6, <1>7, <1>8, <1>9 DEF Next

LEMMA Always == Spec => []IInv
BY InitIInv, Inductive, PTL DEF Spec

-----------------------------------------------------------------------------
(* The theorems.                                                              *)

(* Values stay in their sets, in a basket of any size.                       *)
THEOREM TypeCorrect == Spec => []TypeOK
<1>1. IInv => TypeOK
  BY DEF IInv
<1>2. QED
  BY <1>1, Always, PTL

(* execute places an order object at most once, over any number of calls,    *)
(* dropped futures and restarts, unless a write or an answer of it was lost:  *)
(* the id of an order of the venue is in the order object and its row, or in  *)
(* the one call that is about to store it.                                    *)
THEOREM OnePlacementSafe == Spec => []OnePlacement
<1>1. ASSUME IInv PROVE OnePlacement
  <2> SUFFICES ASSUME NEW i \in Ids, NEW j \in Ids, venue[i].slot = venue[j].slot,
                      venue[i].slot \notin torn
               PROVE  i = j
    BY DEF OnePlacement
  <2>1. Known(i) /\ Known(j)
    BY <1>1 DEF IInv, Untorn
  <2>2. Placing => orders[task.slot].order_id = None
    BY <1>1 DEF IInv, SoundTask, Placing
  <2>3. i # None /\ j # None
    BY <1>1, BasketAssumption DEF Ids, IInv, TypeOK
  <2>4. QED
    BY <2>1, <2>2, <2>3 DEF Known, Placing
<1>2. QED
  BY <1>1, Always, PTL

(* Order::update clamps a reported fill to the quantity, whatever the venue  *)
(* says and in whatever order: an order has no more filled than its quantity, *)
(* unless a modify asked for less than was filled.                            *)
THEOREM FillsWithinQuantitySafe == Spec => []FillsWithinQuantity
<1>1. IInv => FillsWithinQuantity
  BY DEF IInv, SoundRecords, Backed, FillsWithinQuantity
<1>2. QED
  BY <1>1, Always, PTL

(* The fills of an order object, in memory or restored from its row, were    *)
(* made at the venue for this order, unless its quantity there was modified.  *)
THEOREM BooksBackedSafe == Spec => []BooksBacked
<1>1. ASSUME IInv PROVE BooksBacked
  <2> SUFFICES ASSUME NEW s \in Slots, orders[s] # None, orders[s].filled_quantity > 0
               PROVE  \E i \in Ids : /\ venue[i].slot = s
                                     /\ \/ venue[i].modified
                                        \/ orders[s].filled_quantity <= venue[i].peak
    BY DEF BooksBacked
  <2>1. Backed(venue, shrunk, s, orders[s])
    BY <1>1 DEF IInv, SoundRecords
  <2>2. QED
    BY <2>1 DEF Backed, Covered, Ids
<1>2. QED
  BY <1>1, Always, PTL

(* Between calls the row of an order holds its id, fills and status,         *)
(* whichever call, report or restart came last, unless a write was lost or    *)
(* overtaken, or an update panicked.                                          *)
THEOREM PlacedIsDurableSafe == Spec => []PlacedIsDurable
<1>1. ASSUME IInv PROVE PlacedIsDurable
  <2>1. task = Idle => \A s \in Slots : ~Saving(s)
    BY IdleIsTask DEF Saving
  <2>2. QED
    BY <1>1, <2>1 DEF IInv, Untorn, Durable, PlacedIsDurable
<1>2. QED
  BY <1>1, Always, PTL

(* Every order of a basket of any size has exactly one index, whatever       *)
(* indices the callers name and however often the basket is made again from   *)
(* its rows.                                                                  *)
THEOREM EveryOrderAddressableSafe == Spec => []EveryOrderAddressable
<1>1. ASSUME IInv PROVE EveryOrderAddressable
  <2> SUFFICES ASSUME NEW s \in Slots, orders[s] # None
               PROVE  Cardinality({i \in DOMAIN index : index[i] = s}) = 1
    BY DEF EveryOrderAddressable
  <2>1. PICK i \in DOMAIN index : index[i] = s
    BY <1>1 DEF IInv, Indexed
  <2>2. {j \in DOMAIN index : index[j] = s} = {i}
    BY <1>1, <2>1 DEF IInv, Indexed
  <2>3. QED
    BY <2>2, FS_Singleton
<1>2. QED
  BY <1>1, Always, PTL

-----------------------------------------------------------------------------
(* Fills never shrink.                                                        *)

Grown ==
    \A s \in Slots :
        \/ orders[s] = None \/ orders'[s] = None \/ s \in torn'
        \/ orders'[s].filled_quantity >= orders[s].filled_quantity

LEMMA Unwritten ==
    ASSUME IInv, UNCHANGED orders
    PROVE  Grown
BY WithinNow DEF Grown, Order

LEMMA OneWritten ==
    ASSUME IInv, NEW s \in Slots, NEW x, orders' = [orders EXCEPT ![s] = x],
           \/ orders[s] = None
           \/ x \in Order /\ x.filled_quantity >= orders[s].filled_quantity
    PROVE  Grown
<1>1. \A u \in Slots : orders'[u] = IF u = s THEN x ELSE orders[u]
  BY DEF IInv, TypeOK
<1>2. \A u \in Slots : orders[u] # None =>
        orders[u].filled_quantity >= orders[u].filled_quantity
  BY WithinNow DEF Order
<1>3. QED
  BY <1>1, <1>2 DEF Grown

LEMMA SameWritten ==
    ASSUME IInv, NEW s \in Slots, orders[s] # None, NEW x, Same(orders[s], x),
           orders' = [orders EXCEPT ![s] = x]
    PROVE  Grown
<1>1. x \in Order /\ x.filled_quantity = orders[s].filled_quantity
  BY DEF Same
<1>2. x.filled_quantity >= x.filled_quantity
  BY <1>1 DEF Order
<1>3. QED
  BY <1>1, <1>2, OneWritten

LEMMA SlotGrows ==
    ASSUME IInv, NEW s \in Slots,
           \/ execute(s) \/ execute_async(s) \/ Flag(s)
           \/ order_modify_call(s) \/ modify_async(s)
           \/ \E r \in reports : update_orders(s, r) \/ update(s, r)
    PROVE  Grown
<1>1. CASE Send(s)
  BY <1>1, Unwritten DEF Send
<1>2. CASE Store(s)
  <2> DEFINE x == [orders[s] EXCEPT !.order_id = task.ret]
  <2>1. orders' = [orders EXCEPT ![s] = x]
    BY <1>2 DEF Store, Answered
  <2>2. orders[s] # None /\ task.ret \in Nat \cup {None}
    BY <1>2 DEF Store, IInv, SoundTask, TypeOK, Task
  <2>3. x \in Order /\ x.filled_quantity >= orders[s].filled_quantity
    BY <2>2, WithinNow DEF Order
  <2> HIDE DEF x
  <2>4. QED
    BY <2>1, <2>3, OneWritten
<1>3. CASE Flag(s)
  <2>1. orders[s] # None /\ orders[s] \in Order
    BY <1>3, WithinNow DEF Flag, Visiting, IInv, SoundTask
  <2>2. \/ UNCHANGED orders
        \/ orders' = [orders EXCEPT ![s] = to_market(orders[s])]
    BY <1>3 DEF Flag, SendModify, CancelExpired
  <2>3. QED
    BY <2>1, <2>2, Unwritten, MarketSame, SameWritten
<1>4. CASE Count(s)
  <2> DEFINE x == [orders[s] EXCEPT !.num_modifications = @ + 1]
  <2>1. orders' = [orders EXCEPT ![s] = x]
    BY <1>4 DEF Count, Answered
  <2>2. orders[s] # None /\ orders[s] \in Order
    BY <1>4, WithinNow DEF Count, IInv, SoundTask
  <2>3. Same(orders[s], x)
    BY <2>2, CountedSame
  <2> HIDE DEF x
  <2>4. QED
    BY <2>1, <2>2, <2>3, SameWritten
<1>5. ASSUME NEW q \in NewQuantities[s], CallModify(s, q) PROVE Grown
  <2>1. /\ orders[s] # None /\ q \in Nat
        /\ orders' = [orders EXCEPT ![s] = set_local_field(orders[s], q)]
    BY <1>5, BasketAssumption DEF CallModify, SendModify
  <2>2. QED
    BY <2>1, WithinNow, ResizedSame, SameWritten
<1>6. ASSUME NEW r \in reports, update_orders(s, r) \/ update(s, r) PROVE Grown
  <2> DEFINE x == order_update(orders[s], r)
  <2>1. orders[s] # None /\ orders' = [orders EXCEPT ![s] = x]
    BY <1>6 DEF update_orders, update, Deliver
  <2>2. r \in Reported /\ orders[s] \in Order
    BY <2>1, WithinNow DEF IInv, TypeOK
  <2>3. x \in Order /\ orders[s].filled_quantity <= x.filled_quantity
    BY <2>2, UpdatedOrder
  <2> HIDE DEF x
  <2>4. x.filled_quantity >= orders[s].filled_quantity
    BY <2>2, <2>3 DEF Order
  <2>5. QED
    BY <2>1, <2>3, <2>4, OneWritten
<1>7. QED
  BY <1>1, <1>2, <1>3, <1>4, <1>5, <1>6
     DEF execute, execute_async, order_modify_call, modify_async

(* A restart restores what the row holds, which is what the order held.      *)
LEMMA RestartGrows == ASSUME IInv, Restart PROVE Grown
<1> SUFFICES ASSUME NEW s \in Slots, orders'[s] # None, s \notin torn'
             PROVE  orders'[s].filled_quantity >= orders[s].filled_quantity
  BY DEF Grown
<1>1. /\ orders[s] # None /\ db[s] # None /\ orders'[s] = from_row(db[s], now)
      /\ s \notin torn /\ \A w \in worker : w.slot # s
  BY DEF Restart
<1>2. Durable(s) /\ ~Saving(s)
  BY <1>1 DEF IInv, Untorn, SoundWrites, Saving
<1>3. db[s] \in Row /\ db[s].filled_quantity = orders[s].filled_quantity
  BY <1>1, <1>2 DEF Durable, IInv, TypeOK
<1>4. orders'[s].filled_quantity = orders[s].filled_quantity
  BY <1>1, <1>3, OrderOf
<1>5. orders[s].filled_quantity \in Nat
  BY <1>1, WithinNow DEF Order
<1>6. QED
  BY <1>4, <1>5

LEMMA NextGrows == IInv /\ [Next]_vars => Grown
<1> SUFFICES ASSUME IInv, [Next]_vars PROVE Grown
  OBVIOUS
<1>1. CASE UNCHANGED vars
  BY <1>1, Unwritten DEF vars
<1>2. ASSUME NEW ix \in {None, 0}, \/ add_order(ix) \/ add(ix)
                                   \/ async_add_order(ix) \/ async_add(ix)
      PROVE  Grown
  <2>1. PICK s \in Slots : /\ \A u \in Slots : (orders[u] # None) <=> (u < s)
                           /\ \E o : orders' = [orders EXCEPT ![s] = o]
    BY <1>2 DEF add_order, add, async_add_order, async_add, Join
  <2>2. s \in Int /\ ~(s < s)
    BY BasketAssumption DEF Slots
  <2>3. orders[s] = None
    BY <2>1, <2>2
  <2>4. QED
    BY <2>1, <2>3, OneWritten
<1>3. CASE strategy_add \/ async_strategy_add
  <2>1. \A s \in Slots : orders[s] # None => orders'[s] = set_clock(orders[s])
    BY <1>3 DEF strategy_add, async_strategy_add, Adopt
  <2>2. \A s \in Slots : orders[s] # None =>
          orders'[s].filled_quantity = orders[s].filled_quantity
    BY <2>1, WithinNow, UnlockedSame DEF Same
  <2>3. QED
    BY <2>2, WithinNow DEF Grown, Order
<1>4. CASE execute_all \/ execute_all_async \/ check_flags \/ check_flags_async
  BY <1>4, Unwritten DEF execute_all, execute_all_async, check_flags, check_flags_async, Begin
<1>5. ASSUME NEW s \in Slots,
             \/ execute(s) \/ execute_async(s) \/ Flag(s)
             \/ order_modify_call(s) \/ modify_async(s)
             \/ \E r \in reports : update_orders(s, r) \/ update(s, r)
      PROVE  Grown
  BY <1>5, SlotGrows
<1>6. ASSUME NEW l \in Locks, lock_order(l[1], l[2]) PROVE Grown
  <2>1. /\ l[1] \in Slots /\ orders[l[1]] # None
        /\ orders' = [orders EXCEPT ![l[1]] = add_lock(orders[l[1]], l[2], LockCap, now)]
    BY <1>6, BasketAssumption DEF lock_order
  <2>2. QED
    BY <2>1, WithinNow, LockedSame, SameWritten DEF IInv, TypeOK
<1>7. ASSUME NEW w \in worker, upsert_order(w) PROVE Grown
  BY <1>7, Unwritten DEF upsert_order
<1>8. ASSUME NEW i \in Ids, NEW st \in Moves, VenueMove(i, st) PROVE Grown
  BY <1>8, Unwritten DEF VenueMove
<1>9. CASE Tick \/ Drop \/ Restart
  BY <1>9, Unwritten, RestartGrows DEF Tick, Drop
<1>10. QED
  BY <1>1, <1>2, <1>3, <1>4, <1>5, <1>6, <1>7, <1>8, <1>9 DEF Next

(* No report, however late or repeated, no call and no restart takes a fill  *)
(* back from an order object, unless a write of it was lost or overtaken.     *)
THEOREM FillMonotoneSafe == Spec => FillMonotone
<1>1. IInv /\ [Next]_vars =>
        [\A s \in Slots :
           \/ orders[s] = None \/ orders'[s] = None \/ s \in torn'
           \/ orders'[s].filled_quantity >= orders[s].filled_quantity]_vars
  BY NextGrows DEF Grown
<1>2. QED
  BY <1>1, Always, PTL DEF Spec, FillMonotone
=============================================================================
