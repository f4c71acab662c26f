---------------------------- MODULE SlotPoolProofs ----------------------------
(***************************************************************************)
(* The slot pool is correct for every number of concurrent admissions,     *)
(* every configuration and every sequence of capacities.                   *)
(***************************************************************************)
EXTENDS SlotPool, ReservationsProofs, FiniteSetTheorems

(* A baseline is one of u16 floors and of shares that can be divided by.   *)
LEMMA BaselineFacts ==
  ASSUME NEW b \in Baselines
  PROVE  b.floor \in [Class -> Nat] /\ b.share \in [Class -> [num : Nat, den : Nat \ {0}]]
<1>1. b.floor \in [Class -> U16] /\ b.share \in [Class -> [num : Nat, den : Nat \ {0}]]
  BY CapacityReservationsAssumption DEF Baseline
<1> QED
  BY <1>1, U16Facts

(* Every configuration apply_new_capacity computes is one of u16 values    *)
(* whose reservations fit.                                                 *)
LEMMA ConfigAtFacts ==
  ASSUME baseline \in Baselines, NEW n \in U16
  PROVE  ConfigAt(n) \in Config /\ Total(ConfigAt(n).reserved) <= n
<1> DEFINE r == ReservationsAt(baseline.floor, baseline.share, n)
<1>1. r \in [Class -> U16] /\ Total(r) <= n
  BY BaselineFacts, ReservationsAtFacts
<1> QED
  BY <1>1 DEF ConfigAt, Config

-------------------------------------------------------------------------------
(* The configurations, as the capacity of the fleet moves.                 *)

Offered == Capacities \cup FirstCapacities

(* The reservations are those of the capacity.                             *)
Recomputed == baseline \in Baselines /\ target \in {ConfigAt(n) : n \in Offered}

(* Where what is desired fits, there is nothing to clamp.                  *)
LEMMA InitRecomputed == InitFleet => Recomputed
<1> SUFFICES ASSUME InitFleet PROVE Recomputed
  OBVIOUS
<1>1. PICK n \in FirstCapacities :
        LET desired == DesiredReservations(baseline.floor, baseline.share, n)
        IN  Total(desired) <= n /\ target = [capacity |-> n, reserved |-> desired]
  BY DEF InitFleet
<1> DEFINE d == DesiredReservations(baseline.floor, baseline.share, n)
<1>2. baseline \in Baselines /\ n \in U16 /\ n \in Nat
  BY CapacityReservationsAssumption, U16Facts DEF InitFleet
<1>3. Total(d) \in Nat
  <2>1. d \in [Class -> 0 .. n]
    BY <1>2, BaselineFacts, DesiredFacts
  <2> HIDE DEF d
  <2>2. d \in [Class -> Nat]
    BY <1>2, <2>1
  <2> QED
    BY <2>2, TotalFacts
<1>4. Total(d) <= n /\ target = [capacity |-> n, reserved |-> d]
  BY <1>1
<1>5. ReservationsAt(baseline.floor, baseline.share, n) = d
  <2>1. ReservationsAt(baseline.floor, baseline.share, n) = ClampReservationsToCapacity(d, n)
    BY DEF ReservationsAt
  <2> HIDE DEF d
  <2> QED
    BY <1>2, <1>3, <1>4, <2>1 DEF ClampReservationsToCapacity
<1> HIDE DEF d
<1>6. target = ConfigAt(n) /\ n \in Offered
  BY <1>4, <1>5 DEF ConfigAt, Offered
<1> QED
  BY <1>2, <1>6 DEF Recomputed

LEMMA RecomputeKeeps ==
  ASSUME Recomputed, NEW new \in Capacities, Recompute(new)
  PROVE  Recomputed'
<1>1. target' = ConfigAt(new) /\ baseline' = baseline /\ new \in Offered
  BY DEF Recompute, Offered
<1>2. \A n \in Offered : ConfigAt(n)' = ConfigAt(n)
  BY <1>1 DEF ConfigAt
<1> QED
  BY <1>1, <1>2 DEF Recomputed

LEMMA StutterRecomputed ==
  ASSUME Recomputed, UNCHANGED fleet
  PROVE  Recomputed'
  BY DEF Recomputed, ConfigAt, fleet

LEMMA NextRecomputed == Recomputed /\ [NextFleet]_fleet => Recomputed'
  BY RecomputeKeeps, StutterRecomputed DEF NextFleet

LEMMA FleetFacts ==
  ASSUME Recomputed
  PROVE  /\ target.capacity \in Offered /\ target.capacity \in U16
         /\ target.capacity \in Nat /\ target.capacity <= MaxU16 /\ MaxU16 \in Nat
         /\ target = ConfigAt(target.capacity)
         /\ Desired \in [Class -> Nat] /\ Total(Desired) \in Nat
         /\ target.reserved = ClampReservationsToCapacity(Desired, target.capacity)
<1>1. baseline.floor \in [Class -> Nat] /\ baseline.share \in [Class -> [num : Nat, den : Nat \ {0}]]
  BY BaselineFacts DEF Recomputed
<1>2. target.capacity \in Offered /\ target = ConfigAt(target.capacity)
  BY DEF Recomputed, ConfigAt
<1>3. /\ target.capacity \in U16 /\ target.capacity \in Nat
      /\ target.capacity <= MaxU16 /\ MaxU16 \in Nat
  <2>1. target.capacity \in U16
    BY <1>2, CapacityReservationsAssumption DEF Offered
  <2> QED
    BY <2>1, MaxU16Assumption DEF U16
<1>4. Desired \in [Class -> 0 .. target.capacity]
  BY <1>1, <1>3, DesiredFacts DEF Desired
<1>5. Desired \in [Class -> Nat]
  BY <1>3, <1>4
<1>6. Total(Desired) \in Nat
  BY <1>5, TotalFacts
<1>7. target.reserved = ClampReservationsToCapacity(Desired, target.capacity)
  BY <1>2 DEF ConfigAt, ReservationsAt, Desired
<1> QED
  BY <1>2, <1>3, <1>5, <1>6, <1>7

LEMMA RecomputedFits == Recomputed => FleetTypeOK /\ ReservationsFit
<1> SUFFICES ASSUME Recomputed PROVE FleetTypeOK /\ ReservationsFit
  OBVIOUS
<1>1. target \in Config /\ Total(target.reserved) <= target.capacity
  BY FleetFacts, ConfigAtFacts DEF Recomputed
<1> QED
  BY <1>1 DEF FleetTypeOK, ReservationsFit, Recomputed

LEMMA RecomputedLockout == Recomputed => NoClassLockedOut
<1> DEFINE cap == target.capacity
           res == target.reserved
           idle == [e \in Class |-> 0]
<1> SUFFICES ASSUME Recomputed, Clamped, cap > 0, NEW c \in Class
             PROVE  SlotsAvailableTo(idle, res, cap, c) > 0
  BY DEF NoClassLockedOut
<1> DEFINE held == HeldAbove(idle, res, c)
<1>1. cap \in Nat /\ cap <= MaxU16 /\ MaxU16 \in Nat /\ Total(Desired) > cap
  BY FleetFacts DEF Clamped
<1>2. res \in [Class -> Nat] /\ Total(res) < cap
  BY <1>1, FleetFacts, ClampFacts
<1>3. held \in [Class -> Nat] /\ \A e \in Class : held[e] <= res[e]
  BY <1>2 DEF HeldAbove, SatSub
<1>4. Total(held) <= Total(res) /\ Total(held) \in Nat /\ Total(res) \in Nat
  BY <1>2, <1>3, TotalMonotone, TotalFacts
<1>5. SatTotal(held) < cap /\ SatTotal(held) \in Nat
  BY <1>1, <1>2, <1>4 DEF SatTotal, AtMost
<1>6. SatTotal(idle) = 0
  BY <1>1, ClassElements DEF SatTotal, AtMost, Total
<1> HIDE DEF held, idle, cap, res
<1>7. SatSub(SatSub(cap, SatTotal(idle)), SatTotal(held)) > 0
  BY <1>1, <1>5, <1>6 DEF SatSub
<1> QED
  BY <1>7 DEF SlotsAvailableTo, held

LEMMA RecomputedProportional == Recomputed => ClampIsProportional
<1> SUFFICES ASSUME Recomputed, Clamped PROVE ClampIsProportional
  BY DEF ClampIsProportional
<1>1. Total(Desired) > target.capacity
  BY DEF Clamped
<1> QED
  BY <1>1, FleetFacts, ClampProportion DEF ClampIsProportional

(* Reservations never promise more than the pool holds, whatever           *)
(* configuration PriorityScheduler::new accepted and whatever sequence of  *)
(* capacities apply_new_capacity was given.                                *)
THEOREM ReservationsAlwaysFit == FleetSpec => [](FleetTypeOK /\ ReservationsFit)
  BY InitRecomputed, NextRecomputed, RecomputedFits, PTL DEF FleetSpec

(* A clamp never locks a class out of an idle pool.                        *)
THEOREM ClampLocksNobodyOut == FleetSpec => []NoClassLockedOut
  BY InitRecomputed, NextRecomputed, RecomputedLockout, PTL DEF FleetSpec

(* A clamp takes from every class in proportion: each keeps its fraction   *)
(* of the pool up to rounding, and only a largest reservation loses the    *)
(* slot clamp_reservations_to_capacity takes back.                         *)
THEOREM ClampTakesInProportion == FleetSpec => []ClampIsProportional
  BY InitRecomputed, NextRecomputed, RecomputedProportional, PTL DEF FleetSpec

-------------------------------------------------------------------------------
(* The pool keeps its types.                                               *)

LEMMA ClearedType == Cleared \in Register
  BY U16Facts DEF Cleared, Register

LEMMA AtMostType ==
  ASSUME NEW n \in U16
  PROVE  AtMost(n + 1, MaxU16) \in U16 /\ SatSub(n, 1) \in U16
  BY U16Facts DEF AtMost, SatSub

LEMMA InitTypeOK == Init => TypeOK
<1> SUFFICES ASSUME Init PROVE TypeOK
  OBVIOUS
<1>1. FleetTypeOK /\ target \in Config /\ previous \in Config
  BY InitRecomputed, RecomputedFits DEF Init, FleetTypeOK
<1>2. capacity \in U16 /\ reserved \in [Class -> U16]
  BY <1>1 DEF Init, Config
<1>3. inflight \in [Class -> U16]
  BY U16Facts DEF Init
<1>4. todo \in Seq(Class \cup {CapacityWord})
  BY DEF Init
<1> QED
  BY <1>1, <1>2, <1>3, <1>4, ClearedType DEF Init, TypeOK

LEMMA OrderTypes ==
  /\ GrowOrder \in Seq(Class \cup {CapacityWord})
  /\ ShrinkOrder \in Seq(Class \cup {CapacityWord})
  BY ClassElements DEF GrowOrder, ShrinkOrder

LEMMA CurrentType == TypeOK => Current \subseteq Config
  BY DEF TypeOK, FleetTypeOK, Current

LEMMA LoadCountsType ==
  ASSUME TypeOK, NEW a \in Admission, LoadCounts(a)
  PROVE  /\ pc' \in [Admission -> {"idle", "capacity", "decide", "held"}]
         /\ reg' \in [Admission -> Register]
         /\ inForce' \in [Admission -> SUBSET Config]
<1>1. [reg[a] EXCEPT !.cur = inflight] \in Register
  BY DEF TypeOK, Register
<1>2. reg' \in [Admission -> Register]
  BY <1>1 DEF TypeOK, LoadCounts
<1>3. inForce' \in [Admission -> SUBSET Config]
  BY CurrentType DEF TypeOK, LoadCounts
<1> QED
  BY <1>2, <1>3 DEF TypeOK, LoadCounts

LEMMA SettleType ==
  ASSUME TypeOK, NEW a \in Admission, NEW where \in {"idle", "held"}, Settle(a, where)
  PROVE  /\ pc' \in [Admission -> {"idle", "capacity", "decide", "held"}]
         /\ guarded' \in [Admission -> BOOLEAN]
         /\ reg' \in [Admission -> Register]
         /\ inForce' \in [Admission -> SUBSET Config]
  BY ClearedType DEF TypeOK, Settle

LEMMA NextTypeOK == TypeOK /\ [Next]_vars => TypeOK'
<1> SUFFICES ASSUME TypeOK, [Next]_vars PROVE TypeOK'
  OBVIOUS
<1> USE DEF vars, pool, admission, publisher, fleet, FleetTypeOK
<1>1. ASSUME NEW a \in Admission, NEW g \in BOOLEAN, Begin(a, g)
      PROVE  TypeOK'
  BY <1>1, LoadCountsType DEF Begin, TypeOK
<1>2. ASSUME NEW a \in Admission, LoadCapacity(a)
      PROVE  TypeOK'
  <2>1. [reg[a] EXCEPT !.capacity = capacity] \in Register
    BY DEF TypeOK, Register
  <2>2. reg' \in [Admission -> Register]
    BY <1>2, <2>1 DEF TypeOK, LoadCapacity
  <2>3. unread' \in [Admission -> SUBSET Class]
    BY <1>2 DEF TypeOK, LoadCapacity, Above
  <2> QED
    BY <1>2, <2>2, <2>3 DEF TypeOK, LoadCapacity
<1>3. ASSUME NEW a \in Admission, NEW c \in Class, LoadReserved(a, c)
      PROVE  TypeOK'
  <2>1. [reg[a] EXCEPT !.reserved[c] = reserved[c]] \in Register
    BY DEF TypeOK, Register
  <2>2. reg' \in [Admission -> Register]
    BY <1>3, <2>1 DEF TypeOK, LoadReserved
  <2>3. unread' \in [Admission -> SUBSET Class]
    BY <1>3 DEF TypeOK, LoadReserved
  <2> QED
    BY <1>3, <2>2, <2>3 DEF TypeOK, LoadReserved
<1>4. ASSUME NEW a \in Admission, Refuse(a)
      PROVE  TypeOK'
  BY <1>4, SettleType DEF Refuse, TypeOK
<1>5. ASSUME NEW a \in Admission, Commit(a)
      PROVE  TypeOK'
  <2>1. inflight' \in [Class -> U16]
    BY <1>5, AtMostType, SlotPoolAssumption DEF Commit, TypeOK
  <2> QED
    BY <1>5, <2>1, SettleType DEF Commit, TypeOK
<1>6. ASSUME NEW a \in Admission, Retry(a)
      PROVE  TypeOK'
  BY <1>6, LoadCountsType DEF Retry, TypeOK
<1>7. ASSUME NEW a \in Admission, Release(a)
      PROVE  TypeOK'
  <2>1. inflight' \in [Class -> U16]
    BY <1>7, AtMostType, SlotPoolAssumption DEF Release, TypeOK
  <2> QED
    BY <1>7, <2>1 DEF Release, TypeOK
<1>8. ASSUME NEW new \in Capacities, ApplyNewCapacity(new)
      PROVE  TypeOK'
  <2>1. FleetTypeOK' /\ target' \in Config
    <3>1. baseline \in Baselines /\ new \in U16
      BY CapacityReservationsAssumption DEF TypeOK, FleetTypeOK
    <3> QED
      BY <1>8, <3>1, ConfigAtFacts DEF ApplyNewCapacity, Recompute, FleetTypeOK
  <2>2. inForce' \in [Admission -> SUBSET Config]
    BY <1>8, <2>1 DEF ApplyNewCapacity, TypeOK
  <2>3. todo' \in Seq(Class \cup {CapacityWord})
    BY <1>8, OrderTypes DEF ApplyNewCapacity, PublishOrder
  <2> QED
    BY <1>8, <2>1, <2>2, <2>3 DEF ApplyNewCapacity, TypeOK, FleetTypeOK
<1>9. ASSUME PublishWord
      PROVE  TypeOK'
  <2>1. Head(todo) \in Class \cup {CapacityWord} /\ Tail(todo) \in Seq(Class \cup {CapacityWord})
    BY <1>9 DEF PublishWord, TypeOK
  <2>2. capacity' \in U16 /\ reserved' \in [Class -> U16]
    BY <1>9, <2>1 DEF PublishWord, TypeOK, Config
  <2> QED
    BY <1>9, <2>1, <2>2 DEF PublishWord, TypeOK
<1>10. CASE UNCHANGED vars
  BY <1>10 DEF TypeOK
<1> QED
  BY <1>1, <1>2, <1>3, <1>4, <1>5, <1>6, <1>7, <1>8, <1>9, <1>10
  DEF Next, AcquireStep, Resize

(* The slot pool's state has its types: in particular no lane of the       *)
(* packed counts overflows its u16, under any interleaving.                *)
THEOREM SlotPoolTypeCorrect == Spec => []TypeOK
  BY InitTypeOK, NextTypeOK, PTL DEF Spec

-------------------------------------------------------------------------------
(* The pool implements CapacityReservations: a new capacity recomputes the *)
(* configuration; its publication word by word and the admissions beside   *)
(* it are stutters.                                                        *)

LEMMA PoolOrFleet ==
  ASSUME [Next]_vars
  PROVE  UNCHANGED fleet \/ \E new \in Capacities : Recompute(new)
  BY DEF vars, pool, admission, publisher, Next, AcquireStep, Resize, Begin, LoadCapacity,
         LoadReserved, Refuse, Commit, Retry, Release, ApplyNewCapacity, PublishWord

LEMMA PoolRecomputed == Recomputed /\ [Next]_vars => Recomputed'
  BY PoolOrFleet, RecomputeKeeps, StutterRecomputed

LEMMA PoolStepsFleet == Recomputed /\ [Next]_vars => [NextFleet]_fleet
<1> SUFFICES ASSUME Recomputed, [Next]_vars PROVE [NextFleet]_fleet
  OBVIOUS
<1>1. ASSUME NEW new \in Capacities, Recompute(new), new = target.capacity
      PROVE  UNCHANGED fleet
  BY <1>1, FleetFacts DEF Recompute, fleet
<1> QED
  BY <1>1, PoolOrFleet DEF NextFleet

(* Publishing a configuration word by word, with the admissions beside it, *)
(* implements the recomputation of apply_new_capacity in one step.         *)
THEOREM PoolImplementsReservations == Spec => FleetSpec
<1>1. Init => InitFleet
  BY DEF Init
<1> QED
  BY <1>1, InitRecomputed, PoolRecomputed, PoolStepsFleet, PTL DEF Spec, FleetSpec

(* What the pool is asked to publish fits, locks no class out and takes    *)
(* from every class in proportion, whatever its admissions do meanwhile.   *)
THEOREM PublishedReservationsAreSound ==
  Spec => [](ReservationsFit /\ NoClassLockedOut /\ ClampIsProportional)
  BY PoolImplementsReservations, ReservationsAlwaysFit, ClampLocksNobodyOut,
     ClampTakesInProportion, PTL

-------------------------------------------------------------------------------
(* Slot accounting.                                                        *)

LEMMA HoldersFacts ==
  \A c \in Class : /\ Holders(c) \subseteq Admission
                   /\ IsFiniteSet(Holders(c))
                   /\ Cardinality(Holders(c)) \in Nat
<1>1. \A c \in Class : Holders(c) \subseteq Admission
  BY DEF Holders
<1> QED
  BY <1>1, SlotPoolAssumption, FS_Subset, FS_CardinalityType

(* An admission with headroom loaded counts below the pool's limit, so its *)
(* lane does not saturate.                                                 *)
LEMMA HeadroomFacts ==
  ASSUME TypeOK, NEW a \in Admission, Headroom(a) > 0
  PROVE  /\ Total(reg[a].cur) \in Nat
         /\ Total(reg[a].cur) < reg[a].capacity
         /\ reg[a].cur[ClassOf[a]] < MaxU16
<1> DEFINE cur == reg[a].cur
           cap == reg[a].capacity
           held == HeldAbove(cur, reg[a].reserved, ClassOf[a])
<1>1. cur \in [Class -> Nat] /\ reg[a].reserved \in [Class -> Nat]
  BY U16Facts DEF TypeOK, Register
<1>2. cap \in Nat /\ cap <= MaxU16 /\ MaxU16 \in Nat
  BY U16Facts DEF TypeOK, Register
<1>3. Total(cur) \in Nat /\ cur[ClassOf[a]] <= Total(cur) /\ cur[ClassOf[a]] \in Nat
  BY <1>1, TotalFacts, SlotPoolAssumption
<1>4. held \in [Class -> Nat]
  BY <1>1 DEF HeldAbove, SatSub
<1>5. Total(held) \in Nat
  BY <1>4, TotalFacts
<1> HIDE DEF held, cur, cap
<1>6. SatTotal(held) \in Nat
  BY <1>2, <1>5 DEF SatTotal, AtMost
<1>7. SatSub(cap, SatTotal(cur)) > 0
  <2>1. CASE guarded[a]
    <3>1. SatSub(SatSub(cap, SatTotal(cur)), SatTotal(held)) > 0
      BY <2>1 DEF Headroom, SlotsAvailableTo, held, cur, cap
    <3>2. SatSub(cap, SatTotal(cur)) \in Nat
      BY <1>2, <1>3 DEF SatSub, SatTotal, AtMost
    <3> QED
      BY <1>6, <3>1, <3>2 DEF SatSub
  <2>2. CASE ~guarded[a]
    BY <2>2 DEF Headroom, cur, cap
  <2> QED
    BY <2>1, <2>2
<1>8. Total(cur) < cap
  BY <1>2, <1>3, <1>7 DEF SatSub, SatTotal, AtMost
<1>9. cur[ClassOf[a]] < MaxU16
  BY <1>2, <1>3, <1>8
<1> QED
  BY <1>3, <1>8, <1>9 DEF cur, cap

AccountingInv == TypeOK /\ SlotAccounting

LEMMA InitAccounting == Init => AccountingInv
<1> SUFFICES ASSUME Init PROVE AccountingInv
  OBVIOUS
<1>1. \A c \in Class : Holders(c) = {}
  BY DEF Init, Holders
<1>2. \A c \in Class : Cardinality(Holders(c)) = 0
  BY <1>1, FS_EmptySet
<1> QED
  BY <1>2, InitTypeOK DEF Init, AccountingInv, SlotAccounting

(* A step that neither takes nor returns a slot keeps the accounts.        *)
LEMMA HoldersStutter ==
  ASSUME SlotAccounting, UNCHANGED inflight,
         \A a \in Admission : pc'[a] = "held" <=> pc[a] = "held"
  PROVE  SlotAccounting'
<1>1. \A c \in Class : Holders(c)' = Holders(c)
  BY DEF Holders
<1> QED
  BY <1>1 DEF SlotAccounting

LEMMA NextAccounting == AccountingInv /\ [Next]_vars => AccountingInv'
<1> SUFFICES ASSUME AccountingInv, [Next]_vars PROVE SlotAccounting'
  BY NextTypeOK DEF AccountingInv
<1> USE DEF vars, pool, admission, publisher, fleet
<1>0. TypeOK /\ SlotAccounting
  BY DEF AccountingInv
<1>1. ASSUME NEW a \in Admission, NEW g \in BOOLEAN, Begin(a, g)
      PROVE  SlotAccounting'
  BY <1>0, <1>1, HoldersStutter DEF Begin, LoadCounts, TypeOK
<1>2. ASSUME NEW a \in Admission, LoadCapacity(a)
      PROVE  SlotAccounting'
  BY <1>0, <1>2, HoldersStutter DEF LoadCapacity, TypeOK
<1>3. ASSUME NEW a \in Admission, NEW c \in Class, LoadReserved(a, c)
      PROVE  SlotAccounting'
  BY <1>0, <1>3, HoldersStutter DEF LoadReserved, TypeOK
<1>4. ASSUME NEW a \in Admission, Refuse(a)
      PROVE  SlotAccounting'
  BY <1>0, <1>4, HoldersStutter DEF Refuse, Settle, Loaded, TypeOK
<1>5. ASSUME NEW a \in Admission, Commit(a)
      PROVE  SlotAccounting'
  <2> DEFINE k == ClassOf[a]
  <2>0. k \in Class
    BY SlotPoolAssumption
  <2>1. a \notin Holders(k) /\ Holders(k)' = Holders(k) \cup {a}
    BY <1>0, <1>5 DEF Commit, Settle, Loaded, Holders, TypeOK
  <2>2. \A c \in Class \ {k} : Holders(c)' = Holders(c)
    BY <1>0, <1>5 DEF Commit, Settle, Loaded, Holders, TypeOK
  <2>3. Cardinality(Holders(k)') = Cardinality(Holders(k)) + 1
    BY <2>0, <2>1, HoldersFacts, FS_AddElement
  <2>4. inflight[k] < MaxU16
    BY <1>0, <1>5, HeadroomFacts DEF Commit
  <2>5. inflight' = [inflight EXCEPT ![k] = AtMost(@ + 1, MaxU16)]
    BY <1>5 DEF Commit
  <2>6. inflight \in [Class -> Nat] /\ MaxU16 \in Nat
    BY <1>0, U16Facts DEF TypeOK
  <2> HIDE DEF k
  <2>7. inflight'[k] = inflight[k] + 1 /\ \A c \in Class \ {k} : inflight'[c] = inflight[c]
    BY <2>0, <2>4, <2>5, <2>6 DEF AtMost
  <2> QED
    BY <1>0, <2>0, <2>2, <2>3, <2>7 DEF SlotAccounting
<1>6. ASSUME NEW a \in Admission, Retry(a)
      PROVE  SlotAccounting'
  BY <1>0, <1>6, HoldersStutter DEF Retry, LoadCounts, Loaded, TypeOK
<1>7. ASSUME NEW a \in Admission, Release(a)
      PROVE  SlotAccounting'
  <2> DEFINE k == ClassOf[a]
  <2>0. k \in Class
    BY SlotPoolAssumption
  <2>1. a \in Holders(k) /\ Holders(k)' = Holders(k) \ {a}
    BY <1>0, <1>7 DEF Release, Holders, TypeOK
  <2>2. \A c \in Class \ {k} : Holders(c)' = Holders(c)
    BY <1>0, <1>7 DEF Release, Holders, TypeOK
  <2>3. Cardinality(Holders(k)') = Cardinality(Holders(k)) - 1
    BY <2>0, <2>1, HoldersFacts, FS_RemoveElement
  <2>4. Cardinality(Holders(k)) > 0
    <3>1. Holders(k) # {}
      BY <2>1
    <3>2. Cardinality(Holders(k)) # 0
      BY <2>0, <3>1, HoldersFacts, FS_EmptySet
    <3> QED
      BY <2>0, <3>2, HoldersFacts
  <2>5. inflight' = [inflight EXCEPT ![k] = SatSub(@, 1)]
    BY <1>7 DEF Release
  <2>6. inflight \in [Class -> Nat]
    BY <1>0, U16Facts DEF TypeOK
  <2>7. inflight[k] = Cardinality(Holders(k))
    BY <1>0, <2>0 DEF SlotAccounting
  <2> HIDE DEF k
  <2>8. inflight'[k] = inflight[k] - 1 /\ \A c \in Class \ {k} : inflight'[c] = inflight[c]
    BY <2>0, <2>4, <2>5, <2>6, <2>7 DEF SatSub
  <2> QED
    BY <1>0, <2>0, <2>2, <2>3, <2>8 DEF SlotAccounting
<1>8. ASSUME NEW new \in Capacities, ApplyNewCapacity(new)
      PROVE  SlotAccounting'
  BY <1>0, <1>8, HoldersStutter DEF ApplyNewCapacity
<1>9. ASSUME PublishWord
      PROVE  SlotAccounting'
  BY <1>0, <1>9, HoldersStutter DEF PublishWord
<1>10. CASE UNCHANGED vars
  BY <1>0, <1>10, HoldersStutter
<1> QED
  BY <1>1, <1>2, <1>3, <1>4, <1>5, <1>6, <1>7, <1>8, <1>9, <1>10
  DEF Next, AcquireStep, Resize

(* No interleaving of any number of acquires, failed compare-and-swaps,    *)
(* releases and capacity changes loses a slot or frees one twice.          *)
THEOREM SlotsAreAccountedFor == Spec => []SlotAccounting
<1>1. AccountingInv => SlotAccounting
  BY DEF AccountingInv
<1> QED
  BY InitAccounting, NextAccounting, <1>1, PTL DEF Spec

-------------------------------------------------------------------------------
(* The ceiling.  The capacity word always belongs to a configuration in    *)
(* force, and what an admission loaded belongs to one that was in force    *)
(* since it loaded the counts.                                             *)

CapacityPending == \E i \in 1 .. Len(todo) : todo[i] = CapacityWord

CapacityInForce ==
  /\ capacity \in {target.capacity, previous.capacity}
  /\ ~CapacityPending => capacity = target.capacity

Acquiring(a) == pc[a] \in {"capacity", "decide"}

LoadedInForce ==
  \A a \in Admission :
    /\ Acquiring(a) => Current \subseteq inForce[a]
    /\ pc[a] = "decide" =>
         \E cfg \in inForce[a] : cfg.capacity = reg[a].capacity

CeilingInv == TypeOK /\ CapacityInForce /\ LoadedInForce

LEMMA InitCeiling == Init => CeilingInv
<1> SUFFICES ASSUME Init PROVE CeilingInv
  OBVIOUS
<1>1. CapacityInForce
  BY DEF Init, CapacityInForce
<1>2. LoadedInForce
  BY DEF Init, LoadedInForce, Acquiring
<1> QED
  BY <1>1, <1>2, InitTypeOK DEF CeilingInv

(* The capacity is that of a current configuration.                        *)
LEMMA CapacityIsCurrent ==
  ASSUME CapacityInForce, TypeOK
  PROVE  \E cfg \in Current : cfg.capacity = capacity
<1>1. CASE todo = << >>
  <2>1. ~CapacityPending
    BY <1>1 DEF CapacityPending
  <2> QED
    BY <1>1, <2>1 DEF CapacityInForce, Current
<1>2. CASE todo # << >>
  BY <1>2 DEF CapacityInForce, Current
<1> QED
  BY <1>1, <1>2

LEMMA NextCeiling == CeilingInv /\ [Next]_vars => CeilingInv'
<1> SUFFICES ASSUME CeilingInv, [Next]_vars
             PROVE  CapacityInForce' /\ LoadedInForce'
  BY NextTypeOK DEF CeilingInv
<1> USE DEF vars, pool, admission, publisher, fleet
<1>0. TypeOK /\ CapacityInForce /\ LoadedInForce
  BY DEF CeilingInv
<1>1. ASSUME UNCHANGED <<capacity, todo, target, previous>>
      PROVE  CapacityInForce' /\ Current' = Current
  BY <1>0, <1>1 DEF CapacityInForce, CapacityPending, Current
<1>2. ASSUME NEW a \in Admission, NEW g \in BOOLEAN, Begin(a, g)
      PROVE  CapacityInForce' /\ LoadedInForce'
  <2>1. CapacityInForce' /\ Current' = Current
    BY <1>1, <1>2 DEF Begin
  <2> QED
    BY <1>0, <1>2, <2>1 DEF Begin, LoadCounts, LoadedInForce, Acquiring, TypeOK
<1>3. ASSUME NEW a \in Admission, LoadCapacity(a)
      PROVE  CapacityInForce' /\ LoadedInForce'
  <2>1. CapacityInForce' /\ Current' = Current
    BY <1>1, <1>3 DEF LoadCapacity
  <2>2. Current \subseteq inForce[a]
    BY <1>0, <1>3 DEF LoadCapacity, LoadedInForce, Acquiring
  <2>3. reg'[a].capacity = capacity /\ \A b \in Admission \ {a} : reg'[b] = reg[b]
    BY <1>0, <1>3 DEF LoadCapacity, TypeOK, Register
  <2>4. \E cfg \in inForce'[a] : cfg.capacity = reg'[a].capacity
    BY <1>0, <1>3, <2>2, <2>3, CapacityIsCurrent DEF LoadCapacity
  <2> QED
    BY <1>0, <1>3, <2>1, <2>2, <2>3, <2>4
    DEF LoadCapacity, LoadedInForce, Acquiring, TypeOK
<1>4. ASSUME NEW a \in Admission, NEW c \in Class, LoadReserved(a, c)
      PROVE  CapacityInForce' /\ LoadedInForce'
  <2>1. CapacityInForce' /\ Current' = Current
    BY <1>1, <1>4 DEF LoadReserved
  <2>2. \A b \in Admission : reg'[b].capacity = reg[b].capacity
    BY <1>0, <1>4 DEF LoadReserved, TypeOK, Register
  <2> QED
    BY <1>0, <1>4, <2>1, <2>2 DEF LoadReserved, LoadedInForce, Acquiring
<1>5. ASSUME NEW a \in Admission, NEW where \in {"idle", "held"}, Settle(a, where),
             UNCHANGED <<capacity, todo, target, previous>>
      PROVE  CapacityInForce' /\ LoadedInForce'
  <2>1. CapacityInForce' /\ Current' = Current
    BY <1>1, <1>5
  <2> QED
    BY <1>0, <1>5, <2>1 DEF Settle, LoadedInForce, Acquiring, TypeOK
<1>6. ASSUME NEW a \in Admission, Retry(a)
      PROVE  CapacityInForce' /\ LoadedInForce'
  <2>1. CapacityInForce' /\ Current' = Current
    BY <1>1, <1>6 DEF Retry
  <2> QED
    BY <1>0, <1>6, <2>1 DEF Retry, LoadCounts, LoadedInForce, Acquiring, TypeOK
<1>7. ASSUME NEW a \in Admission, Release(a)
      PROVE  CapacityInForce' /\ LoadedInForce'
  <2>1. CapacityInForce' /\ Current' = Current
    BY <1>1, <1>7 DEF Release
  <2> QED
    BY <1>0, <1>7, <2>1 DEF Release, LoadedInForce, Acquiring, TypeOK
<1>8. ASSUME NEW new \in Capacities, ApplyNewCapacity(new)
      PROVE  CapacityInForce' /\ LoadedInForce'
  <2>1. capacity = target.capacity /\ Current = {target}
    <3>1. ~CapacityPending
      BY <1>8 DEF ApplyNewCapacity, CapacityPending
    <3> QED
      BY <1>0, <1>8, <3>1 DEF ApplyNewCapacity, CapacityInForce, Current
  <2>2. CapacityPending'
    <3>1. todo' = GrowOrder \/ todo' = ShrinkOrder
      BY <1>8 DEF ApplyNewCapacity, PublishOrder
    <3>2. /\ Len(GrowOrder) = 5 /\ GrowOrder[5] = CapacityWord
          /\ Len(ShrinkOrder) = 5 /\ ShrinkOrder[1] = CapacityWord
      BY DEF GrowOrder, ShrinkOrder
    <3> QED
      BY <3>1, <3>2 DEF CapacityPending
  <2>3. CapacityInForce'
    BY <1>8, <2>1, <2>2 DEF ApplyNewCapacity, CapacityInForce
  <2>4. Current' \subseteq {target, target'}
    BY <1>8 DEF ApplyNewCapacity, Current
  <2>5. \A a \in Admission :
          /\ inForce[a] \subseteq inForce'[a]
          /\ Acquiring(a) => target' \in inForce'[a]
    BY <1>0, <1>8 DEF ApplyNewCapacity, Acquiring, TypeOK
  <2> QED
    BY <1>0, <1>8, <2>1, <2>3, <2>4, <2>5 DEF ApplyNewCapacity, LoadedInForce, Acquiring
<1>9. ASSUME PublishWord
      PROVE  CapacityInForce' /\ LoadedInForce'
  <2>1. Current' \subseteq Current
    BY <1>9 DEF PublishWord, Current
  <2>2. CapacityInForce'
    <3>1. CASE Head(todo) = CapacityWord
      BY <1>9, <3>1 DEF PublishWord, CapacityInForce
    <3>2. CASE Head(todo) # CapacityWord
      <4>1. CapacityPending => CapacityPending'
        <5>1. SUFFICES ASSUME NEW i \in 1 .. Len(todo), todo[i] = CapacityWord
                       PROVE  \E j \in 1 .. Len(Tail(todo)) : Tail(todo)[j] = CapacityWord
          BY <1>9 DEF PublishWord, CapacityPending
        <5>2. todo \in Seq(Class \cup {CapacityWord}) /\ todo # << >>
          BY <1>0, <1>9 DEF PublishWord, TypeOK
        <5>3. i # 1 /\ i - 1 \in 1 .. Len(Tail(todo)) /\ Tail(todo)[i - 1] = todo[i]
          BY <3>2, <5>1, <5>2
        <5> QED
          BY <5>1, <5>3
      <4> QED
        BY <1>0, <1>9, <3>2, <4>1 DEF PublishWord, CapacityInForce
    <3> QED
      BY <3>1, <3>2
  <2> QED
    BY <1>0, <1>9, <2>1, <2>2 DEF PublishWord, LoadedInForce, Acquiring
<1>10. CASE UNCHANGED vars
  <2>1. CapacityInForce' /\ Current' = Current
    BY <1>1, <1>10
  <2> QED
    BY <1>0, <1>10, <2>1 DEF LoadedInForce, Acquiring
<1>11. ASSUME NEW a \in Admission, Refuse(a)
       PROVE  CapacityInForce' /\ LoadedInForce'
  BY <1>5, <1>11 DEF Refuse
<1>12. ASSUME NEW a \in Admission, Commit(a)
       PROVE  CapacityInForce' /\ LoadedInForce'
  BY <1>5, <1>12 DEF Commit
<1> QED
  BY <1>2, <1>3, <1>4, <1>6, <1>7, <1>8, <1>9, <1>10, <1>11, <1>12
  DEF Next, AcquireStep, Resize

(* Only Commit turns a deciding admission into a holder.                   *)
LEMMA OnlyCommitCommits ==
  ASSUME TypeOK, [Next]_vars, NEW a \in Admission, Commits(a)
  PROVE  Commit(a)
<1> USE DEF vars, pool, admission, publisher, Commits
<1>1. PICK b \in Admission : (\E g \in BOOLEAN : Begin(b, g)) \/ AcquireStep(b)
  BY DEF Next, Resize, ApplyNewCapacity, PublishWord
<1>2. ASSUME b # a PROVE FALSE
  BY <1>1, <1>2 DEF TypeOK, AcquireStep, Begin, LoadCounts, LoadCapacity,
     LoadReserved, Refuse, Commit, Settle, Retry, Release
<1>3. b = a
  BY <1>2
<1> QED
  BY <1>1, <1>3 DEF TypeOK, AcquireStep, Begin, LoadCounts, LoadCapacity,
     LoadReserved, Refuse, Settle, Retry, Release

(* Whatever capacity changes race with it, an acquire takes a slot only    *)
(* while the total is below a capacity in force since it last loaded the   *)
(* counts.                                                                 *)
THEOREM CeilingIsHonoured == Spec => CeilingHonoured
<1> DEFINE Step == \A a \in Admission :
                     Commits(a) => \E cfg \in inForce[a] : Total(inflight) < cfg.capacity
<1>1. CeilingInv /\ [Next]_vars => [Step]_vars
  <2> SUFFICES ASSUME CeilingInv, [Next]_vars, NEW a \in Admission, Commits(a)
               PROVE  \E cfg \in inForce[a] : Total(inflight) < cfg.capacity
    OBVIOUS
  <2>1. TypeOK /\ LoadedInForce
    BY DEF CeilingInv
  <2>2. Commit(a)
    BY <2>1, OnlyCommitCommits
  <2>3. inflight = reg[a].cur /\ Headroom(a) > 0 /\ pc[a] = "decide"
    BY <2>2 DEF Commit, Loaded
  <2>4. Total(inflight) < reg[a].capacity
    BY <2>1, <2>3, HeadroomFacts
  <2>5. PICK cfg \in inForce[a] : cfg.capacity = reg[a].capacity
    BY <2>1, <2>3 DEF LoadedInForce
  <2> QED
    BY <2>4, <2>5
<1> QED
  BY <1>1, InitCeiling, NextCeiling, PTL DEF Spec, CeilingHonoured

-------------------------------------------------------------------------------
(* The reservation guard.  With a steady configuration, what an admission  *)
(* has loaded of it is what it still is.                                   *)

LoadedIsCurrent ==
  \A a \in Admission :
    /\ guarded[a]
    /\ pc[a] = "decide" =>
         /\ reg[a].capacity = capacity
         /\ \A c \in Above(ClassOf[a]) \ unread[a] : reg[a].reserved[c] = reserved[c]

GuardInv == TypeOK /\ LoadedIsCurrent /\ ReservationsKept

LEMMA GuardedIsNext == [GuardedNext]_vars => [Next]_vars
  BY DEF GuardedNext, Next

LEMMA InitGuard == Init => GuardInv
<1> SUFFICES ASSUME Init PROVE GuardInv
  OBVIOUS
<1>1. LoadedIsCurrent
  BY DEF Init, LoadedIsCurrent
<1>2. TypeOK
  BY InitTypeOK
<1>3. Total(reserved) <= capacity
  BY InitRecomputed, RecomputedFits DEF Init, ReservationsFit
<1>4. inflight \in [Class -> Nat] /\ reserved \in [Class -> Nat] /\ capacity \in Nat
  BY <1>2, U16Facts DEF TypeOK
<1>5. ASSUME NEW h \in Class
      PROVE  Total(InflightBelow(h)) <= capacity
  <2>1. /\ InflightBelow(h) \in [Class -> Nat]
        /\ \A c \in Class : InflightBelow(h)[c] <= reserved[c]
    BY <1>4 DEF InflightBelow, Init
  <2>2. Total(InflightBelow(h)) <= Total(reserved)
    BY <1>4, <2>1, TotalMonotone
  <2> QED
    BY <1>3, <1>4, <2>1, <2>2, TotalFacts
<1> QED
  BY <1>1, <1>2, <1>5 DEF GuardInv, ReservationsKept

(* The heart of the argument: a guarded acquire with headroom leaves room  *)
(* for what every higher class has reserved.                               *)
LEMMA GuardLeavesRoom ==
  ASSUME NEW n \in [Class -> Nat], NEW res \in [Class -> Nat],
         NEW cap \in Nat, cap <= MaxU16, NEW k \in Class, NEW h \in Class, h > k,
         SlotsAvailableTo(n, res, cap, k) > 0
  PROVE  Total([c \in Class |-> IF c < h THEN n[c] ELSE res[c]]) < cap
<1> DEFINE held == HeldAbove(n, res, k)
           both == [c \in Class |-> n[c] + held[c]]
           mix  == [c \in Class |-> IF c < h THEN n[c] ELSE res[c]]
<1>1. held \in [Class -> Nat] /\ \A c \in Class : c > k => held[c] + n[c] >= res[c]
  BY DEF HeldAbove, SatSub
<1>2. mix \in [Class -> Nat] /\ both \in [Class -> Nat]
  BY <1>1
<1>3. \A c \in Class : mix[c] <= both[c]
  BY <1>1, ClassElements
<1>4. Total(mix) <= Total(both) /\ Total(mix) \in Nat /\ Total(both) \in Nat
  BY <1>2, <1>3, TotalMonotone, TotalFacts
<1>5. Total(both) = Total(n) + Total(held)
  BY <1>1, ClassElements DEF Total
<1>6. Total(n) \in Nat /\ Total(held) \in Nat
  BY <1>1, TotalFacts
<1>7. SatSub(SatSub(cap, SatTotal(n)), SatTotal(held)) > 0
  BY DEF SlotsAvailableTo
<1> HIDE DEF held, both, mix
<1>8. Total(n) + Total(held) < cap
  BY <1>6, <1>7, U16Facts DEF SatSub, SatTotal, AtMost
<1> QED
  BY <1>4, <1>5, <1>8 DEF mix

(* A step that leaves the pool alone keeps the reservations honoured.      *)
LEMMA HonouredStutter ==
  ASSUME ReservationsKept, UNCHANGED pool
  PROVE  ReservationsKept'
<1>1. \A h \in Class : InflightBelow(h)' = InflightBelow(h)
  BY DEF InflightBelow, pool
<1> QED
  BY <1>1 DEF ReservationsKept, pool

LEMMA NextGuard == GuardInv /\ [GuardedNext]_vars => GuardInv'
<1> SUFFICES ASSUME GuardInv, [GuardedNext]_vars
             PROVE  LoadedIsCurrent' /\ ReservationsKept'
  BY NextTypeOK, GuardedIsNext DEF GuardInv
<1> USE DEF vars, pool, admission, publisher, fleet
<1>0. /\ TypeOK /\ LoadedIsCurrent /\ ReservationsKept
      /\ inflight \in [Class -> Nat] /\ reserved \in [Class -> Nat]
      /\ capacity \in Nat /\ capacity <= MaxU16
  BY U16Facts DEF GuardInv, TypeOK
<1>1. ASSUME NEW a \in Admission, Begin(a, TRUE)
      PROVE  LoadedIsCurrent' /\ ReservationsKept'
  <2>1. ReservationsKept'
    BY <1>0, <1>1, HonouredStutter DEF Begin
  <2> QED
    BY <1>0, <1>1, <2>1 DEF Begin, LoadCounts, LoadedIsCurrent, TypeOK
<1>2. ASSUME NEW a \in Admission, LoadCapacity(a)
      PROVE  LoadedIsCurrent' /\ ReservationsKept'
  <2>1. ReservationsKept'
    BY <1>0, <1>2, HonouredStutter DEF LoadCapacity
  <2>2. /\ reg'[a].capacity = capacity
        /\ unread'[a] = Above(ClassOf[a])
        /\ \A b \in Admission \ {a} : /\ reg'[b] = reg[b]
                                      /\ unread'[b] = unread[b]
                                      /\ pc'[b] = pc[b]
    BY <1>0, <1>2 DEF LoadCapacity, TypeOK, Register, LoadedIsCurrent
  <2> QED
    BY <1>0, <1>2, <2>1, <2>2 DEF LoadCapacity, LoadedIsCurrent
<1>3. ASSUME NEW a \in Admission, NEW c \in Class, LoadReserved(a, c)
      PROVE  LoadedIsCurrent' /\ ReservationsKept'
  <2>1. ReservationsKept'
    BY <1>0, <1>3, HonouredStutter DEF LoadReserved
  <2>2. /\ reg'[a].capacity = reg[a].capacity
        /\ reg'[a].reserved = [reg[a].reserved EXCEPT ![c] = reserved[c]]
        /\ reg[a].reserved \in [Class -> U16]
        /\ unread'[a] = unread[a] \ {c}
        /\ \A b \in Admission \ {a} : /\ reg'[b] = reg[b]
                                      /\ unread'[b] = unread[b]
    BY <1>0, <1>3 DEF LoadReserved, TypeOK, Register
  <2>3. \A e \in Above(ClassOf[a]) \ unread'[a] : reg'[a].reserved[e] = reserved[e]
    BY <1>0, <1>3, <2>2 DEF LoadReserved, LoadedIsCurrent, Above
  <2> QED
    BY <1>0, <1>3, <2>1, <2>2, <2>3 DEF LoadReserved, LoadedIsCurrent
<1>4. ASSUME NEW a \in Admission, Refuse(a)
      PROVE  LoadedIsCurrent' /\ ReservationsKept'
  <2>1. ReservationsKept'
    BY <1>0, <1>4, HonouredStutter DEF Refuse
  <2> QED
    BY <1>0, <1>4, <2>1 DEF Refuse, Settle, LoadedIsCurrent, TypeOK
<1>5. ASSUME NEW a \in Admission, Commit(a)
      PROVE  LoadedIsCurrent' /\ ReservationsKept'
  <2> DEFINE k == ClassOf[a]
  <2>0. k \in Class
    BY SlotPoolAssumption
  <2>1. LoadedIsCurrent'
    BY <1>0, <1>5 DEF Commit, Settle, LoadedIsCurrent, TypeOK
  <2>2. /\ reg[a].cur = inflight /\ reg[a].capacity = capacity
        /\ \A c \in Above(k) : reg[a].reserved[c] = reserved[c]
    BY <1>0, <1>5 DEF Commit, Loaded, LoadedIsCurrent
  <2>3. HeldAbove(reg[a].cur, reg[a].reserved, k) = HeldAbove(inflight, reserved, k)
    BY <2>2 DEF HeldAbove, Above
  <2>4. SlotsAvailableTo(inflight, reserved, capacity, k) > 0
    BY <1>0, <1>5, <2>2, <2>3
    DEF Commit, Headroom, LoadedIsCurrent, SlotsAvailableTo
  <2>5. inflight[k] < MaxU16
    BY <1>0, <1>5, HeadroomFacts DEF Commit
  <2>6. inflight' = [inflight EXCEPT ![k] = inflight[k] + 1]
    BY <1>0, <1>5, <2>0, <2>5, U16Facts DEF Commit, AtMost
  <2> HIDE DEF k
  <2>7. ASSUME NEW h \in Class
        PROVE  Total(InflightBelow(h))' <= capacity
    <3> DEFINE old == InflightBelow(h)
               new == [c \in Class |-> IF c < h THEN inflight'[c] ELSE reserved[c]]
    <3>1. InflightBelow(h)' = new
      BY <1>5 DEF InflightBelow, Commit
    <3>2. old \in [Class -> Nat] /\ Total(old) \in Nat /\ Total(old) <= capacity
      <4>1. old \in [Class -> Nat]
        BY <1>0 DEF InflightBelow
      <4> QED
        BY <1>0, <4>1, TotalFacts DEF ReservationsKept
    <3>3. CASE h > k
      <4>1. new = [old EXCEPT ![k] = old[k] + 1]
        BY <1>0, <2>0, <2>6, <3>3, ClassElements DEF InflightBelow
      <4>2. Total(old) < capacity
        BY <1>0, <2>0, <2>4, <3>3, GuardLeavesRoom DEF InflightBelow
      <4>3. Total(new) = Total(old) + 1
        <5> HIDE DEF old, new
        <5> QED
          BY <2>0, <3>2, <4>1, ClassElements DEF Total
      <4> QED
        BY <1>0, <3>1, <3>2, <4>2, <4>3
    <3>4. CASE ~(h > k)
      <4>1. new = old
        BY <1>0, <2>0, <2>6, <3>4, ClassElements DEF InflightBelow
      <4> QED
        BY <3>1, <3>2, <4>1
    <3> QED
      BY <3>3, <3>4
  <2> QED
    BY <1>5, <2>1, <2>7 DEF ReservationsKept, Commit
<1>6. ASSUME NEW a \in Admission, Retry(a)
      PROVE  LoadedIsCurrent' /\ ReservationsKept'
  <2>1. ReservationsKept'
    BY <1>0, <1>6, HonouredStutter DEF Retry
  <2> QED
    BY <1>0, <1>6, <2>1 DEF Retry, LoadCounts, LoadedIsCurrent, TypeOK
<1>7. ASSUME NEW a \in Admission, Release(a)
      PROVE  LoadedIsCurrent' /\ ReservationsKept'
  <2>1. LoadedIsCurrent'
    BY <1>0, <1>7 DEF Release, LoadedIsCurrent, TypeOK
  <2>2. inflight' \in [Class -> Nat] /\ \A c \in Class : inflight'[c] <= inflight[c]
    BY <1>0, <1>7, SlotPoolAssumption DEF Release, SatSub
  <2>3. ASSUME NEW h \in Class
        PROVE  Total(InflightBelow(h))' <= capacity
    <3> DEFINE old == InflightBelow(h)
               new == [c \in Class |-> IF c < h THEN inflight'[c] ELSE reserved[c]]
    <3>1. InflightBelow(h)' = new
      BY <1>7 DEF InflightBelow, Release
    <3>2. /\ old \in [Class -> Nat] /\ new \in [Class -> Nat]
          /\ \A c \in Class : new[c] <= old[c]
      BY <1>0, <2>2 DEF InflightBelow
    <3>3. Total(new) <= Total(old) /\ Total(new) \in Nat /\ Total(old) \in Nat
      BY <3>2, TotalMonotone, TotalFacts
    <3>4. Total(old) <= capacity
      BY <1>0 DEF ReservationsKept
    <3> QED
      BY <1>0, <3>1, <3>3, <3>4
  <2> QED
    BY <1>7, <2>1, <2>3 DEF ReservationsKept, Release
<1>8. CASE UNCHANGED vars
  <2>1. ReservationsKept'
    BY <1>0, <1>8, HonouredStutter
  <2> QED
    BY <1>0, <1>8, <2>1 DEF LoadedIsCurrent
<1> QED
  BY <1>1, <1>2, <1>3, <1>4, <1>5, <1>6, <1>7, <1>8 DEF GuardedNext, AcquireStep

(* With a steady capacity and no starving waiter, no interleaving of       *)
(* acquires lets the lower classes eat into what a class and the ones      *)
(* above it have reserved.                                                 *)
THEOREM ReservationsAreHonoured == GuardedSpec => []ReservationsHonoured
<1>1. GuardInv => ReservationsHonoured
  BY DEF GuardInv, ReservationsHonoured
<1> QED
  BY InitGuard, NextGuard, <1>1, PTL DEF GuardedSpec

-------------------------------------------------------------------------------
(* Growing pools.  When every capacity the watch delivers is larger than   *)
(* the one before, and no reservation is smaller at a larger capacity, the *)
(* words an acquire loads in the middle of a publication are at least as   *)
(* restrictive as one whole configuration.                                 *)

(* No class's reservation is smaller at a larger capacity.  The clamp may  *)
(* break this; reservations that fit have it (FittingReservationsGrow).    *)
ReservationsGrow ==
  \A b \in Baselines : \A m, n \in Offered :
    m <= n => \A c \in Class : ReservationsAt(b.floor, b.share, m)[c]
                                 <= ReservationsAt(b.floor, b.share, n)[c]

(* Reservations that fit every capacity on offer, so that nothing is       *)
(* clamped, grow with it.                                                  *)
LEMMA FittingReservationsGrow ==
  ASSUME \A b \in Baselines : \A n \in Offered :
           Total(DesiredReservations(b.floor, b.share, n)) <= n
  PROVE  ReservationsGrow
<1> SUFFICES ASSUME NEW b \in Baselines, NEW m \in Offered, NEW n \in Offered, m <= n,
                    NEW c \in Class
             PROVE  DesiredReservations(b.floor, b.share, m)[c]
                      <= DesiredReservations(b.floor, b.share, n)[c]
  BY DEF ReservationsGrow, ReservationsAt, ClampReservationsToCapacity
<1> DEFINE num == b.share[c].num
           den == b.share[c].den
           p   == num * m + den - 1
           q   == num * n + den - 1
<1>1. m \in Nat /\ n \in Nat /\ b.floor[c] \in Nat
  BY CapacityReservationsAssumption, BaselineFacts, U16Facts DEF Offered
<1>2. num \in Nat /\ den \in Nat /\ den > 0
  BY BaselineFacts
<1> HIDE DEF num, den
<1>3. num * m \in Nat /\ num * n \in Nat /\ num * m <= num * n
  BY <1>1, <1>2, MulNat, MulMonotone
<1>4. p \in Nat /\ q \in Nat /\ p <= q
  BY <1>2, <1>3
<1> HIDE DEF p, q
<1>5. /\ p \div den \in Nat /\ (p \div den) * den <= p
      /\ q \div den \in Nat /\ q < (q \div den + 1) * den
  BY <1>2, <1>4, DivFacts
<1>6. p \div den <= q \div den
  <2> DEFINE x == p \div den
             y == q \div den
  <2>1. x \in Nat /\ y \in Nat /\ x * den < (y + 1) * den
    <3>1. x \in Nat /\ y \in Nat /\ x * den \in Nat /\ (y + 1) * den \in Nat
      BY <1>2, <1>5, MulNat
    <3> QED
      BY <1>4, <1>5, <3>1
  <2> HIDE DEF x, y
  <2>2. x < y + 1
    <3> SUFFICES ASSUME y + 1 <= x PROVE FALSE
      BY <2>1
    <3>1. den * (y + 1) <= den * x
      BY <1>2, <2>1, MulMonotone
    <3> QED
      BY <1>2, <2>1, <3>1
  <2> QED
    BY <2>1, <2>2 DEF x, y
<1>7. ShareOf(b.share[c], m) = p \div den /\ ShareOf(b.share[c], n) = q \div den
  BY DEF ShareOf, p, q, num, den
<1> QED
  BY <1>1, <1>5, <1>6, <1>7 DEF DesiredReservations, AtMost

CapacityGrows == target'.capacity >= target.capacity

Pending(w) == \E i \in 1 .. Len(todo) : todo[i] = w

(* The capacity is the last word to go out.                                *)
CapacityLast == \A i \in 1 .. Len(todo) : todo[i] = CapacityWord <=> i = Len(todo)

Between ==
  \A c \in Class : /\ previous.reserved[c] <= reserved[c]
                   /\ reserved[c] <= target.reserved[c]
                   /\ Pending(c) \/ reserved[c] = target.reserved[c]

Published ==
  /\ Recomputed
  /\ CapacityLast
  /\ Between
  /\ capacity = IF todo = << >> THEN target.capacity ELSE previous.capacity

(* What an acquire has loaded, and what it may still load, is at least as  *)
(* restrictive as a configuration in force since it loaded the counts.     *)
Restrictive(a, cfg) ==
  /\ cfg.capacity = reg[a].capacity
  /\ \A c \in Above(ClassOf[a]) \ unread[a] : cfg.reserved[c] <= reg[a].reserved[c]
  /\ \A c \in unread[a] : cfg.reserved[c] <= reserved[c]

LoadedRestrictive ==
  \A a \in Admission :
    /\ Acquiring(a) => Current \subseteq inForce[a]
    /\ pc[a] = "decide" /\ guarded[a] => \E cfg \in inForce[a] : Restrictive(a, cfg)

GrowInv == TypeOK /\ Published /\ LoadedRestrictive

LEMMA InitGrow == Init => GrowInv
<1> SUFFICES ASSUME Init PROVE GrowInv
  OBVIOUS
<1>1. TypeOK
  BY InitTypeOK
<1>2. Recomputed /\ CapacityLast
  BY InitRecomputed DEF Init, CapacityLast
<1>3. reserved \in [Class -> Nat] /\ reserved = target.reserved /\ previous = target
  BY <1>1, U16Facts DEF Init, TypeOK
<1>4. Between
  BY <1>3 DEF Between
<1>5. LoadedRestrictive
  BY DEF Init, LoadedRestrictive, Acquiring
<1> QED
  BY <1>1, <1>2, <1>4, <1>5 DEF Init, GrowInv, Published

(* A configuration in force is restrictive for an acquire that loads the   *)
(* capacity now.                                                           *)
LEMMA CurrentIsRestrictive ==
  ASSUME TypeOK, Published
  PROVE  \E cfg \in Current : /\ cfg.capacity = capacity
                              /\ \A c \in Class : cfg.reserved[c] <= reserved[c]
<1>1. CASE todo = << >>
  <2>1. \A c \in Class : reserved[c] = target.reserved[c] /\ reserved[c] \in Nat
    BY <1>1, U16Facts DEF Published, Between, Pending, TypeOK
  <2> QED
    BY <1>1, <2>1 DEF Current, Published
<1>2. CASE todo # << >>
  BY <1>2 DEF Current, Published, Between
<1> QED
  BY <1>1, <1>2

(* The word that goes out next only grows.                                 *)
LEMMA PublishGrows ==
  ASSUME TypeOK, Published, PublishWord
  PROVE  /\ Published'
         /\ \A c \in Class : reserved[c] <= reserved'[c]
<1> DEFINE w == Head(todo)
           rest == Tail(todo)
<1>1. /\ todo \in Seq(Class \cup {CapacityWord}) /\ todo # << >>
      /\ Len(todo) \in Nat /\ Len(todo) > 0
  BY DEF TypeOK, PublishWord
<1>2. /\ w = todo[1] /\ Len(rest) = Len(todo) - 1
      /\ \A i \in 1 .. Len(rest) : rest[i] = todo[i + 1] /\ i + 1 \in 1 .. Len(todo)
      /\ \A i \in 1 .. Len(todo) : i # 1 => i - 1 \in 1 .. Len(rest) /\ rest[i - 1] = todo[i]
      /\ rest \in Seq(Class \cup {CapacityWord})
  BY <1>1
<1>3. todo' = rest /\ UNCHANGED <<target, previous>> /\ Recomputed'
  BY StutterRecomputed DEF PublishWord, fleet, Published
<1>0. \A i \in 1 .. Len(todo) : (todo[i] = CapacityWord) <=> (i = Len(todo))
  BY DEF Published, CapacityLast
<1>4. CapacityLast'
  <2> SUFFICES ASSUME NEW i \in 1 .. Len(rest)
               PROVE  rest[i] = CapacityWord <=> i = Len(rest)
    BY <1>3 DEF CapacityLast
  <2>1. i + 1 \in 1 .. Len(todo) /\ rest[i] = todo[i + 1] /\ i \in Nat
    BY <1>2
  <2>2. (todo[i + 1] = CapacityWord) <=> (i + 1 = Len(todo))
    BY <1>0, <2>1
  <2>3. Len(rest) = Len(todo) - 1
    BY <1>2
  <2> HIDE DEF rest
  <2> QED
    BY <1>1, <2>1, <2>2, <2>3
<1>5. w = CapacityWord <=> rest = << >>
  <2>1. w = CapacityWord <=> 1 = Len(todo)
    <3>1. 1 \in 1 .. Len(todo)
      BY <1>1
    <3> QED
      BY <1>2, <1>0, <3>1
  <2>2. Len(rest) = 0 <=> rest = << >>
    <3>1. rest \in Seq(Class \cup {CapacityWord})
      BY <1>2
    <3> HIDE DEF rest
    <3> QED
      BY <3>1
  <2> QED
    BY <1>1, <1>2, <2>1, <2>2
<1>6. \A c \in Class : Pending(c) => Pending(c)' \/ c = w
  BY <1>2, <1>3 DEF Pending
<1>7. capacity' = IF rest = << >> THEN target.capacity ELSE previous.capacity
  BY <1>1, <1>5 DEF PublishWord, Published
<1>8. ASSUME NEW c \in Class
      PROVE  /\ reserved[c] <= reserved'[c]
             /\ previous.reserved[c] <= reserved'[c]
             /\ reserved'[c] <= target.reserved[c]
             /\ Pending(c)' \/ reserved'[c] = target.reserved[c]
  <2>0. /\ reserved[c] \in Nat /\ target.reserved[c] \in Nat /\ previous.reserved[c] \in Nat
        /\ previous.reserved[c] <= reserved[c] /\ reserved[c] <= target.reserved[c]
        /\ Pending(c) \/ reserved[c] = target.reserved[c]
    BY U16Facts DEF TypeOK, FleetTypeOK, Config, Published, Between
  <2>1. CASE c = w
    <3>1. reserved'[c] = target.reserved[c]
      <4>1. c # CapacityWord
        BY DEF Class, Bulk, Default, Interactive, System, CapacityWord
      <4> QED
        BY <2>1, <4>1 DEF PublishWord, TypeOK
    <3> QED
      BY <2>0, <3>1
  <2>2. CASE c # w
    <3>1. reserved'[c] = reserved[c]
      BY <2>2 DEF PublishWord, TypeOK
    <3> QED
      BY <1>6, <2>0, <2>2, <3>1
  <2> QED
    BY <2>1, <2>2
<1>9. Between'
  BY <1>3, <1>8 DEF Between
<1> QED
  BY <1>3, <1>4, <1>7, <1>8, <1>9 DEF Published

(* A larger capacity: its reservations, then the capacity, are to go out.  *)
LEMMA ApplyGrows ==
  ASSUME ReservationsGrow, TypeOK, Published, CapacityGrows,
         NEW new \in Capacities, ApplyNewCapacity(new)
  PROVE  Published'
<1>1. /\ todo = << >> /\ new # capacity /\ Recompute(new) /\ target' = ConfigAt(new)
      /\ previous' = target /\ UNCHANGED <<capacity, reserved>>
  BY DEF ApplyNewCapacity, Recompute, pool
<1>2. capacity = target.capacity /\ \A c \in Class : reserved[c] = target.reserved[c]
  BY <1>1 DEF Published, Between, Pending
<1>3. PICK m \in Offered : baseline \in Baselines /\ target = ConfigAt(m)
  BY DEF Published, Recomputed
<1>4. m = capacity /\ m \in Nat /\ new \in Nat /\ new \in Offered /\ target'.capacity = new
  BY <1>1, <1>2, <1>3, CapacityReservationsAssumption, U16Facts DEF ConfigAt, Offered
<1>5. new > capacity
  BY <1>1, <1>2, <1>4 DEF CapacityGrows
<1>6. todo' = GrowOrder
  BY <1>5 DEF ApplyNewCapacity, PublishOrder
<1>7. /\ Len(GrowOrder) = 5 /\ GrowOrder[1] = Bulk /\ GrowOrder[2] = Default
      /\ GrowOrder[3] = Interactive /\ GrowOrder[4] = System /\ GrowOrder[5] = CapacityWord
  BY DEF GrowOrder
<1>8. CapacityLast'
  <2> SUFFICES ASSUME NEW i \in 1 .. 5
               PROVE  GrowOrder[i] = CapacityWord <=> i = 5
    BY <1>6, <1>7 DEF CapacityLast
  <2>1. i = 1 \/ i = 2 \/ i = 3 \/ i = 4 \/ i = 5
    OBVIOUS
  <2> QED
    BY <1>7, <2>1 DEF Bulk, Default, Interactive, System, CapacityWord
<1>9. \A c \in Class : Pending(c)'
  BY <1>6, <1>7, ClassElements DEF Pending
<1>10. ASSUME NEW c \in Class
       PROVE  /\ target.reserved[c] <= target'.reserved[c]
              /\ target.reserved[c] \in Nat
  <2>1. target.reserved[c] \in Nat
    BY U16Facts DEF TypeOK, FleetTypeOK, Config
  <2>2. ReservationsAt(baseline.floor, baseline.share, m)[c]
          <= ReservationsAt(baseline.floor, baseline.share, new)[c]
    BY <1>3, <1>4, <1>5 DEF ReservationsGrow
  <2> QED
    BY <1>1, <1>3, <2>1, <2>2 DEF ConfigAt
<1>11. Between'
  BY <1>1, <1>2, <1>9, <1>10 DEF Between
<1>12. todo' # << >>
  BY <1>6 DEF GrowOrder
<1>13. Recomputed'
  BY <1>1, RecomputeKeeps DEF Published
<1> QED
  BY <1>1, <1>2, <1>4, <1>8, <1>11, <1>12, <1>13 DEF Published

LEMMA NextGrow ==
  ReservationsGrow => (GrowInv /\ [Next]_vars /\ [CapacityGrows]_vars => GrowInv')
<1> SUFFICES ASSUME ReservationsGrow, GrowInv, [Next]_vars, [CapacityGrows]_vars
             PROVE  Published' /\ LoadedRestrictive'
  BY NextTypeOK DEF GrowInv
<1> USE DEF vars, pool, admission, publisher, fleet
<1>0. TypeOK /\ Published /\ LoadedRestrictive
  BY DEF GrowInv
<1>1. ASSUME UNCHANGED <<capacity, reserved, todo, fleet, previous>>
      PROVE  Published' /\ Current' = Current
  BY <1>0, <1>1, StutterRecomputed DEF fleet, Published, CapacityLast, Between, Pending, Current
(* What an acquire has at hand stays restrictive while it loads no more.   *)
<1>2. ASSUME NEW a \in Admission, NEW cfg \in inForce[a], Restrictive(a, cfg),
             reg'[a] = reg[a], unread'[a] = unread[a],
             \A c \in Class : reserved[c] <= reserved'[c]
      PROVE  Restrictive(a, cfg)'
  <2>1. \A c \in unread[a] : cfg.reserved[c] <= reserved'[c]
    <3> SUFFICES ASSUME NEW c \in unread[a] PROVE cfg.reserved[c] <= reserved'[c]
      OBVIOUS
    <3>1. c \in Class /\ cfg \in Config
      BY <1>0 DEF TypeOK
    <3>2. reserved[c] \in Nat /\ reserved'[c] \in Nat /\ cfg.reserved[c] \in Nat
      BY <1>0, <3>1, NextTypeOK, U16Facts DEF TypeOK, Config
    <3> QED
      BY <1>2, <3>1, <3>2 DEF Restrictive
  <2> QED
    BY <1>2, <2>1 DEF Restrictive
<1>2a. ASSUME UNCHANGED reserved PROVE \A c \in Class : reserved[c] <= reserved'[c]
  <2>1. \A c \in Class : reserved[c] \in Nat
    BY <1>0, U16Facts DEF TypeOK
  <2> QED
    BY <1>2a, <2>1
<1>3. ASSUME NEW a \in Admission, UNCHANGED <<capacity, reserved, todo, fleet, previous>>,
             \A b \in Admission \ {a} :
               /\ pc'[b] = pc[b] /\ guarded'[b] = guarded[b] /\ reg'[b] = reg[b]
               /\ unread'[b] = unread[b] /\ inForce'[b] = inForce[b],
             Acquiring(a)' => Current \subseteq inForce'[a],
             pc'[a] = "decide" /\ guarded'[a] => \E cfg \in inForce'[a] : Restrictive(a, cfg)'
      PROVE  Published' /\ LoadedRestrictive'
  <2>1. Published' /\ Current' = Current
    BY <1>1, <1>3
  <2>2. ASSUME NEW b \in Admission
        PROVE  /\ Acquiring(b)' => Current' \subseteq inForce'[b]
               /\ pc'[b] = "decide" /\ guarded'[b] => \E cfg \in inForce'[b] : Restrictive(b, cfg)'
    <3>1. CASE b = a
      BY <1>3, <2>1, <3>1
    <3>2. CASE b # a
      <4>1. Acquiring(b)' => Current' \subseteq inForce'[b]
        BY <1>0, <1>3, <2>1, <3>2 DEF LoadedRestrictive, Acquiring
      <4>2. ASSUME pc'[b] = "decide" /\ guarded'[b]
            PROVE  \E cfg \in inForce'[b] : Restrictive(b, cfg)'
        <5>1. PICK cfg \in inForce[b] : Restrictive(b, cfg)
          BY <1>0, <1>3, <3>2, <4>2 DEF LoadedRestrictive
        <5>2. Restrictive(b, cfg)'
          BY <1>2, <1>2a, <1>3, <3>2, <5>1
        <5> QED
          BY <1>3, <3>2, <5>2
      <4> QED
        BY <4>1, <4>2
    <3> QED
      BY <3>1, <3>2
  <2> QED
    BY <2>1, <2>2 DEF LoadedRestrictive
<1>4. ASSUME NEW a \in Admission, NEW g \in BOOLEAN, Begin(a, g)
      PROVE  Published' /\ LoadedRestrictive'
  BY <1>0, <1>3, <1>4 DEF Begin, LoadCounts, TypeOK
<1>5. ASSUME NEW a \in Admission, LoadCapacity(a)
      PROVE  Published' /\ LoadedRestrictive'
  <2>1. Current \subseteq inForce[a] /\ pc[a] = "capacity"
    BY <1>0, <1>5 DEF LoadCapacity, LoadedRestrictive, Acquiring
  <2>2. /\ reg'[a].capacity = capacity
        /\ \A b \in Admission \ {a} : reg'[b] = reg[b] /\ unread'[b] = unread[b] /\ pc'[b] = pc[b]
    BY <1>0, <1>5 DEF LoadCapacity, TypeOK, Register
  <2>3. guarded[a] => unread'[a] = Above(ClassOf[a])
    BY <1>0, <1>5 DEF LoadCapacity, TypeOK
  <2>4. PICK cfg \in Current : /\ cfg.capacity = capacity
                               /\ \A c \in Class : cfg.reserved[c] <= reserved[c]
    BY <1>0, CurrentIsRestrictive
  <2>5. guarded[a] => Restrictive(a, cfg)'
    BY <1>5, <2>2, <2>3, <2>4 DEF LoadCapacity, Restrictive, Above
  <2> QED
    BY <1>3, <1>5, <2>1, <2>2, <2>4, <2>5 DEF LoadCapacity
<1>6. ASSUME NEW a \in Admission, NEW c \in Class, LoadReserved(a, c)
      PROVE  Published' /\ LoadedRestrictive'
  <2>1. Current \subseteq inForce[a]
    BY <1>0, <1>6 DEF LoadReserved, LoadedRestrictive, Acquiring
  <2>2. /\ reg'[a].capacity = reg[a].capacity
        /\ reg'[a].reserved = [reg[a].reserved EXCEPT ![c] = reserved[c]]
        /\ reg[a].reserved \in [Class -> U16]
        /\ unread'[a] = unread[a] \ {c} /\ c \in unread[a]
        /\ \A b \in Admission \ {a} : reg'[b] = reg[b] /\ unread'[b] = unread[b]
    BY <1>0, <1>6 DEF LoadReserved, TypeOK, Register
  <2>3. ASSUME guarded[a] PROVE \E cfg \in inForce[a] : Restrictive(a, cfg)'
    <3>1. PICK cfg \in inForce[a] : Restrictive(a, cfg)
      BY <1>0, <1>6, <2>3 DEF LoadReserved, LoadedRestrictive
    <3>2. \A e \in Above(ClassOf[a]) \ unread'[a] : cfg.reserved[e] <= reg'[a].reserved[e]
      BY <2>2, <3>1 DEF Restrictive, Above
    <3>3. Restrictive(a, cfg)'
      BY <1>6, <2>2, <3>1, <3>2 DEF Restrictive, LoadReserved
    <3> QED
      BY <3>3
  <2> QED
    BY <1>3, <1>6, <2>1, <2>2, <2>3 DEF LoadReserved
<1>7. ASSUME NEW a \in Admission, NEW where \in {"idle", "held"}, Settle(a, where),
             UNCHANGED <<capacity, reserved, unread, todo, fleet, previous>>
      PROVE  Published' /\ LoadedRestrictive'
  BY <1>0, <1>3, <1>7 DEF Settle, Acquiring, TypeOK
<1>8. ASSUME NEW a \in Admission, Refuse(a)
      PROVE  Published' /\ LoadedRestrictive'
  BY <1>7, <1>8 DEF Refuse
<1>9. ASSUME NEW a \in Admission, Commit(a)
      PROVE  Published' /\ LoadedRestrictive'
  BY <1>7, <1>9 DEF Commit
<1>10. ASSUME NEW a \in Admission, Retry(a)
       PROVE  Published' /\ LoadedRestrictive'
  BY <1>0, <1>3, <1>10 DEF Retry, LoadCounts, TypeOK
<1>11. ASSUME NEW a \in Admission, Release(a)
       PROVE  Published' /\ LoadedRestrictive'
  BY <1>0, <1>3, <1>11 DEF Release, Acquiring, TypeOK
<1>12. ASSUME \A c \in Class : reserved[c] <= reserved'[c],
              UNCHANGED admission,
              \A a \in Admission : /\ inForce[a] \subseteq inForce'[a]
                                   /\ Acquiring(a) => Current' \subseteq inForce'[a]
       PROVE  LoadedRestrictive'
  <2> SUFFICES ASSUME NEW a \in Admission, pc[a] = "decide" /\ guarded[a]
               PROVE  \E cfg \in inForce'[a] : Restrictive(a, cfg)'
    BY <1>12 DEF LoadedRestrictive, Acquiring
  <2>1. PICK cfg \in inForce[a] : Restrictive(a, cfg)
    BY <1>0 DEF LoadedRestrictive
  <2>2. Restrictive(a, cfg)'
    BY <1>2, <1>12, <2>1
  <2> QED
    BY <1>12, <2>2
<1>13. ASSUME NEW new \in Capacities, ApplyNewCapacity(new)
       PROVE  Published' /\ LoadedRestrictive'
  <2>1. CapacityGrows
    BY <1>13, OrderTypes DEF ApplyNewCapacity, PublishOrder, GrowOrder, ShrinkOrder
  <2>2. Current = {target} /\ Current' \subseteq {target, target'}
    BY <1>13 DEF ApplyNewCapacity, Current
  <2>3. \A a \in Admission :
          /\ inForce[a] \subseteq inForce'[a]
          /\ Acquiring(a) => target' \in inForce'[a]
    BY <1>0, <1>13 DEF ApplyNewCapacity, Acquiring, TypeOK
  <2>4. \A a \in Admission : Acquiring(a) => Current' \subseteq inForce'[a]
    BY <1>0, <2>2, <2>3 DEF LoadedRestrictive
  <2> QED
    BY <1>0, <1>2a, <1>12, <1>13, <2>1, <2>3, <2>4, ApplyGrows DEF ApplyNewCapacity
<1>14. ASSUME PublishWord
       PROVE  Published' /\ LoadedRestrictive'
  <2>1. Current' \subseteq Current
    BY <1>14 DEF PublishWord, Current
  <2> QED
    BY <1>0, <1>12, <1>14, <2>1, PublishGrows DEF PublishWord, LoadedRestrictive
<1>15. CASE UNCHANGED vars
  <2>1. Published' /\ Current' = Current
    BY <1>1, <1>15
  <2> QED
    BY <1>0, <1>2a, <1>12, <1>15, <2>1 DEF LoadedRestrictive
<1> QED
  BY <1>4, <1>5, <1>6, <1>8, <1>9, <1>10, <1>11, <1>13, <1>14, <1>15
  DEF Next, AcquireStep, Resize

(* Smaller reservations leave at least as much room.                       *)
LEMMA SmallerReservations ==
  ASSUME NEW n \in [Class -> Nat], NEW res \in [Class -> Nat], NEW less \in [Class -> Nat],
         NEW k \in Class, NEW cap \in Nat, cap <= MaxU16,
         \A c \in Above(k) : less[c] <= res[c],
         SlotsAvailableTo(n, res, cap, k) > 0
  PROVE  SlotsAvailableTo(n, less, cap, k) > 0
<1> DEFINE f == HeldAbove(n, res, k)
           g == HeldAbove(n, less, k)
<1>1. /\ f \in [Class -> Nat] /\ g \in [Class -> Nat]
      /\ \A c \in Class : g[c] <= f[c]
  BY DEF HeldAbove, SatSub, Above
<1>2. Total(g) <= Total(f) /\ Total(g) \in Nat /\ Total(f) \in Nat /\ Total(n) \in Nat
  BY <1>1, TotalMonotone, TotalFacts
<1>3. SatSub(SatSub(cap, SatTotal(n)), SatTotal(f)) > 0
  BY DEF SlotsAvailableTo
<1> HIDE DEF f, g
<1>4. SatSub(SatSub(cap, SatTotal(n)), SatTotal(g)) > 0
  BY <1>2, <1>3, U16Facts DEF SatSub, SatTotal, AtMost
<1> QED
  BY <1>4 DEF SlotsAvailableTo, g

(* While the capacity only grows, and the reservations with it, a change   *)
(* in the middle of an acquire under-admits at most: the acquire would     *)
(* also have been admitted under one whole configuration that was in force *)
(* since it loaded the counts.                                             *)
THEOREM GrowingNeverOverAdmits ==
  ReservationsGrow => (Spec /\ [][CapacityGrows]_vars => NeverOverAdmits)
<1> DEFINE Step == \A a \in Admission :
                     Commits(a) /\ guarded[a] =>
                       \E cfg \in inForce[a] :
                         SlotsAvailableTo(inflight, cfg.reserved, cfg.capacity, ClassOf[a]) > 0
<1>1. GrowInv /\ [Next]_vars => [Step]_vars
  <2> SUFFICES ASSUME GrowInv, [Next]_vars, NEW a \in Admission, Commits(a) /\ guarded[a]
               PROVE  \E cfg \in inForce[a] :
                        SlotsAvailableTo(inflight, cfg.reserved, cfg.capacity, ClassOf[a]) > 0
    OBVIOUS
  <2>1. TypeOK /\ LoadedRestrictive
    BY DEF GrowInv
  <2>2. Commit(a)
    BY <2>1, OnlyCommitCommits
  <2>3. inflight = reg[a].cur /\ Headroom(a) > 0 /\ pc[a] = "decide" /\ unread[a] = {}
    BY <2>2 DEF Commit, Loaded
  <2>4. PICK cfg \in inForce[a] : Restrictive(a, cfg)
    BY <2>1, <2>3 DEF LoadedRestrictive
  <2>5. /\ cfg.capacity = reg[a].capacity
        /\ \A c \in Above(ClassOf[a]) : cfg.reserved[c] <= reg[a].reserved[c]
    BY <2>3, <2>4 DEF Restrictive
  <2>6. SlotsAvailableTo(inflight, reg[a].reserved, reg[a].capacity, ClassOf[a]) > 0
    BY <2>3 DEF Headroom
  <2>7. /\ inflight \in [Class -> Nat] /\ reg[a].reserved \in [Class -> Nat]
        /\ reg[a].capacity \in Nat /\ reg[a].capacity <= MaxU16 /\ ClassOf[a] \in Class
    BY <2>1, U16Facts, SlotPoolAssumption DEF TypeOK, Register
  <2>8. cfg.reserved \in [Class -> Nat]
    BY <2>1, U16Facts DEF TypeOK, Config
  <2>9. SlotsAvailableTo(inflight, cfg.reserved, cfg.capacity, ClassOf[a]) > 0
    BY <2>5, <2>6, <2>7, <2>8, SmallerReservations
  <2> QED
    BY <2>9
<1> SUFFICES ASSUME ReservationsGrow
             PROVE  Spec /\ [][CapacityGrows]_vars => NeverOverAdmits
  OBVIOUS
<1>2. GrowInv /\ [Next]_vars /\ [CapacityGrows]_vars => GrowInv'
  BY NextGrow
<1> QED
  BY <1>1, <1>2, InitGrow, PTL DEF Spec, NeverOverAdmits
===============================================================================
