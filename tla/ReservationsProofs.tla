-------------------------- MODULE ReservationsProofs --------------------------
(***************************************************************************)
(* Facts about the scheduler's reservation arithmetic, for every MaxU16,   *)
(* every configuration and every capacity.                                 *)
(***************************************************************************)
EXTENDS Reservations, TLAPS

(* Integer division rounds down: the quotient is a natural number and the  *)
(* divisor fits that often.                                                *)
LEMMA DivFacts ==
  ASSUME NEW a \in Nat, NEW b \in Nat, b > 0
  PROVE  /\ a \div b \in Nat
         /\ (a \div b) * b <= a
         /\ a < (a \div b + 1) * b
  BY SMT

(* Multiplication by a positive number can be cancelled in a comparison.   *)
LEMMA CancelFactor ==
  ASSUME NEW m \in Nat, NEW n \in Nat, NEW t \in Nat, t > 0, m * t <= n * t
  PROVE  m <= n
  BY SMT

LEMMA MulMonotone ==
  ASSUME NEW a \in Nat, NEW m \in Nat, NEW n \in Nat, m <= n
  PROVE  a * m <= a * n
  BY SMT

LEMMA MulNat ==
  ASSUME NEW a \in Nat, NEW b \in Nat
  PROVE  a * b \in Nat
  BY SMT

LEMMA SumTimes ==
  ASSUME NEW a \in Nat, NEW b \in Nat, NEW c \in Nat, NEW d \in Nat, NEW t \in Nat
  PROVE  (a + b + c + d) * t = a * t + b * t + c * t + d * t
  BY SMT

-------------------------------------------------------------------------------

LEMMA ClassElements ==
  /\ Bulk \in Class /\ Default \in Class /\ Interactive \in Class /\ System \in Class
  /\ \A c \in Class : c = Bulk \/ c = Default \/ c = Interactive \/ c = System
  /\ Bulk # Default /\ Bulk # Interactive /\ Bulk # System
  /\ Default # Interactive /\ Default # System /\ Interactive # System
  /\ Class \subseteq Nat
  BY DEF Class, Bulk, Default, Interactive, System

LEMMA U16Facts ==
  /\ MaxU16 \in Nat /\ MaxU16 > 0
  /\ \A n \in U16 : n \in Nat /\ n <= MaxU16
  /\ \A n \in Nat : n <= MaxU16 => n \in U16
  BY MaxU16Assumption DEF U16

(* The sum of a per-class array is a number, and no less than any element. *)
LEMMA TotalFacts ==
  ASSUME NEW f \in [Class -> Nat]
  PROVE  /\ Total(f) \in Nat
         /\ \A c \in Class : f[c] <= Total(f)
  BY ClassElements DEF Total

(* desired_reservations: every class asks for at most the whole pool.      *)
LEMMA DesiredFacts ==
  ASSUME NEW floor \in [Class -> Nat],
         NEW share \in [Class -> [num : Nat, den : Nat \ {0}]],
         NEW n \in Nat
  PROVE  DesiredReservations(floor, share, n) \in [Class -> 0 .. n]
<1>1. ASSUME NEW c \in Class
      PROVE  ShareOf(share[c], n) \in Nat
  <2> DEFINE num == share[c].num
             den == share[c].den
  <2>1. num \in Nat /\ den \in Nat /\ den > 0
    OBVIOUS
  <2> HIDE DEF num, den
  <2>2. num * n \in Nat
    BY <2>1, MulNat
  <2>3. (num * n + den - 1) \in Nat
    BY <2>1, <2>2
  <2>4. (num * n + den - 1) \div den \in Nat
    BY <2>1, <2>3, DivFacts
  <2> QED
    BY <2>4 DEF ShareOf, num, den
<1>2. ASSUME NEW w \in Nat
      PROVE  AtMost(w, n) \in 0 .. n
  BY DEF AtMost
<1> QED
  BY <1>1, <1>2 DEF DesiredReservations

(* The scaled reservations: each is at most what was asked for, and the    *)
(* sum fits the pool.                                                      *)
LEMMA ScaledFacts ==
  ASSUME NEW d \in [Class -> Nat], NEW n \in Nat, Total(d) > n
  PROVE  /\ Scaled(d, n) \in [Class -> Nat]
         /\ \A c \in Class : Scaled(d, n)[c] <= d[c]
         /\ Total(Scaled(d, n)) <= n
<1> DEFINE t == Total(d)
           q == Scaled(d, n)
<1>1. t \in Nat /\ t > 0 /\ n <= t
  BY TotalFacts
<1>2. ASSUME NEW c \in Class
      PROVE  /\ q[c] \in Nat
             /\ q[c] * t <= d[c] * n
             /\ q[c] <= d[c]
  <2>1. d[c] * n \in Nat /\ q[c] = (d[c] * n) \div t
    BY MulNat DEF Scaled
  <2> HIDE DEF t, q
  <2>2. q[c] \in Nat /\ q[c] * t <= d[c] * n
    BY <1>1, <2>1, DivFacts
  <2>3. d[c] * n <= d[c] * t /\ d[c] * t \in Nat
    BY <1>1, MulMonotone, MulNat
  <2>4. q[c] * t \in Nat
    BY <1>1, <2>2, MulNat
  <2>5. q[c] * t <= d[c] * t
    BY <2>1, <2>2, <2>3, <2>4
  <2> QED
    BY <1>1, <2>2, <2>5, CancelFactor
<1>3. q \in [Class -> Nat]
  BY <1>2 DEF Scaled
<1>4. Total(q) <= n
  <2> HIDE DEF q
  <2>1. Total(q) * t = q[Bulk] * t + q[Default] * t + q[Interactive] * t + q[System] * t
    BY <1>1, <1>3, ClassElements, SumTimes DEF Total
  <2>2. t * n = d[Bulk] * n + d[Default] * n + d[Interactive] * n + d[System] * n
    BY ClassElements, SumTimes DEF Total, t
  <2> HIDE DEF t
  <2>3. \A c \in Class : q[c] * t \in Nat /\ d[c] * n \in Nat
    BY <1>1, <1>3, MulNat
  <2>4. Total(q) * t <= t * n
    BY <1>2, <2>1, <2>2, <2>3, ClassElements
  <2>5. t * n = n * t
    BY <1>1
  <2>6. Total(q) \in Nat
    BY <1>3, TotalFacts
  <2> QED
    BY <1>1, <2>4, <2>5, <2>6, CancelFactor
<1> QED
  BY <1>2, <1>3, <1>4

(* Some class has the largest reservation, the one the clamp takes a slot  *)
(* back from, and it has one to give when the reservations fill the pool.  *)
LEMMA LargestFacts ==
  ASSUME NEW f \in [Class -> Nat]
  PROVE  /\ \E c \in Class : IsLargest(f, c)
         /\ \A c \in Class : IsLargest(f, c) => \A e \in Class : f[e] <= f[c]
         /\ Total(f) > 0 => \A c \in Class : IsLargest(f, c) => f[c] > 0
<1>1. \E c \in Class : IsLargest(f, c)
  BY DEF IsLargest, Class, Bulk, Default, Interactive, System
<1>2. \A c \in Class : IsLargest(f, c) => \A e \in Class : f[e] <= f[c]
  BY DEF IsLargest
<1>3. ASSUME Total(f) > 0, NEW c \in Class, IsLargest(f, c)
      PROVE  f[c] > 0
  BY <1>2, <1>3, ClassElements DEF Total
<1> QED
  BY <1>1, <1>2, <1>3

(* Lowering elements lowers the sum, strictly if one was lowered.          *)
LEMMA TotalMonotone ==
  ASSUME NEW f \in [Class -> Nat], NEW g \in [Class -> Nat],
         \A c \in Class : f[c] <= g[c]
  PROVE  /\ Total(f) <= Total(g)
         /\ (\E c \in Class : f[c] < g[c]) => Total(f) < Total(g)
  BY ClassElements DEF Total

(* clamp_reservations_to_capacity, for any requests and any capacity: no   *)
(* class gets more than it asked for, the sum fits, and a clamp leaves at  *)
(* least one slot of a non-empty pool unreserved.                          *)
LEMMA ClampFacts ==
  ASSUME NEW d \in [Class -> Nat], NEW n \in Nat
  PROVE  LET r == ClampReservationsToCapacity(d, n) IN
         /\ r \in [Class -> Nat]
         /\ \A c \in Class : r[c] <= d[c]
         /\ Total(r) <= n
         /\ Total(d) > n /\ n > 0 => Total(r) < n
<1> DEFINE r == ClampReservationsToCapacity(d, n)
           q == Scaled(d, n)
<1>0. Total(d) \in Nat
  BY TotalFacts
<1>1. CASE Total(d) <= n
  BY <1>0, <1>1 DEF ClampReservationsToCapacity
<1>2. CASE Total(d) > n
  <2>1. /\ q \in [Class -> Nat]
        /\ \A c \in Class : q[c] <= d[c]
        /\ Total(q) <= n
        /\ Total(q) \in Nat
    BY <1>2, ScaledFacts, TotalFacts
  <2>2. CASE ~(n > 0 /\ Total(q) >= n)
    <3>1. r = q
      BY <1>0, <1>2, <2>2 DEF ClampReservationsToCapacity
    <3> QED
      BY <2>1, <2>2, <3>1
  <2>3. CASE n > 0 /\ Total(q) >= n
    <3>1. r = [c \in Class |-> IF IsLargest(q, c) THEN SatSub(q[c], 1) ELSE q[c]]
      BY <1>0, <1>2, <2>3 DEF ClampReservationsToCapacity
    <3> HIDE DEF r, q
    <3>2. r \in [Class -> Nat] /\ \A c \in Class : r[c] <= q[c]
      BY <2>1, <3>1 DEF SatSub
    <3>3. \E c \in Class : r[c] < q[c]
      BY <2>1, <2>3, <3>1, LargestFacts DEF SatSub
    <3>4. Total(r) < Total(q) /\ Total(r) \in Nat
      BY <2>1, <3>2, <3>3, TotalMonotone, TotalFacts
    <3>5. \A c \in Class : r[c] <= d[c]
      BY <2>1, <3>2
    <3> QED
      BY <2>1, <3>2, <3>4, <3>5 DEF r
  <2> QED
    BY <2>2, <2>3
<1> QED
  BY <1>0, <1>1, <1>2

(* A clamp gives every class its part of the pool, rounded down; the       *)
(* class with the largest part may be given one slot less.                 *)
LEMMA ClampProportion ==
  ASSUME NEW d \in [Class -> Nat], NEW n \in Nat, Total(d) > n, NEW c \in Class
  PROVE  LET r == ClampReservationsToCapacity(d, n)
             t == Total(d)
         IN  /\ r[c] * t <= d[c] * n
             /\ d[c] * n < (r[c] + 2) * t
             /\ d[c] * n >= (r[c] + 1) * t => \A e \in Class : r[c] + 1 >= r[e]
<1> DEFINE r == ClampReservationsToCapacity(d, n)
           q == Scaled(d, n)
           t == Total(d)
           x == d[c] * n
<1>1. t \in Nat /\ t > 0 /\ x \in Nat
  BY TotalFacts, MulNat
<1>2. q \in [Class -> Nat]
  BY ScaledFacts
<1>3. q[c] * t <= x /\ x < (q[c] + 1) * t
  <2>1. q[c] = x \div t
    BY DEF Scaled
  <2> HIDE DEF x, t, q
  <2> QED
    BY <1>1, <2>1, DivFacts
<1>4. \A e \in Class : /\ r[e] \in Nat
                       /\ r[e] = q[e] \/ (r[e] = SatSub(q[e], 1) /\ IsLargest(q, e))
  BY <1>1, <1>2 DEF ClampReservationsToCapacity, SatSub
<1> HIDE DEF r, q, t, x
<1>5. \A e \in Class : r[e] <= q[e] /\ q[e] <= r[e] + 1
  BY <1>2, <1>4 DEF SatSub
<1>6. r[c] \in Nat /\ q[c] \in Nat
  BY <1>2, <1>4
<1>7. t * r[c] <= t * q[c] /\ t * (q[c] + 1) <= t * (r[c] + 2)
  BY <1>1, <1>5, <1>6, MulMonotone
<1>8. r[c] * t <= x /\ x < (r[c] + 2) * t
  <2>1. /\ t * r[c] = r[c] * t /\ t * q[c] = q[c] * t
        /\ t * (q[c] + 1) = (q[c] + 1) * t /\ t * (r[c] + 2) = (r[c] + 2) * t
    BY <1>1, <1>6
  <2>2. /\ r[c] * t \in Nat /\ q[c] * t \in Nat
        /\ (q[c] + 1) * t \in Nat /\ (r[c] + 2) * t \in Nat
    BY <1>1, <1>6, MulNat
  <2> QED
    BY <1>1, <1>3, <1>7, <2>1, <2>2
<1>9. ASSUME x >= (r[c] + 1) * t, NEW e \in Class
      PROVE  r[c] + 1 >= r[e]
  <2>1. r[c] # q[c]
    <3>1. SUFFICES ASSUME r[c] = q[c] PROVE FALSE
      OBVIOUS
    <3>2. (q[c] + 1) * t \in Nat
      BY <1>1, <1>6, MulNat
    <3> QED
      BY <1>1, <1>3, <1>9, <3>1, <3>2
  <2>2. IsLargest(q, c) /\ q[c] <= r[c] + 1
    BY <1>4, <1>5, <2>1
  <2>3. q[e] <= q[c] /\ r[e] <= q[e] /\ q[e] \in Nat /\ r[e] \in Nat
    BY <1>2, <1>4, <1>5, <2>2, LargestFacts
  <2> QED
    BY <1>6, <2>2, <2>3
<1> QED
  BY <1>8, <1>9 DEF r, t, x

(* What apply_new_capacity publishes is a u16 per class and fits.          *)
LEMMA ReservationsAtFacts ==
  ASSUME NEW floor \in [Class -> Nat],
         NEW share \in [Class -> [num : Nat, den : Nat \ {0}]],
         NEW n \in U16
  PROVE  /\ ReservationsAt(floor, share, n) \in [Class -> U16]
         /\ Total(ReservationsAt(floor, share, n)) <= n
<1> DEFINE d == DesiredReservations(floor, share, n)
           r == ClampReservationsToCapacity(d, n)
<1>1. n \in Nat /\ n <= MaxU16 /\ MaxU16 \in Nat
  BY MaxU16Assumption DEF U16
<1>2. d \in [Class -> 0 .. n]
  BY <1>1, DesiredFacts
<1>3. d \in [Class -> Nat]
  BY <1>1, <1>2
<1> HIDE DEF d
<1>4. /\ r \in [Class -> Nat]
      /\ \A c \in Class : r[c] <= d[c]
      /\ Total(r) <= n
  BY <1>1, <1>3, ClampFacts
<1> HIDE DEF r
<1>5. r \in [Class -> U16]
  BY <1>1, <1>2, <1>4 DEF U16
<1> QED
  BY <1>4, <1>5 DEF ReservationsAt, r, d
-------------------------------------------------------------------------------
(* The slots a class may take, without the saturation: what is taken of    *)
(* the pool is, of every higher class, its count or its reservation,       *)
(* whichever is larger.                                                    *)
Claims(counts, res, class) ==
  [c \in Class |-> IF c > class /\ res[c] > counts[c] THEN res[c] ELSE counts[c]]

LEMMA ClaimsFacts ==
  ASSUME NEW n \in [Class -> Nat], NEW res \in [Class -> Nat], NEW k \in Class
  PROVE  /\ Claims(n, res, k) \in [Class -> Nat]
         /\ \A c \in Class : n[c] <= Claims(n, res, k)[c]
         /\ Total(Claims(n, res, k)) \in Nat /\ Total(n) \in Nat
         /\ Total(n) <= Total(Claims(n, res, k))
<1>1. /\ Claims(n, res, k) \in [Class -> Nat]
      /\ \A c \in Class : n[c] <= Claims(n, res, k)[c]
  BY DEF Claims
<1> QED
  BY <1>1, TotalFacts, TotalMonotone

(* slots_available_to is the capacity less the claims, or nothing.         *)
LEMMA SlotsFormula ==
  ASSUME NEW n \in [Class -> Nat], NEW res \in [Class -> Nat], NEW k \in Class,
         NEW cap \in Nat, cap <= MaxU16
  PROVE  SlotsAvailableTo(n, res, cap, k) = SatSub(cap, Total(Claims(n, res, k)))
<1> DEFINE held == HeldAbove(n, res, k)
           all == Claims(n, res, k)
<1>1. held \in [Class -> Nat] /\ all \in [Class -> Nat]
  BY DEF HeldAbove, SatSub, Claims
<1>2. \A c \in Class : all[c] = n[c] + held[c]
  BY DEF HeldAbove, SatSub, Claims
<1>3. SlotsAvailableTo(n, res, cap, k) = SatSub(SatSub(cap, SatTotal(n)), SatTotal(held))
  BY DEF SlotsAvailableTo
<1> HIDE DEF held, all
<1>4. Total(all) = Total(n) + Total(held)
  BY <1>1, <1>2, ClassElements DEF Total
<1>5. Total(n) \in Nat /\ Total(held) \in Nat
  BY <1>1, TotalFacts
<1>6. SatSub(SatSub(cap, SatTotal(n)), SatTotal(held)) = SatSub(cap, Total(n) + Total(held))
  BY <1>5, U16Facts DEF SatSub, SatTotal, AtMost
<1> QED
  BY <1>3, <1>4, <1>6 DEF all

(* A class that may take a slot finds the pool not full.                   *)
LEMMA RoomMeansNotFull ==
  ASSUME NEW n \in [Class -> U16], NEW res \in [Class -> Nat], NEW k \in Class,
         NEW cap \in U16,
         SlotsAvailableTo(n, res, cap, k) > 0 \/ SatSub(cap, SatTotal(n)) > 0
  PROVE  /\ Total(n) \in Nat /\ Total(n) < cap
         /\ \A c \in Class : n[c] + 1 \in U16
<1>1. n \in [Class -> Nat] /\ cap \in Nat /\ cap <= MaxU16
  BY U16Facts
<1>2. Total(n) \in Nat /\ \A c \in Class : n[c] <= Total(n)
  BY <1>1, TotalFacts
<1>3. Total(n) < cap
  <2>1. CASE SlotsAvailableTo(n, res, cap, k) > 0
    <3>1. SatSub(cap, Total(Claims(n, res, k))) > 0
      BY <1>1, <2>1, SlotsFormula
    <3>2. Total(Claims(n, res, k)) \in Nat /\ Total(n) <= Total(Claims(n, res, k))
      BY <1>1, ClaimsFacts
    <3> QED
      BY <1>1, <1>2, <3>1, <3>2 DEF SatSub
  <2>2. CASE SatSub(cap, SatTotal(n)) > 0
    BY <1>1, <1>2, <2>2, U16Facts DEF SatSub, SatTotal, AtMost
  <2> QED
    BY <2>1, <2>2
<1> QED
  BY <1>1, <1>2, <1>3, U16Facts

(* More slots in use, of whichever classes, leave no class more room: a    *)
(* reservation a higher class fills was held back from the others already. *)
LEMMA SlotsAntitone ==
  ASSUME NEW n \in [Class -> Nat], NEW m \in [Class -> Nat],
         NEW res \in [Class -> Nat], NEW k \in Class,
         NEW cap \in Nat, cap <= MaxU16,
         \A c \in Class : n[c] <= m[c]
  PROVE  SlotsAvailableTo(m, res, cap, k) <= SlotsAvailableTo(n, res, cap, k)
<1> DEFINE f == Claims(n, res, k)
           g == Claims(m, res, k)
<1>1. f \in [Class -> Nat] /\ g \in [Class -> Nat]
  BY ClaimsFacts
<1>2. \A c \in Class : f[c] <= g[c]
  BY DEF Claims
<1>3. SlotsAvailableTo(m, res, cap, k) = SatSub(cap, Total(g))
  BY SlotsFormula
<1>4. SlotsAvailableTo(n, res, cap, k) = SatSub(cap, Total(f))
  BY SlotsFormula
<1> HIDE DEF f, g
<1>5. Total(f) <= Total(g) /\ Total(f) \in Nat /\ Total(g) \in Nat
  BY <1>1, <1>2, TotalMonotone, TotalFacts
<1>6. SatSub(cap, Total(g)) <= SatSub(cap, Total(f))
  BY <1>5 DEF SatSub
<1> QED
  BY <1>3, <1>4, <1>6
===============================================================================
