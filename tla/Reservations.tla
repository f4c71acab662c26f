----------------------------- MODULE Reservations -----------------------------
(***************************************************************************)
(* The pure arithmetic of the priority scheduler: how many slots a class   *)
(* may take (slots_available_to), what each class asks to have reserved at *)
(* a capacity (desired_reservations) and how the requests are cut to a     *)
(* pool too small for them (clamp_reservations_to_capacity).               *)
(*                                                                         *)
(* A per-class array is a function on Class.  u16 arithmetic saturates at  *)
(* MaxU16, which is 65535 in the code; runs use a smaller one to reach the *)
(* limit.  A share of capacity (an f64 in the code) is a rational          *)
(* [num, den]: the built-in shares 0.10 and 0.25 round the same way for    *)
(* every u16 capacity.                                                     *)
(***************************************************************************)
EXTENDS Integers

CONSTANT MaxU16

ASSUME MaxU16Assumption == MaxU16 \in Nat \ {0}

Bulk        == 0
Default     == 1
Interactive == 2
System      == 3

(* Class::ALL; the order of the numbers is the order of the priorities.    *)
Class == {Bulk, Default, Interactive, System}

U16 == 0 .. MaxU16

(* The sum of a per-class array.                                           *)
Total(f) == f[Bulk] + f[Default] + f[Interactive] + f[System]

AtMost(n, bound) == IF n > bound THEN bound ELSE n

(* u16::saturating_sub, and a fold of u16::saturating_add over an array.   *)
SatSub(m, n) == IF m > n THEN m - n ELSE 0
SatTotal(f)  == AtMost(Total(f), MaxU16)

(***************************************************************************)
(* Slots a class may take now.  Every higher class keeps the part of its   *)
(* reservation that it does not use; a class's own reservation never       *)
(* shrinks its own headroom.                                               *)
(***************************************************************************)
HeldAbove(counts, reserved, class) ==
  [c \in Class |-> IF c > class THEN SatSub(reserved[c], counts[c]) ELSE 0]

SlotsAvailableTo(counts, reserved, capacity, class) ==
  SatSub(SatSub(capacity, SatTotal(counts)),
         SatTotal(HeldAbove(counts, reserved, class)))

(***************************************************************************)
(* Reservations at a capacity.                                             *)
(***************************************************************************)
ShareOf(share, capacity) ==
  (share.num * capacity + share.den - 1) \div share.den

DesiredReservations(floor, share, capacity) ==
  [c \in Class |->
     LET wanted == ShareOf(share[c], capacity)
     IN  AtMost(IF wanted > floor[c] THEN wanted ELSE floor[c], capacity)]

(* max_by_key keeps the last maximum: the highest class on a tie.          *)
IsLargest(f, c) ==
  \A d \in Class : f[d] < f[c] \/ (f[d] = f[c] /\ d <= c)

Scaled(desired, capacity) ==
  [c \in Class |-> (desired[c] * capacity) \div Total(desired)]

(* Mutant: the priority-ordered fill the clamp replaced, which serves the  *)
(* highest class whole first.                                              *)
FillByPriority(desired, capacity) ==
  LET idle == [c \in Class |-> 0]
  IN  [c \in Class |->
         AtMost(desired[c],
                SatSub(capacity, Total(HeldAbove(idle, desired, c))))]

(* Mutant: no slot is taken back when the scaled reservations fill the     *)
(* pool.                                                                   *)
ClampWithoutTakeBack(desired, capacity) ==
  IF Total(desired) <= capacity THEN desired ELSE Scaled(desired, capacity)

(* Mutant: the floors and shares are published as they are.                *)
NoClamp(desired, capacity) == desired

ClampReservationsToCapacity(desired, capacity) ==
  IF Total(desired) <= capacity
  THEN desired
  ELSE LET out == Scaled(desired, capacity)
       IN  IF capacity > 0 /\ Total(out) >= capacity
           THEN [c \in Class |-> IF IsLargest(out, c) THEN SatSub(out[c], 1)
                                                      ELSE out[c]]
           ELSE out

(* What apply_new_capacity publishes for a capacity.                       *)
ReservationsAt(floor, share, capacity) ==
  ClampReservationsToCapacity(
    DesiredReservations(floor, share, capacity), capacity)
===============================================================================
