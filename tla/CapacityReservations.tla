------------------------- MODULE CapacityReservations -------------------------
(***************************************************************************)
(* The reservations of the priority scheduler as the capacity of the fleet *)
(* moves: PriorityScheduler::new refuses floors and shares that do not fit *)
(* the first capacity, apply_new_capacity recomputes them for every later  *)
(* one.  The two writes of apply_new_capacity are one step here; SlotPool  *)
(* takes them apart.                                                       *)
(***************************************************************************)
EXTENDS Reservations

CONSTANTS
  Baselines,       \* floors and shares an operator may configure
  FirstCapacities, \* capacities the scheduler may be built with
  Capacities       \* capacities the watch channel delivers later

Baseline == [floor : [Class -> U16], share : [Class -> [num : Nat, den : Nat \ {0}]]]

ASSUME CapacityReservationsAssumption ==
  Baselines \subseteq Baseline /\ FirstCapacities \subseteq U16 /\ Capacities \subseteq U16

VARIABLES
  baseline,  \* reserved_floor and reserved_per_slot, immutable
  target     \* the configuration last made for the pool

fleet == <<baseline, target>>

Config == [capacity : U16, reserved : [Class -> U16]]

ConfigAt(n) ==
  [capacity |-> n, reserved |-> ReservationsAt(baseline.floor, baseline.share, n)]

Desired == DesiredReservations(baseline.floor, baseline.share, target.capacity)

FleetTypeOK == baseline \in Baselines /\ target \in Config

-------------------------------------------------------------------------------

(* PriorityScheduler::new: a configuration whose reservations exceed the   *)
(* initial capacity is refused (the gateway then runs legacy admission).   *)
InitFleet ==
  /\ baseline \in Baselines
  /\ \E n \in FirstCapacities :
       LET desired == DesiredReservations(baseline.floor, baseline.share, n)
       IN  Total(desired) <= n /\ target = [capacity |-> n, reserved |-> desired]

Recompute(new) == target' = ConfigAt(new) /\ UNCHANGED baseline

(* A capacity that is not new is ignored.                                  *)
NextFleet == \E new \in Capacities : new # target.capacity /\ Recompute(new)

FleetSpec == InitFleet /\ [][NextFleet]_fleet

-------------------------------------------------------------------------------

Clamped == Total(Desired) > target.capacity

(* Reservations never promise more than the pool holds, whatever sequence  *)
(* of capacities the fleet goes through.                                   *)
ReservationsFit == Total(target.reserved) <= target.capacity

(* After a clamp every class, also one that reserved nothing, may take a   *)
(* slot of an idle pool: the highest class never owns a small pool whole.  *)
NoClassLockedOut ==
  Clamped /\ target.capacity > 0 =>
    \A c \in Class :
      SlotsAvailableTo([d \in Class |-> 0], target.reserved, target.capacity, c) > 0

(* A clamp leaves every class the same fraction of what it asked for, up   *)
(* to rounding; only the largest reservation may lose one more slot.       *)
ClampIsProportional ==
  LET total == Total(Desired)
      exact(c) == Desired[c] * target.capacity
  IN  Clamped =>
        /\ \A c \in Class : /\ target.reserved[c] * total <= exact(c)
                            /\ exact(c) < (target.reserved[c] + 2) * total
        /\ \A c \in Class :
             exact(c) >= (target.reserved[c] + 1) * total =>
               \A d \in Class : target.reserved[c] + 1 >= target.reserved[d]
===============================================================================
