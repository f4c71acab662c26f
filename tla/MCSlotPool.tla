------------------------------ MODULE MCSlotPool ------------------------------
(* Instances of SlotPool: admissions of two or three classes on a pool of  *)
(* a few slots.                                                            *)
EXTENDS SlotPool, TLC

CONSTANTS a1, a2, a3, a4

TwoBulkOneSystem == (a1 :> Bulk) @@ (a2 :> Bulk) @@ (a3 :> System)
OnePerClass      == (a1 :> Default) @@ (a2 :> Default) @@ (a3 :> Interactive)
                      @@ (a4 :> System)

(* The two admissions of the same class are interchangeable.               *)
SameClass == Permutations({a1, a2})

NoShare == [num |-> 0, den |-> 1]
Half    == [num |-> 1, den |-> 2]

NoFloor          == [c \in Class |-> 0]
InteractiveFloor == [NoFloor EXCEPT ![Interactive] = 1]

NoShares   == [c \in Class |-> NoShare]
SystemHalf == [NoShares EXCEPT ![System] = Half]

FloorAndShare == {[floor |-> InteractiveFloor, share |-> SystemHalf]}
ShareAlone    == {[floor |-> NoFloor, share |-> SystemHalf]}
===============================================================================
