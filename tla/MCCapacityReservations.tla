------------------------ MODULE MCCapacityReservations ------------------------
(* Instance of CapacityReservations: floors below, at and above what the   *)
(* pool holds, no share and the share 1/4, for each class.                 *)
EXTENDS CapacityReservations

MCShares == {[num |-> 0, den |-> 1], [num |-> 1, den |-> 4]}

EveryBaseline == [floor : [Class -> {0, 1, 3}], share : [Class -> MCShares]]
===============================================================================
