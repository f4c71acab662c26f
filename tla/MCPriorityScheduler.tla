-------------------------- MODULE MCPriorityScheduler --------------------------
(* Instances of PriorityScheduler: two or three requests of two classes on *)
(* a pool of one or two slots.                                             *)
EXTENDS PriorityScheduler, TLC

CONSTANTS b1, b2, i1

MCClassOf ==
  [r \in Request |-> CASE r \in {b1, b2} -> Bulk
                       [] r = i1         -> Interactive]

Symmetric == Permutations({b1, b2} \cap Request)

(* The classes the built-in configuration lets preempt.                    *)
MCCanPreempt == {Interactive, System}

QueueOfOne == [c \in Class |-> 1]
QueueOfTwo == [c \in Class |-> 2]

NoFloor    == [c \in Class |-> 0]
TwoFloors  == [NoFloor EXCEPT ![System] = 1, ![Interactive] = 1]
NoShares   == [c \in Class |-> [num |-> 0, den |-> 1]]
===============================================================================
