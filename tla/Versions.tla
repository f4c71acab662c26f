------------------------------- MODULE Versions -------------------------------
(***************************************************************************)
(* Operations of the mesh's last-writer-wins keys and their order: by      *)
(* Lamport timestamp, then by replica id.  A key nobody has written holds  *)
(* an operation at time zero, older than every other.                      *)
(***************************************************************************)
EXTENDS Naturals

CONSTANTS
  Key,
  Value,   \* what a write may leave: values, and a tombstone
  Absent   \* what a key without an operation holds

ASSUME AbsentAssumption == Absent \notin Value

Op == [key : Key, ts : Nat, rep : Nat, val : Value \cup {Absent}]

Nothing(k) == [key |-> k, ts |-> 0, rep |-> 0, val |-> Absent]

Empty == [k \in Key |-> Nothing(k)]

SameVersion(o, p) == o.key = p.key /\ o.ts = p.ts /\ o.rep = p.rep

Newer(o, p) == o.ts > p.ts \/ (o.ts = p.ts /\ o.rep > p.rep)
===============================================================================
