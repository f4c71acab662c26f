----------------------------- MODULE MCLwwEngine -----------------------------
(* Instances of LwwEngine: this node is replica 1, its peers are 0 and 2.  *)
EXTENDS LwwEngine

CONSTANTS p1, d1, r1, r2

MCKindOf ==
  [t \in Task |-> CASE t = p1         -> "put"
                    [] t = d1         -> "delete"
                    [] t \in {r1, r2} -> "remote"]

Insert(ts, rep) == [ts |-> ts, rep |-> rep, dead |-> FALSE]
Remove(ts, rep) == [ts |-> ts, rep |-> rep, dead |-> TRUE]

(* A batch of two versions and one whose version ties with the newer.      *)
MCBatch ==
  [t \in Task |-> CASE t = r1 -> {Insert(1, 0), Remove(4, 2)}
                    [] t = r2 -> {Insert(4, 0)}
                    [] OTHER  -> {}]
==============================================================================
