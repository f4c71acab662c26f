---------------------------- MODULE MCWorkerSync ----------------------------
(* An instance of WorkerSync: two gateways and one endpoint.               *)
EXTENDS WorkerSync, TLC

CONSTANTS a, b, endpoint, specA, specB, k1

(* The endpoint's worker was registered and replaced by a process of a     *)
(* that is gone, which wrote other keys in between.                        *)
Earlier(ts, ver, spec) ==
  [key |-> k1, ts |-> ts, rep |-> 1,
   val |-> [owner |-> a, url |-> endpoint, ver |-> ver, spec |-> spec]]

MCEarlier == {Earlier(1, 0, specA), Earlier(4, 1, specB)}

(* Replica ids grow with time.                                             *)
MCReplica == (b :> 2) @@ (a :> 3)
=============================================================================
