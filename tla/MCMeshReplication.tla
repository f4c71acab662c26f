-------------------------- MODULE MCMeshReplication --------------------------
(* An instance of MeshReplication: two nodes and their stream.             *)
EXTENDS MeshReplication, TLC

CONSTANTS a, b

Pair == {<<a, b>>, <<b, a>>}

MCFirst == (a :> 2) @@ (b :> 3)
=============================================================================
