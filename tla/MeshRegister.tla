----------------------------- MODULE MeshRegister -----------------------------
(***************************************************************************)
(* What the mesh store promises of its last-writer-wins keys, whatever the *)
(* transport does: a node shows for a key either nothing or one operation  *)
(* that some node has issued, a local write shows at once, an operation    *)
(* is replaced only by a newer one, and no two operations of a key have    *)
(* one version.  A node that restarts shows nothing.                       *)
(***************************************************************************)
EXTENDS Versions

CONSTANT Node

VARIABLES
  shown,   \* the operation each node shows for each key
  issued   \* every operation issued so far

Init ==
  /\ shown = [n \in Node |-> Empty]
  /\ issued = {}

Write(n, o) ==
  /\ \A p \in issued : ~SameVersion(o, p)
  /\ Newer(o, shown[n][o.key])
  /\ issued' = issued \cup {o}
  /\ shown' = [shown EXCEPT ![n][o.key] = o]

Learn(n, o) ==
  /\ Newer(o, shown[n][o.key])
  /\ shown' = [shown EXCEPT ![n][o.key] = o]
  /\ UNCHANGED issued

Forget(n) ==
  /\ shown' = [shown EXCEPT ![n] = Empty]
  /\ UNCHANGED issued

Next ==
  \E n \in Node :
    \/ \E o \in issued' \ issued : Write(n, o)
    \/ \E o \in issued : Learn(n, o)
    \/ Forget(n)

Spec == Init /\ [][Next]_<<shown, issued>>
===============================================================================
