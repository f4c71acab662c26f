------------------------------ MODULE MCKvEvents ------------------------------
(* A first engine process of four batches, restarted for one more.         *)
EXTENDS KvEvents

FourThenOne == <<4, 1>>
===============================================================================
