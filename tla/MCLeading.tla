----------------------------- MODULE MCLeading -----------------------------
(* Two replicas on two nodes. *)
EXTENDS Leading
MCNodeIP == [r \in Replica |-> IF r = "r1" THEN "a" ELSE "b"]
=============================================================================
