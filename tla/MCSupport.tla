------------------------------ MODULE MCSupport ------------------------------
(***************************************************************************)
(* Three metrics for the readers: two have the same name in different      *)
(* namespaces, and so the same gauge, and two the same key although their  *)
(* names differ (b-c in namespace a, and c in namespace a-b).              *)
(***************************************************************************)
EXTENDS Support

CONSTANTS p1, p2, p3

SharedKey == [m \in {p1, p2, p3} |-> IF m = p1 THEN "other-b-c" ELSE "a-b-c"]
SharedGauge == [m \in {p1, p2, p3} |-> IF m = p3 THEN "c" ELSE "b_c"]
=============================================================================
