---------------------------- MODULE MCAppDelivery ----------------------------
(***************************************************************************)
(* An app of one workload that is restarted: two generations of the same   *)
(* version.                                                                *)
(***************************************************************************)
EXTENDS AppDelivery

CONSTANTS v1, v2, none, w1

Restarted == <<v1, v1>>
BothW1    == <<{w1}, {w1}>>
=============================================================================
