---------------------------- MODULE MCAppCreation ----------------------------
(***************************************************************************)
(* Instances of AppCreation for TLC: the pods and their annotations.       *)
(***************************************************************************)
EXTENDS AppCreation

CONSTANTS p1, p2, w1, w2, v1, o1, o2

Pod(w, v, owners, hasApp, byParent) ==
    [workload |-> w, version |-> v, owners |-> owners, hasApp |-> hasApp,
     byParent |-> byParent]

\* Two workloads of one app.
TwoWorkloads ==
    [p \in {p1, p2} |->
        IF p = p1 THEN Pod(w1, v1, {o1, o2}, FALSE, FALSE) ELSE Pod(w2, v1, {o1}, TRUE, TRUE)]
=============================================================================
