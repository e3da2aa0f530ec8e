------------------------- MODULE MCReviewTransactions -------------------------
(* Model-checking instances of ReviewTransactions.                          *)
EXTENDS ReviewTransactions, TLC

(* Two deployments: one with the gate off, one with a revision limit.       *)
GateOnOff == {[gate |-> TRUE, max |-> 1], [gate |-> FALSE, max |-> 1]}

(* One deployment that never changes.                                       *)
OneDeployment == {[gate |-> TRUE, max |-> 1]}

(* A deployment lowers MAX_HUMAN_REVISIONS.                                 *)
LoweredLimit == {[gate |-> TRUE, max |-> 1], [gate |-> TRUE, max |-> 0]}

Symmetry == Permutations(Requests) \cup Permutations(Candidates)
=============================================================================
