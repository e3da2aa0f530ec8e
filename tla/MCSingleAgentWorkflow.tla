------------------------ MODULE MCSingleAgentWorkflow ------------------------
(* Model-checking instances of AgentRequest: two searches with the   *)
(* same fingerprint, a document read, a call with invalid arguments and an  *)
(* unknown tool; limits on both sides of each other.                        *)
EXTENDS AgentRequest

SomeFingerprint == [c \in Valid |-> IF c = "read_document" THEN "f2" ELSE "f1"]

(* One call reads a document, the others search. *)
SomeReturns ==
    [c \in Valid |-> IF c = "read_document" THEN {{}, {"d1"}} ELSE SUBSET {"k1", "k2"}]

(* The smallest recursion limit the settings accept for each step limit, and*)
(* with the override also one that is too small.                            *)
TightLimits ==
    {[agentic |-> TRUE, steps |-> s, tools |-> t, recursion |-> 2 * s + 3] :
        s \in 1..3, t \in 1..3}

UnmatchedLimits == {[agentic |-> FALSE, steps |-> 3, tools |-> 3, recursion |-> 7]}

AllLimits == TightLimits \cup UnmatchedLimits
=============================================================================
