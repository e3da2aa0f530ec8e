------------------------- MODULE MCMultiAgentWorkflow -------------------------
(* A model-checking instance of MultiAgentWorkflow: a search, a document    *)
(* read, a registered tool the permissions leave out (as in the tests of the*)
(* permissions) and an unknown one; a brief may cite observed sources,      *)
(* unobserved ones and both.                                                *)
EXTENDS MultiAgentWorkflow

SomeFingerprint ==
    [c \in Valid |-> CASE c = "search" -> "f1" [] c = "read" -> "f2" [] OTHER -> "f3"]

SomeReturns ==
    [c \in Valid |-> CASE c = "search" -> {{}, {"k1"}, {"k1", "k2"}}
                       [] c = "read" -> {{}, {"d2"}}
                       [] OTHER -> {{"k3"}}]

SomeDocumentOf == [c \in Chunks |-> IF c = "k3" THEN "d2" ELSE "d1"]

SomeItems ==
    {[documents |-> {"d1"}, chunks |-> {"k1", "k3"}],
     [documents |-> {"d2"}, chunks |-> {}],
     [documents |-> {}, chunks |-> {"k2"}]}

SomeLimits == [steps : {1, 2}, tools : {1, 2}, failures : 0..2]
=============================================================================
