-------------------------- MODULE MCDeferredMessages -------------------------
EXTENDS DeferredMessages

CONSTANTS c1, c2, c3, c4, c5, k1, k2, k3, k4

\* c2 retries the create c1; c3 is another create; c4 edits; c5 clears
MCKeyOf == [c \in Call |-> CASE c \in {c1, c2} -> k1 [] c = c3 -> k2
                                [] c = c4 -> k3 [] OTHER -> k4]
MCActionOf == [c \in Call |-> CASE c = c4 -> "replace" [] c = c5 -> "clear"
                                   [] OTHER -> "create"]
=============================================================================
