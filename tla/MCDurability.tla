----------------------------- MODULE MCDurability -----------------------------
EXTENDS Durability

CONSTANTS o1, o2, d1, d2

\* o1 writes into both directories; o2 deletes from the second
MCDirsOf == [o \in Ob |-> IF o = o1 THEN {d1, d2} ELSE {d2}]
=============================================================================
