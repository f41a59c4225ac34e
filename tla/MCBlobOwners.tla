---------------------------- MODULE MCBlobOwners ----------------------------
(* A managed import, a draft that holds it, the command the draft becomes,  *)
(* and bodies with the same bytes.                                          *)
EXTENDS BlobOwners

CONSTANTS draft, command

MCFrom == [h \in Holder |-> IF h = command /\ draft \in Holder THEN {draft} ELSE {}]

=============================================================================
