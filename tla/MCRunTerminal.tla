---------------------------- MODULE MCRunTerminal ----------------------------
(* One run, with and without Delegate children.                             *)
EXTENDS RunTerminal
==============================================================================
