---------------------------- MODULE MCWriterLease ----------------------------
(***************************************************************************)
(* Instances of WriterLease for TLC.                                       *)
(***************************************************************************)
EXTENDS WriterLease

CONSTANTS d1, d2, d3
=============================================================================
