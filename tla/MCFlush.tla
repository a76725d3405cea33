------------------------------ MODULE MCFlush ------------------------------
(* A small instance of Flush for TLC.                                       *)
EXTENDS Flush
=============================================================================
