------------------------------ MODULE MCSticky ------------------------------
(* An instance of Sticky for TLC.                                           *)
EXTENDS Sticky
=============================================================================
