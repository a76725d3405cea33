------------------------------- MODULE MCTuner -------------------------------
(* Instances of Tuner for TLC.                                              *)
EXTENDS Tuner, TLC

Symmetric == Permutations(Loops)
=============================================================================
