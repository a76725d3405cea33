------------------------------ MODULE MCRace ------------------------------
(* Small instances of Race for TLC.                                        *)
EXTENDS Race, TLC

\* Races are interchangeable; places are ordered.
Symmetric == Permutations(Races)
=============================================================================
