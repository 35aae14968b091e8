------------------------------ MODULE MCFileLog ------------------------------
(* The instances of FileLog that TLC checks; the configurations choose the   *)
(* replicas, the calls and the bounds.                                       *)
EXTENDS FileLog, TLC

Symmetry == Permutations(Writers) \cup Permutations(Data)
=============================================================================
