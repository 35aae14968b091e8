--------------------------- MODULE MCSpaceService ---------------------------
(* The instances of SpaceService that TLC checks: a server of one replica,   *)
(* or of two that share the storage.                                         *)
EXTENDS SpaceService, TLC

CONSTANTS r1, r2, q1, q2, q3
OneReplica == [q \in Requests |-> r1]
TwoReplicas == [q \in Requests |-> IF q = q3 THEN r2 ELSE r1]
Symmetry == Permutations(Requests) \cup Permutations(Data)
=============================================================================
