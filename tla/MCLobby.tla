------------------------------ MODULE MCLobby ------------------------------
(***************************************************************************)
(* Instances of Lobby for TLC.                                             *)
(***************************************************************************)
EXTENDS Lobby, TLC

CONSTANTS k1, k2, k3

\* k1 and k2 come from one address, k3 from another.
TwoAddresses == [c \in Conns |-> IF c = k3 THEN k3 ELSE k1]

Unlimited == -1

Symmetry == Permutations(Rooms) \cup Permutations({k1, k2})
=============================================================================
