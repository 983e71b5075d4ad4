------------------------------ MODULE MCWrapper ------------------------------
(***************************************************************************)
(* The instance of Wrapper for TLC: two good libraries and one that lacks  *)
(* a function.                                                             *)
(***************************************************************************)
EXTENDS Wrapper, TLC

CONSTANTS c1, c2, bad, f, g

SomeExports == (c1 :> {f, g}) @@ (c2 :> {f, g}) @@ (bad :> {f})

Symmetry == Permutations(Rooms) \cup Permutations(Addresses) \cup Permutations(Wrappers)
=============================================================================
