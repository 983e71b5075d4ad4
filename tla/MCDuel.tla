------------------------------- MODULE MCDuel -------------------------------
(***************************************************************************)
(* The instance of Duel for TLC: a tag team of two against one duelist.    *)
(***************************************************************************)
EXTENDS Duel

TwoOnOne == [t \in Teams |-> 2 - t]
=============================================================================
