----------------------------- MODULE MCRoomView -----------------------------
(***************************************************************************)
(* Instances of RoomView, and through it of Room, for TLC.                 *)
(***************************************************************************)
EXTENDS RoomView, TLC

CONSTANTS ann, bob, cyd

OwnAddress == [x \in Clients |-> x]

\* bob and cyd connect from one address.
SharedAddress == [x \in Clients |-> IF x = cyd THEN bob ELSE x]

\* Liveness is checked without symmetry.  To keep it small the decks are valid
\* and stay so: the room's progress does not depend on them.
ValidInit == ViewInit /\ \A c \in Clients : deckOk[c]
ValidNext == Handlers \/ \E c \in Clients : ViewUpdateDeck(c, TRUE)
LiveSpec == ValidInit /\ [][ValidNext]_viewVars /\ Fairness

Symmetry == Permutations(Clients)
=============================================================================
