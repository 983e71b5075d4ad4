---------------------------- MODULE RoomPromise ----------------------------
(***************************************************************************)
(* What a room promises to those who watch it from outside (the lobby      *)
(* listing, the players): it gathers people, plays one match with a fixed  *)
(* line-up, and ends.  A room never goes back from playing to gathering,   *)
(* nobody enters or leaves the line-up of a running match, a duel scores   *)
(* for one team and never takes a win back, and a won match is over.       *)
(***************************************************************************)
EXTENDS Integers

CONSTANTS
    Players,    \* who may play
    Nobody,     \* an empty seat
    Places,     \* the seats, pairs of a team in {0, 1} and a slot
    WinsNeeded  \* the score that decides a match

VARIABLES
    phase,      \* "gathering", "playing" or "over"
    lineup,     \* who plays where, while a match is played
    score       \* duels won by each team

pvars == <<phase, lineup, score>>

NoLineup == [p \in Places |-> Nobody]

\* Everybody in the line-up plays once, and both teams have a first player.
Legal(l) ==
    /\ l \in [Places -> Players \cup {Nobody}]
    /\ l[<<0, 0>>] # Nobody /\ l[<<1, 0>>] # Nobody
    /\ \A p, q \in Places : l[p] = l[q] /\ l[p] # Nobody => p = q

PInit ==
    /\ phase = "gathering"
    /\ lineup = NoLineup
    /\ score = [t \in {0, 1} |-> 0]

Begin ==
    /\ phase = "gathering" /\ phase' = "playing"
    /\ Legal(lineup')
    /\ UNCHANGED score

\* A team wins a duel, or the whole match by a match kill.
Score(t) ==
    /\ phase = "playing"
    /\ \E points \in {1, WinsNeeded} :
         score' = [score EXCEPT ![t] = score[t] + points]
    /\ IF score'[t] >= WinsNeeded
         THEN phase' = "over" /\ lineup' = NoLineup
         ELSE UNCHANGED <<phase, lineup>>

\* The room is closed, a player leaves, or somebody wants no rematch.
GiveUp ==
    /\ phase # "over" /\ phase' = "over"
    /\ lineup' = NoLineup
    /\ UNCHANGED score

PNext == Begin \/ (\E t \in {0, 1} : Score(t)) \/ GiveUp

PSpec == PInit /\ [][PNext]_pvars
=============================================================================
