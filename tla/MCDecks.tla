------------------------------- MODULE MCDecks -------------------------------
(***************************************************************************)
(* Instances of Decks for TLC: a database of seven cards, and everything a *)
(* client may send of a few of them.                                       *)
(***************************************************************************)
EXTENDS Decks, Functions, TLC

\* 10: a monster, 11 and 30: other versions of it, in and out of artwork range,
\* 40: a fusion monster, 50: a skill, 60: a legend, 70: a token.
SmallCard ==
    10 :> [type |-> {"monster"}, alias |-> 0, scope |-> {"ocg", "tcg"}]
    @@ 11 :> [type |-> {"monster"}, alias |-> 10, scope |-> {"ocg"}]
    @@ 30 :> [type |-> {"monster"}, alias |-> 10, scope |-> {"ocg", "tcg"}]
    @@ 40 :> [type |-> {"monster", "fusion"}, alias |-> 0, scope |-> {"ocg", "prerelease"}]
    @@ 50 :> [type |-> {"spell", "skill"}, alias |-> 0, scope |-> {"ocg", "tcg"}]
    @@ 60 :> [type |-> {"monster"}, alias |-> 0, scope |-> {"rush", "legend"}]
    @@ 70 :> [type |-> {"monster", "token"}, alias |-> 0, scope |-> {"ocg", "tcg"}]

Limit(min, max) == [min |-> min, max |-> max]

Match == [t0Count |-> 1, t1Count |-> 0, bestOf |-> 3, relay |-> TRUE, startingLP |-> 0,
          main |-> Limit(1, 3), extra |-> Limit(0, 1), side |-> Limit(0, 1),
          extraRitual |-> FALSE, dontCheckDeckContent |-> FALSE, forb |-> {},
          allowed |-> "any", banlist |-> [whitelist |-> FALSE, dict |-> <<>>]]

\* Forbidden types, a list, a whitelist, and a room that checks sizes only.
FourRooms == {
    Match,
    [Match EXCEPT !.allowed = "ocg", !.banlist.dict = 10 :> 2, !.side = Limit(1, 1000)],
    [Match EXCEPT !.allowed = "prerelease", !.forb = {"skill"},
                  !.banlist = [whitelist |-> TRUE, dict |-> 10 :> 1 @@ 40 :> 1 @@ 30 :> 3]],
    [Match EXCEPT !.dontCheckDeckContent = TRUE, !.t0Count = 3, !.bestOf = 2]}

Bag(counts) == [c \in Codes |-> IF c \in DOMAIN counts THEN counts[c] ELSE 0]
SumOf(f) == FoldFunction(+, 0, f)
BagsUpTo(n, codes) == {Bag(counts) : counts \in {f \in [codes -> 0 .. n] : SumOf(f) <= n}}

\* Also four of a kind under two names, unknown cards and a token.
SomeMains == BagsUpTo(2, {10, 30, 50, 60})
    \cup {Bag(counts) : counts \in {
            10 :> 1 @@ 11 :> 1, 10 :> 1 @@ 40 :> 1, 11 :> 1 @@ 40 :> 1, 10 :> 2 @@ 50 :> 1,
            10 :> 1 @@ 30 :> 1 @@ 50 :> 1, 10 :> 3 @@ 11 :> 1, 0 :> 1 @@ 10 :> 1,
            5 :> 1 @@ 10 :> 1, 10 :> 1 @@ 70 :> 2}}
SomeSides == BagsUpTo(1, {5, 10, 30, 50, 70})
=============================================================================
