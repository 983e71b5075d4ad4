-------------------------------- MODULE Decks --------------------------------
(***************************************************************************)
(* The deck of one duelist through a match.  The rules are those the host  *)
(* asked for, after RoomHosting has put them into bounds.  While the room  *)
(* waits the duelist sends decks and gets ready if CheckDeck finds nothing *)
(* wrong; between the duels of a match the cards may be exchanged with     *)
(* those of the side deck, and Sidedecking has its own way to see that     *)
(* nothing else was changed.                                               *)
(*                                                                         *)
(* The order of cards in a deck tells nothing apart, so piles are bags: a  *)
(* function from codes to how often they are there.                        *)
(***************************************************************************)
EXTENDS Integers, FiniteSets

CONSTANTS
    Codes,          \* codes that clients send
    Card,           \* the card database: type, alias and scope of known codes
    Requests,       \* what hosts ask for
    MainLists,      \* lists of cards that clients send, as bags
    SideLists

Bounds == [min : Nat, max : Nat]

\* In the database no card is an alias of an alias.
ASSUME DecksAssumption ==
    /\ Codes \subseteq Nat /\ IsFiniteSet(Codes)
    /\ MainLists \cup SideLists \subseteq [Codes -> Nat]
    /\ \A hi \in Requests : /\ {"main", "extra", "side"} \subseteq DOMAIN hi
                            /\ {hi.main, hi.extra, hi.side} \subseteq Bounds
    /\ \A c \in DOMAIN Card : c # 0 /\
        LET a == Card[c].alias IN a # 0 /\ a \in DOMAIN Card => Card[a].alias = 0

VARIABLES
    rules,          \* the room's HostInfo and its banlist
    stage,          \* "hosting", "waiting", "duelling" or "sidedecking"
    originalDeck,
    currentDeck,
    ready,
    checked,        \* the original deck is one that CheckDeck has seen
    overread        \* std::equal has read past the end of a map

decksVars == <<rules, stage, originalDeck, currentDeck, ready, checked, overread>>

NoCards == [c \in Codes |-> 0]
Count(pile, Is(_)) == Cardinality(UNION {{c} \X (1 .. pile[c]) : c \in {d \in Codes : Is(d)}})
Size(pile) == Count(pile, LAMBDA c : TRUE)
NoDeck == [main |-> NoCards, extra |-> NoCards, side |-> NoCards, error |-> -1]

-----------------------------------------------------------------------------
(***************************************************************************)
(* The options of a room.                                                  *)
(***************************************************************************)
MaxLimit == 999

Least(a, b) == IF a < b THEN a ELSE b
Most(a, b) == IF a > b THEN a ELSE b

FixLimit(lim) ==
    LET max == Least(lim.max, MaxLimit) IN [min |-> Least(lim.min, max), max |-> max]

FixOptions(hi) ==
    LET t0 == Most(1, Least(hi.t0Count, 3))
        t1 == Most(1, Least(hi.t1Count, 3))
        relay == hi.relay /\ ~ (t0 = 1 /\ t1 = 1)
        lp == IF (t0 = 1 /\ t1 = 1) \/ relay THEN 8000 ELSE Most(t0, t1) * 8000
    IN [hi EXCEPT !.t0Count = t0, !.t1Count = t1,
                  !.bestOf = Most(@, 1),
                  !.main = FixLimit(@), !.extra = FixLimit(@), !.side = FixLimit(@),
                  !.relay = relay,
                  !.startingLP = IF @ = 0 THEN lp ELSE @]

-----------------------------------------------------------------------------
(***************************************************************************)
(* The card database.  A code it does not know has no properties at all.   *)
(***************************************************************************)
Known(c) == c \in DOMAIN Card
Type(c) == IF Known(c) THEN Card[c].type ELSE {}
Scope(c) == IF Known(c) THEN Card[c].scope ELSE {}
Alias(c) == IF Known(c) THEN Card[c].alias ELSE 0

IsExtraDeckCard(c) ==
    \/ Type(c) \cap {"fusion", "synchro", "xyz"} # {}
    \/ {"link", "monster"} \subseteq Type(c)
    \/ {"ritual", "monster"} \subseteq Type(c) /\ rules.extraRitual

-----------------------------------------------------------------------------
(***************************************************************************)
(* Context::LoadDeck.                                                      *)
(***************************************************************************)
Sent(pile) == {c \in Codes : pile[c] > 0}
Kept(pile, cards) ==
    [c \in Codes |-> IF Known(c) /\ "token" \notin Type(c) /\ c \in cards THEN pile[c] ELSE 0]

\* The error is the last unknown code, in the order in which the cards came;
\* when that is 0 there is no error.
Errors(main, side) ==
    LET unknown(pile) == {c \in Sent(pile) : ~ Known(c)}
    IN CASE unknown(side) # {} -> unknown(side)
         [] unknown(main) # {} -> unknown(main)
         [] OTHER -> {0}

LoadDeck(main, side, err) ==
    LET extra == {c \in Codes : IsExtraDeckCard(c)}
    IN  [main |-> Kept(main, Codes \ extra),
         extra |-> Kept(main, extra),
         side |-> Kept(side, Codes),
         error |-> err]

GetCodeMap(deck) == [c \in Codes |-> deck.main[c] + deck.extra[c] + deck.side[c]]

SkillsIn(deck) == Count(deck.main, LAMBDA c : "skill" \in Type(c))
CardTypes == {"monster", "spell", "trap"}
IsLegend(c, type) == "legend" \in Scope(c) /\ type \in Type(c)
LegendsIn(deck, type) ==
    Count(deck.main, LAMBDA c : IsLegend(c, type)) + Count(deck.extra, LAMBDA c : IsLegend(c, type))

-----------------------------------------------------------------------------
(***************************************************************************)
(* Context::CheckDeck, reduced to whether it finds an error.               *)
(***************************************************************************)
InBounds(lim, size) == lim.min <= size /\ size <= lim.max

SizesFit(deck) ==
    /\ InBounds(rules.main, Size(deck.main) - SkillsIn(deck))
    /\ InBounds(rules.extra, Size(deck.extra))
    /\ InBounds(rules.side, Size(deck.side))

RealName(c) == IF Alias(c) # 0 THEN Alias(c) ELSE c

\* How many cards there are of the same name.
TotalCount(map, c) == Count(map, LAMBDA d : RealName(d) = RealName(c))

ScopeAllowed(c) ==
    CASE rules.allowed = "ocg" -> Scope(c) \subseteq {"ocg", "tcg"} /\ "ocg" \in Scope(c)
      [] rules.allowed = "tcg" -> Scope(c) \subseteq {"ocg", "tcg"} /\ "tcg" \in Scope(c)
      [] rules.allowed = "ocg_tcg" -> Scope(c) \subseteq {"ocg", "tcg"}
      [] rules.allowed = "prerelease" ->
            Scope(c) \subseteq {"ocg", "tcg", "prerelease"} /\ Scope(c) # {}
      [] OTHER -> TRUE

ID_MAX_DISTANCE_HALF == 10
IsInArtworkRange(c) == Alias(c) # 0 /\ Alias(c) - c \in -9 .. 9

\* A card that is not listed itself is listed with its alias, on a whitelist
\* only if it is the same card in another artwork.
Banlisted(c, total) ==
    LET dict == rules.banlist.dict
        listed == {c} \cap DOMAIN dict
        asAlias == IF ~ rules.banlist.whitelist \/ IsInArtworkRange(c)
                   THEN {Alias(c)} \cap DOMAIN dict ELSE {}
        entry == IF listed # {} THEN listed ELSE asAlias
    IN IF entry = {} THEN rules.banlist.whitelist ELSE \E e \in entry : total > dict[e]

CheckDeck(deck) ==
    LET map == GetCodeMap(deck)
    IN /\ deck.error = 0
       /\ SizesFit(deck)
       /\ \/ rules.dontCheckDeckContent
          \/ /\ SkillsIn(deck) <= 1
             /\ \A type \in CardTypes : LegendsIn(deck, type) <= 1
             /\ \A c \in Sent(map) :
                    /\ Type(c) \cap rules.forb = {}
                    /\ TotalCount(map, c) <= 3
                    /\ ScopeAllowed(c)
                    /\ ~ Banlisted(c, TotalCount(map, c))

-----------------------------------------------------------------------------
(***************************************************************************)
(* Sidedecking.                                                            *)
(***************************************************************************)
\* std::equal goes through the entries of the first map, in the order of codes.
\* When the second has fewer it reads past its end, where anything may be.
Entry(map, i) ==
    LET codes == {c \in Codes : map[c] > 0}
        c == CHOOSE d \in codes : Cardinality({e \in codes : e <= d}) = i
    IN <<c, map[c]>>

Entries(map) == Cardinality(Sent(map))

EqualSoFar(ogMap, sideMap) ==
    \A i \in 1 .. Least(Entries(ogMap), Entries(sideMap)) : Entry(ogMap, i) = Entry(sideMap, i)

Overreads(og, side) ==
    EqualSoFar(GetCodeMap(og), GetCodeMap(side))
        /\ Entries(GetCodeMap(side)) < Entries(GetCodeMap(og))

SpecialsFit(og, side) ==
    /\ \A type \in CardTypes : LegendsIn(side, type) <= Most(LegendsIn(og, type), 1)
    /\ SkillsIn(side) <= Most(SkillsIn(og), 1)

\* Mutation: a skill counts like any other card of the main deck.
WithSkills(og, side) ==
    /\ Size(og.main) = Size(side.main)
    /\ Size(og.extra) = Size(side.extra)

SameSizes(og, side) ==
    /\ Size(og.main) - SkillsIn(og) = Size(side.main) - SkillsIn(side)
    /\ Size(og.extra) = Size(side.extra)

\* Mutation: only the number of different cards is compared.
SameNumber(og, side) == Entries(GetCodeMap(og)) = Entries(GetCodeMap(side))

SameCodes(og, side) == EqualSoFar(GetCodeMap(og), GetCodeMap(side))

SideDeckValid(og, side) ==
    SameSizes(og, side) /\ SpecialsFit(og, side) /\ SameCodes(og, side)

-----------------------------------------------------------------------------
CreateGame(hostInfo) ==
    /\ stage = "hosting" /\ stage' = "waiting"
    /\ rules' = FixOptions(hostInfo)
    /\ UNCHANGED <<originalDeck, currentDeck, ready, checked, overread>>

\* The deck of a duelist that is ready is replaced, too.
UpdateDeck(main, side) ==
    /\ stage = "waiting"
    /\ \E err \in Errors(main, side) : originalDeck' = LoadDeck(main, side, err)
    /\ checked' = FALSE
    /\ UNCHANGED <<rules, stage, currentDeck, ready, overread>>

Ready(value) ==
    /\ stage = "waiting" /\ ready # value
    /\ ready' = (value /\ originalDeck # NoDeck /\ CheckDeck(originalDeck))
    /\ checked' = (checked \/ ready')
    /\ UNCHANGED <<rules, stage, originalDeck, currentDeck, overread>>

TryStart ==
    /\ stage = "waiting" /\ ready /\ stage' = "duelling"
    /\ UNCHANGED <<rules, originalDeck, currentDeck, ready, checked, overread>>

\* A duel of a match ends, and another follows.
EndDuel ==
    /\ stage = "duelling" /\ rules.bestOf > 1 /\ stage' = "sidedecking"
    /\ UNCHANGED <<rules, originalDeck, currentDeck, ready, checked, overread>>

\* What LoadDeck has to say of unknown codes is not looked at.
Sidedeck(main, side) ==
    LET sideDeck == LoadDeck(main, side, 0)
    IN /\ stage = "sidedecking" /\ SideDeckValid(originalDeck, sideDeck)
       /\ stage' = "duelling" /\ currentDeck' = sideDeck
       /\ overread' = Overreads(originalDeck, sideDeck)
       /\ UNCHANGED <<rules, originalDeck, ready, checked>>

-----------------------------------------------------------------------------
DecksInit ==
    /\ rules \in Requests /\ stage = "hosting"
    /\ originalDeck = NoDeck /\ currentDeck = NoDeck
    /\ ready = FALSE /\ checked = FALSE /\ overread = FALSE

DecksNext ==
    \/ CreateGame(rules)
    \/ \E main \in MainLists, side \in SideLists : UpdateDeck(main, side) \/ Sidedeck(main, side)
    \/ \E value \in BOOLEAN : Ready(value)
    \/ TryStart \/ EndDuel

DecksSpec == DecksInit /\ [][DecksNext]_decksVars

-----------------------------------------------------------------------------
Sided == currentDeck # NoDeck /\ ~ overread
Grown == Size(GetCodeMap(currentDeck)) > Size(GetCodeMap(originalDeck))

\* Whatever was exchanged, every card of the original deck is in the deck that
\* is played or in its side deck, unless the comparison read past its end.
NoCardLost == Sided =>
    \A c \in Codes : GetCodeMap(currentDeck)[c] >= GetCodeMap(originalDeck)[c]

\* Sidedecking asks nothing of CheckDeck, and still what it accepts is a deck
\* that CheckDeck would accept, if the original one was checked and no card was
\* added, but for one thing: a skill that leaves the main deck may overfill the side
\* deck, and one that enters it may leave too few cards there.
SidedDeckLegal == Sided /\ checked /\ ~ Grown =>
    \/ CheckDeck(currentDeck)
    \/ /\ SkillsIn(currentDeck) < SkillsIn(originalDeck)
       /\ Size(currentDeck.side) > rules.side.max
    \/ /\ SkillsIn(currentDeck) > SkillsIn(originalDeck)
       /\ Size(currentDeck.side) < rules.side.min

\* Sidedecking.cpp says that a side deck is valid if "the number of cards in
\* each deck is equal to the original's" and "the sum of card codes is equal to
\* the original's".
SameCards == Sided => GetCodeMap(currentDeck) = GetCodeMap(originalDeck)

=============================================================================
