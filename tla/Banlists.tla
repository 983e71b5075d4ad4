------------------------------ MODULE Banlists -------------------------------
(***************************************************************************)
(* Reading the lists of forbidden and limited cards.  A file is a sequence *)
(* of lines of some kinds: the head of a list, "$whitelist", a card with   *)
(* its count, a line that cannot be read, and others, which are skipped.   *)
(*                                                                         *)
(* Salt mixes a code and a count into a hash with exclusive or, by shifts  *)
(* that depend on the count.  A hash is taken here for the set of cards    *)
(* and counts that went into it an odd number of times: like the real one  *)
(* it does not tell in which order they came, two of the same cancel each  *)
(* other, and without any it is BANLIST_HASH_MAGIC.  That different sets   *)
(* may have one hash is left out.                                          *)
(***************************************************************************)
EXTENDS Naturals, Sequences, FiniteSets, FiniteSetsExt

BANLIST_HASH_MAGIC == {}
Salt(hash, code, count) == SymDiff(hash, {<<code, count>>})

\* What is read of the list at hand, and the lists before it by their hashes.
NewList == [hash |-> BANLIST_HASH_MAGIC, whitelist |-> FALSE, dict |-> [code \in {} |-> 0]]
Reading(lists) == [list |-> NewList, lists |-> lists, failed |-> FALSE]

\* emplace keeps a list that has the hash already.
ConditionallyAdd(list, lists) ==
    IF list.hash = BANLIST_HASH_MAGIC \/ list.hash \in DOMAIN lists THEN lists
    ELSE [h \in DOMAIN lists \cup {list.hash} |->
            IF h \in DOMAIN lists THEN lists[h]
            ELSE [whitelist |-> list.whitelist, dict |-> list.dict]]

\* Mutation: the next list is a whitelist too.
HeadKeepsKind(r) ==
    [r EXCEPT !.lists = ConditionallyAdd(r.list, @),
              !.list = [NewList EXCEPT !.whitelist = r.list.whitelist]]

NextList(r) ==
    [r EXCEPT !.lists = ConditionallyAdd(r.list, @), !.list = NewList]

AddCard(list, code, count) ==
    [list EXCEPT !.hash = Salt(list.hash, code, count),
                 !.dict = [c \in DOMAIN list.dict \cup {code} |->
                            IF c = code THEN count ELSE list.dict[c]]]

\* An exception ends the reading, and the lists before the one at hand stay.
ReadLine(r, line) ==
    IF r.failed THEN r
    ELSE CASE line.kind = "$whitelist"  -> [r EXCEPT !.list.whitelist = TRUE]
           [] line.kind = "!"           -> NextList(r)
           [] line.kind = "card"        -> [r EXCEPT !.list = AddCard(@, line.code, line.count)]
           [] line.kind = "unreadable"  -> [r EXCEPT !.failed = TRUE]
           [] OTHER                     -> r

\* The lists of a file, added to those of the files before it.
ParseForBanlists(lines, lists) ==
    LET read[i \in 0..Len(lines)] ==
            IF i = 0 THEN Reading(lists) ELSE ReadLine(read[i - 1], lines[i])
        r == read[Len(lines)]
    IN  IF r.failed THEN r.lists ELSE ConditionallyAdd(r.list, r.lists)

-----------------------------------------------------------------------------
(***************************************************************************)
(* What a file says, looked at as a whole.  A list reaches from one head   *)
(* to the next, or to the end, as far as the file can be read.             *)
(***************************************************************************)
Lines(lines, kind) == {i \in DOMAIN lines : lines[i].kind = kind}
ListEnds(lines) ==
    {e \in Lines(lines, "!") \cup {Len(lines) + 1} : \A i \in Lines(lines, "unreadable") : e < i}

\* The lines of the list that ends before line e.
Own(lines, e, kind) ==
    {i \in Lines(lines, kind) : i < e /\ \A k \in Lines(lines, "!") : k < e => k < i}

CardSaid(line) == <<line.code, line.count>>
Times(lines, e, entry) == Cardinality({i \in Own(lines, e, "card") : CardSaid(lines[i]) = entry})
HashOf(lines, e) ==
    {entry \in {CardSaid(lines[i]) : i \in Own(lines, e, "card")} : Times(lines, e, entry) % 2 = 1}
CodesOf(lines, e) == {lines[i].code : i \in Own(lines, e, "card")}
IsLast(lines, e, i) ==
    i \in Own(lines, e, "card")
    /\ \A k \in Own(lines, e, "card") : lines[k].code = lines[i].code => k <= i

\* What the lines say that end before line e: for each code the last count, and
\* whether the list is a whitelist.
HasCounts(dict, lines, e) ==
    /\ DOMAIN dict = CodesOf(lines, e)
    /\ \A i \in DOMAIN lines : IsLast(lines, e, i) => dict[lines[i].code] = lines[i].count
IsSaid(list, lines, e) ==
    /\ list.whitelist = (Own(lines, e, "$whitelist") # {})
    /\ HasCounts(list.dict, lines, e)

\* The lists that end at some lines are added to those there were, unless one has its
\* hash already or comes before it, and nothing else.
Added(parsed, lists, lines, ends) ==
    LET listed == {e \in ends : HashOf(lines, e) # BANLIST_HASH_MAGIC}
    IN  /\ DOMAIN parsed = DOMAIN lists \cup {HashOf(lines, e) : e \in listed}
        /\ \A h \in DOMAIN lists : parsed[h] = lists[h]
        /\ \A e \in listed :
            \/ HashOf(lines, e) \in DOMAIN lists
            \/ \E k \in listed : k < e /\ HashOf(lines, k) = HashOf(lines, e)
            \/ IsSaid(parsed[HashOf(lines, e)], lines, e)

\* A list of a file is not lost, or changed, by what is wrong in another one after it.
AddsLists(lines, lists) ==
    Added(ParseForBanlists(lines, lists), lists, lines, ListEnds(lines))
=============================================================================
