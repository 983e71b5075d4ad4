------------------------------ MODULE MCUpdates ------------------------------
(***************************************************************************)
(* The instance of Updates for TLC: one repository with databases, scripts *)
(* and banlists, another with databases, scripts and the core.             *)
(***************************************************************************)
EXTENDS Updates

B == INSTANCE Banlists

TwoRepos ==
    [p \in Providers |-> CASE p \in {"data", "script"} -> <<"content", "bin">>
                           [] p = "core" -> <<"bin">>
                           [] p = "banlist" -> <<"content">>]

\* Cores: 1 is good, 3 fails its test, 4 cannot be loaded.
AllContents ==
    [p \in Providers |-> CASE p \in {"data", "script"} -> 1..2
                           [] p = "core" -> {1, 3, 4}
                           [] p = "banlist" -> {1}]

\* Both databases have the same card; the second content cannot be opened.
SameCard == [content \in 1..2 |-> {"card"}]
ByPath == <<"bin", "content">>

\* Both scripts have the same name.
OneName == [r \in {"content", "bin"} |-> "c1.lua"]

\* There is one banlist.
OneHash == [content \in {1} |-> "hash"]

-----------------------------------------------------------------------------
(***************************************************************************)
(* Files of banlists of up to five lines.                                  *)
(***************************************************************************)
Line(kind) == [kind |-> kind]
Kinds == {Line("!"), Line("$whitelist"), Line("unreadable")}
         \cup [kind : {"card"}, code : {1}, count : {0, 1}]
Another == <<[kind |-> "card", code |-> 1, count |-> 1]>>
Files == UNION {[1..n -> Kinds] : n \in 0..5}

FilesParsed ==
    \A lines \in Files :
        /\ B!AddsLists(lines, <<>>)
        /\ B!AddsLists(Another, B!ParseForBanlists(lines, <<>>))

\* Once banlists are loaded: whatever is in the files, a list has the cards, the
\* counts and the kind that its own lines say, and a list is not lost, or changed, by
\* what is wrong in another one after it (ParseForBanlists, whose state outlives lists
\* and which an exception may leave at any line).
BanlistsParsed == banlists # <<>> => FilesParsed
=============================================================================
