----------------------------- MODULE CardsProofs -----------------------------
(***************************************************************************)
(* Theorems about where cards and cores come from, and about what becomes  *)
(* of a deck: Updates, for any repositories, pushes and rooms, Banlists,   *)
(* for any file, and Decks, for any cards, rules and lists.                *)
(***************************************************************************)
EXTENDS Updates, Banlists, Decks,
        SequenceTheorems, FiniteSetTheorems, WellFoundedInduction, TLAPS

-----------------------------------------------------------------------------
(* Updates *)

HookStages == {"none", "open", "fetch", "reset", "answer"}
Tree == [Providers -> Nat]
Calls == [to : Providers, repo : Repos,
          removed : SUBSET Providers, added : SUBSET Providers]

UTypes ==
    /\ process \in {"down", "listening", "starting", "up"}
    /\ remote \in [Repos -> Tree] /\ head \in [Repos -> Tree] /\ fetchHead \in [Repos -> Tree]
    /\ announced \in [Repos -> BOOLEAN] /\ missed \in [Repos -> BOOLEAN]
    /\ hook \in [Repos -> HookStages]
    /\ calls \in Seq(Calls)
    /\ shouldTest \in BOOLEAN /\ escaped \in BOOLEAN /\ loadPerCall \in BOOLEAN
    /\ room = [x \in Rooms |-> room[x]]
    /\ \A x \in Rooms : DOMAIN room[x] = {"at", "db", "scripts", "core"}

\* One thread does it all: while a repository is updated nothing else is, and no
\* call of an observer is left when it is fetched and reset.
Busy(r) == hook[r] \in {"fetch", "reset", "answer"}
OneAtATime ==
    /\ process # "up" => \A r \in Repos : hook[r] = "none"
    /\ \A r \in Repos : hook[r] \in {"fetch", "reset"} => calls = <<>>
    /\ \A r, q \in Repos : Busy(r) /\ Busy(q) => r = q

\* The calls that are left tell of the files that are there, and the last is the core's.
CallsTrue ==
    \A i \in DOMAIN calls :
        /\ calls[i].repo \in Range(Observed[calls[i].to])
        /\ calls[i].added \subseteq FilesOf(head[calls[i].repo])
        /\ calls[i].removed \cap FilesOf(head[calls[i].repo]) \subseteq calls[i].added
        /\ process = "up" /\ calls[i].to = "core" => i = Len(calls)

Serving == process \in {"starting", "up"}

\* Observer p is still to be told of its file in r.
Untold(p, r) ==
    \E i \in DOMAIN calls :
        calls[i].to = p /\ calls[i].repo = r /\ p \in calls[i].removed \cup calls[i].added

\* The script of that name is the one of its repository, which may have removed it.
ScriptKnown(n) ==
    \E q \in Range(Observed["script"]) :
        /\ ScriptName[q] = n /\ scripts[n][1] = q
        /\ head[q]["script"] \in {None, scripts[n][2]} \/ Untold("script", q)
ScriptsTold ==
    Serving =>
        /\ \A r \in Range(Observed["script"]) : head[r]["script"] # None =>
              ScriptName[r] \in DOMAIN scripts \/ Untold("script", r)
        /\ \A n \in DOMAIN scripts : ScriptKnown(n)

PathsTold ==
    Serving => \A r \in Repos :
        \/ r \in paths <=> r \in Range(Observed["data"]) /\ head[r]["data"] # None
        \/ Untold("data", r)

\* What an announcement that is no longer to be seen has led to so far.
Followed ==
    \A r \in Repos : ~ announced[r] =>
        /\ Serving /\ hook[r] \in {"none", "answer"} /\ ~ missed[r] => head[r] = remote[r]
        /\ hook[r] = "reset" => fetchHead[r] = remote[r]

Good(c) == c \notin Unloadable \cup Failing \cup {None}
CoresGood ==
    /\ core = None \/ Good(core)
    /\ ~ shouldTest /\ ~ loadPerCall => core # None
    /\ ~ escaped /\ shouldTest => coreLoc = None
    /\ ~ escaped /\ ~ shouldTest => Good(coreLoc)
    /\ ~ escaped \/ ~ loadPerCall =>
          \A x \in Rooms : room[x].at = "duels" => Good(room[x].core)

RoomsServed == process # "up" => \A x \in Rooms : room[x] = NoRoom

UInv == /\ UTypes /\ OneAtATime /\ CallsTrue /\ ScriptsTold /\ PathsTold /\ Followed
        /\ CoresGood /\ RoomsServed /\ ScriptsOutlive

-----------------------------------------------------------------------------
LEMMA Constants ==
    /\ Observed \in [Providers -> Seq(Repos)]
    /\ \A p \in Providers : Range(Observed[p]) \subseteq Repos
    /\ Contents \in [Providers -> SUBSET Nat]
<1>1. Observed \in [Providers -> Seq(Repos)] /\ Contents \in [Providers -> SUBSET Nat]
  BY UpdatesAssumption
<1>2. ASSUME NEW p \in Providers PROVE Range(Observed[p]) \subseteq Repos
  <2>1. Observed[p] \in Seq(Repos)
    BY <1>1
  <2> QED BY <2>1, RangeOfSeq
<1> QED BY <1>1, <1>2

\* A list of calls and what is left of it when the first was made.
LEMMA Rest ==
    ASSUME calls \in Seq(Calls), calls # <<>>, calls' = Tail(calls)
    PROVE  /\ calls' \in Seq(Calls) /\ Len(calls) \in Nat /\ Len(calls) >= 1
           /\ DOMAIN calls = 1..Len(calls) /\ DOMAIN calls' = 1..Len(calls) - 1
           /\ Len(calls') = Len(calls) - 1
           /\ \A i \in DOMAIN calls' : i + 1 \in DOMAIN calls /\ calls'[i] = calls[i + 1]
BY DEF Calls

LEMMA UInitInv == Init => UInv
<1> SUFFICES ASSUME Init PROVE UInv
  OBVIOUS
<1> USE DEF Init
<1>1. UTypes
  <2>1. remote \in [Repos -> Tree]
    <3>1. \A n \in {0, 1} : [p \in Providers |-> n] \in Tree
      BY DEF Tree
    <3> QED BY <3>1
  <2>2. \A x \in Rooms : DOMAIN room[x] = {"at", "db", "scripts", "core"}
    BY DEF NoRoom
  <2>3. calls \in Seq(Calls)
    BY EmptySeq
  <2> QED BY <2>1, <2>2, <2>3 DEF UTypes, HookStages
<1>2. OneAtATime /\ CallsTrue
  BY DEF OneAtATime, CallsTrue, Busy
<1>3. ScriptsTold /\ PathsTold /\ Followed
  BY DEF ScriptsTold, PathsTold, Followed, Serving
<1>4. CoresGood /\ RoomsServed /\ ScriptsOutlive
  BY DEF CoresGood, RoomsServed, ScriptsOutlive, NoRoom, None
<1> QED BY <1>1, <1>2, <1>3, <1>4 DEF UInv

\* What the calls that are left say depends on the files and the process only.
LEMMA ToldKept ==
    ASSUME CallsTrue, ScriptsTold, PathsTold,
           UNCHANGED <<head, calls, paths, scripts>>,
           process' = process \/ process' = "down"
    PROVE  CallsTrue' /\ ScriptsTold' /\ PathsTold'
<1>1. CallsTrue'
  BY DEF CallsTrue, FilesOf
<1>2. ScriptsTold' /\ PathsTold'
  BY DEF ScriptsTold, ScriptKnown, PathsTold, Serving, Untold
<1> QED BY <1>1, <1>2

LEMMA RoomsKept ==
    ASSUME CoresGood, RoomsServed, ScriptsOutlive, process' = process,
           UNCHANGED <<scripts, coreProvider, loadPerCall, room>>
    PROVE  CoresGood' /\ RoomsServed' /\ ScriptsOutlive'
BY DEF CoresGood, RoomsServed, ScriptsOutlive, coreProvider

LEMMA PushInv ==
    ASSUME UInv, NEW r \in Repos, NEW p \in Providers, NEW content \in Contents[p] \cup {None},
           Push(r, p, content)
    PROVE  UInv'
<1>1. /\ UNCHANGED <<process, hook, missed, fetchHead, head, calls, paths, scripts, coreLoc,
                     core, shouldTest, escaped, loadPerCall, room>>
      /\ UNCHANGED coreProvider
      /\ remote' = [remote EXCEPT ![r][p] = content]
      /\ announced' = [announced EXCEPT ![r] = Listens]
  BY DEF Push, providers, data, coreProvider
<1>2. UTypes
  BY DEF UInv
<1>3. remote' \in [Repos -> Tree] /\ \A q \in Repos \ {r} : remote'[q] = remote[q]
  <2>1. remote[r] \in Tree /\ content \in Nat
    BY <1>2, Constants DEF UTypes, None
  <2>2. [remote[r] EXCEPT ![p] = content] \in Tree
    BY <2>1 DEF Tree
  <2>3. remote' = [remote EXCEPT ![r] = [remote[r] EXCEPT ![p] = content]]
    BY <1>1
  <2> QED BY <1>2, <2>2, <2>3 DEF UTypes
<1>4. /\ announced' \in [Repos -> BOOLEAN] /\ announced'[r] = Listens
      /\ \A q \in Repos \ {r} : announced'[q] = announced[q]
  BY <1>1, <1>2 DEF UTypes, Listens
<1>5. UTypes'
  BY <1>1, <1>2, <1>3, <1>4 DEF UTypes
<1>6. OneAtATime'
  BY <1>1 DEF UInv, OneAtATime, Busy
<1>7. CallsTrue' /\ ScriptsTold' /\ PathsTold'
  BY <1>1, ToldKept DEF UInv
<1>8. Followed'
  <2> SUFFICES ASSUME NEW q \in Repos, ~ announced'[q]
               PROVE  /\ Serving' /\ hook'[q] \in {"none", "answer"} /\ ~ missed'[q] =>
                           head'[q] = remote'[q]
                      /\ hook'[q] = "reset" => fetchHead'[q] = remote'[q]
    BY DEF Followed
  <2>1. CASE q = r
    BY <1>1, <1>4, <2>1 DEF UInv, Listens, Serving, OneAtATime
  <2>2. CASE q # r
    BY <1>1, <1>3, <1>4, <2>2 DEF UInv, Followed, Serving
  <2> QED BY <2>1, <2>2
<1>9. CoresGood' /\ RoomsServed' /\ ScriptsOutlive'
  BY <1>1, RoomsKept DEF UInv
<1> QED BY <1>5, <1>6, <1>7, <1>8, <1>9 DEF UInv

LEMMA ListenInv == ASSUME UInv, Listen PROVE UInv'
<1>1. /\ UNCHANGED <<remote, announced, hook, missed, fetchHead, head, calls, paths, scripts,
                     coreLoc, core, shouldTest, escaped, loadPerCall, room>>
      /\ process = "down" /\ process' = "listening"
  BY DEF Listen, outside, hooks, providers, data, coreProvider
<1>2. UTypes'
  BY <1>1 DEF UInv, UTypes
<1>3. OneAtATime' /\ CallsTrue'
  BY <1>1 DEF UInv, OneAtATime, Busy, CallsTrue, FilesOf
<1>4. ScriptsTold' /\ PathsTold' /\ Followed'
  BY <1>1 DEF UInv, ScriptsTold, PathsTold, Followed, Serving, OneAtATime
<1>5. CoresGood' /\ RoomsServed' /\ ScriptsOutlive'
  BY <1>1 DEF UInv, CoresGood, RoomsServed, ScriptsOutlive
<1> QED BY <1>2, <1>3, <1>4, <1>5 DEF UInv

LEMMA RunInv == ASSUME UInv, Run PROVE UInv'
<1>1. /\ UNCHANGED <<remote, announced, hook, missed, fetchHead, head, calls, paths, scripts,
                     coreLoc, core, shouldTest, escaped, loadPerCall, room>>
      /\ process = "starting" /\ process' = "up" /\ calls = <<>>
  BY DEF Run, outside, hooks, providers, data, coreProvider
<1>2. UTypes'
  BY <1>1 DEF UInv, UTypes
<1>3. OneAtATime' /\ CallsTrue'
  BY <1>1 DEF UInv, OneAtATime, Busy, CallsTrue, FilesOf
<1>4. ScriptsTold' /\ PathsTold' /\ Followed'
  <2>1. Serving /\ Serving' /\ \A p, q : Untold(p, q)' <=> Untold(p, q)
    BY <1>1 DEF Serving, Untold
  <2>2. ScriptsTold'
    BY <1>1, <2>1 DEF UInv, ScriptsTold, ScriptKnown
  <2> QED BY <1>1, <2>1, <2>2 DEF UInv, PathsTold, Followed
<1>5. CoresGood' /\ RoomsServed' /\ ScriptsOutlive'
  BY <1>1 DEF UInv, CoresGood, RoomsServed, ScriptsOutlive
<1> QED BY <1>2, <1>3, <1>4, <1>5 DEF UInv

\* The entries of two lists that are made into one.
LEMMA Joined ==
    ASSUME NEW S, NEW s \in Seq(S), NEW t \in Seq(S)
    PROVE  s \o t \in Seq(S) /\ Range(s \o t) = Range(s) \cup Range(t)
<1>1. /\ s \o t \in Seq(S) /\ Len(s) \in Nat /\ Len(t) \in Nat
      /\ DOMAIN s = 1..Len(s) /\ DOMAIN t = 1..Len(t) /\ DOMAIN (s \o t) = 1..(Len(s) + Len(t))
      /\ \A i \in 1..(Len(s) + Len(t)) :
            (s \o t)[i] = IF i <= Len(s) THEN s[i] ELSE t[i - Len(s)]
  BY ConcatProperties, LenProperties
<1>2. ASSUME NEW i \in DOMAIN (s \o t) PROVE (s \o t)[i] \in Range(s) \cup Range(t)
  <2>1. CASE i <= Len(s)
    BY <1>1, <2>1 DEF Range
  <2>2. CASE ~ i <= Len(s)
    <3>1. i - Len(s) \in DOMAIN t /\ (s \o t)[i] = t[i - Len(s)]
      BY <1>1, <2>2
    <3> QED BY <3>1 DEF Range
  <2> QED BY <2>1, <2>2
<1>3. ASSUME NEW i \in DOMAIN s PROVE s[i] \in Range(s \o t)
  <2>1. i \in DOMAIN (s \o t) /\ (s \o t)[i] = s[i]
    BY <1>1
  <2> QED BY <2>1 DEF Range
<1>4. ASSUME NEW i \in DOMAIN t PROVE t[i] \in Range(s \o t)
  <2>1. /\ i + Len(s) \in DOMAIN (s \o t)
        /\ (s \o t)[i + Len(s)] = t[(i + Len(s)) - Len(s)]
        /\ (i + Len(s)) - Len(s) = i
    BY <1>1
  <2> QED BY <2>1 DEF Range
<1>5. Range(s \o t) \subseteq Range(s) \cup Range(t)
  BY <1>2 DEF Range
<1>6. Range(s) \subseteq Range(s \o t) /\ Range(t) \subseteq Range(s \o t)
  BY <1>3, <1>4 DEF Range
<1> QED BY <1>1, <1>5, <1>6

LEMMA AllJoined ==
    ASSUME NEW S, NEW s \in Seq(S), NEW t \in Seq(S), NEW u \in Seq(S), NEW v \in Seq(S)
    PROVE  /\ s \o t \o u \in Seq(S) /\ s \o t \o u \o v \in Seq(S)
           /\ Range(s \o t \o u) = Range(s) \cup Range(t) \cup Range(u)
           /\ Range(s \o t \o u \o v) = Range(s) \cup Range(t) \cup Range(u) \cup Range(v)
<1>1. PICK w : w = s \o t
  OBVIOUS
<1>2. w \in Seq(S) /\ Range(w) = Range(s) \cup Range(t)
  BY <1>1, Joined
<1>3. PICK x : x = w \o u
  OBVIOUS
<1>4. x \in Seq(S) /\ Range(x) = Range(w) \cup Range(u)
  BY <1>2, <1>3, Joined
<1>5. x \o v \in Seq(S) /\ Range(x \o v) = Range(x) \cup Range(v)
  BY <1>4, Joined
<1> QED BY <1>1, <1>2, <1>3, <1>4, <1>5

\* Every observer is told of the files of each repository it observes.
LEMMA Started ==
    ASSUME UInv, Start
    PROVE  /\ calls' \in Seq(Calls)
           /\ \A i \in DOMAIN calls' : \E p \in Providers : \E r \in Range(Observed[p]) :
                calls'[i] = Call(p, r, {}, FilesOf(remote[r]))
           /\ \A p \in Providers : \A r \in Range(Observed[p]) : \E i \in DOMAIN calls' :
                calls'[i] = Call(p, r, {}, FilesOf(remote[r]))
<1>1. ASSUME NEW p \in Providers
      PROVE  /\ AddObservers(p) \in Seq(Calls)
             /\ Range(AddObservers(p)) =
                    {Call(p, r, {}, FilesOf(remote[r])) : r \in Range(Observed[p])}
  <2>1. Observed[p] \in Seq(Repos)
    BY Constants
  <2>2. Len(Observed[p]) \in Nat /\ DOMAIN Observed[p] = 1..Len(Observed[p])
        /\ \A i \in DOMAIN Observed[p] : Observed[p][i] \in Repos
    BY <2>1
  <2>3. \A r \in Repos : Call(p, r, {}, FilesOf(remote[r])) \in Calls
    BY DEF Call, Calls, FilesOf
  <2>4. AddObservers(p) \in [1..Len(Observed[p]) -> Calls]
    BY <2>2, <2>3 DEF AddObservers
  <2>5. AddObservers(p) \in Seq(Calls)
    BY <2>2, <2>4, SeqDef
  <2>6. /\ DOMAIN AddObservers(p) = DOMAIN Observed[p]
        /\ \A i \in DOMAIN Observed[p] : AddObservers(p)[i] =
                Call(p, Observed[p][i], {}, FilesOf(remote[Observed[p][i]]))
    BY DEF AddObservers
  <2>7. Range(AddObservers(p)) = {Call(p, r, {}, FilesOf(remote[r])) : r \in Range(Observed[p])}
    BY ONLY <2>6 DEF Range
  <2> QED BY <2>5, <2>7
<1>2. /\ "data" \in Providers /\ "script" \in Providers
      /\ "banlist" \in Providers /\ "core" \in Providers
  BY DEF Providers
<1> DEFINE A == AddObservers("data")
           B == AddObservers("script")
           C == AddObservers("banlist")
           D == AddObservers("core")
<1>3. A \in Seq(Calls) /\ B \in Seq(Calls) /\ C \in Seq(Calls) /\ D \in Seq(Calls)
  BY <1>1, <1>2
<1>4. calls' = A \o B \o C \o D
  BY DEF Start
<1> HIDE DEF A, B, C, D
<1>7. /\ A \o B \o C \o D \in Seq(Calls)
      /\ Range(A \o B \o C \o D) = Range(A) \cup Range(B) \cup Range(C) \cup Range(D)
  BY <1>3, AllJoined
<1>8. Range(calls') = UNION {Range(AddObservers(p)) : p \in Providers}
  BY <1>4, <1>7 DEF Providers, A, B, C, D
<1>9. ASSUME NEW i \in DOMAIN calls'
      PROVE  \E p \in Providers : \E r \in Range(Observed[p]) :
                calls'[i] = Call(p, r, {}, FilesOf(remote[r]))
  <2>1. calls'[i] \in Range(calls')
    BY DEF Range
  <2>2. PICK p \in Providers : calls'[i] \in Range(AddObservers(p))
    BY <2>1, <1>8
  <2> QED BY <2>2, <1>1
<1>10. ASSUME NEW p \in Providers, NEW r \in Range(Observed[p])
       PROVE  \E i \in DOMAIN calls' : calls'[i] = Call(p, r, {}, FilesOf(remote[r]))
  <2>1. Call(p, r, {}, FilesOf(remote[r])) \in Range(AddObservers(p))
    BY <1>1
  <2>2. Call(p, r, {}, FilesOf(remote[r])) \in Range(calls')
    BY <2>1, <1>8
  <2> QED BY <2>2 DEF Range
<1> QED BY <1>4, <1>7, <1>9, <1>10

LEMMA StartInv == ASSUME UInv, Start PROVE UInv'
<1>1. /\ UNCHANGED <<remote, announced, hook, missed, loadPerCall, room>>
      /\ process = "listening" /\ process' = "starting"
      /\ head' = remote /\ fetchHead' = remote
      /\ paths' = {} /\ scripts' = <<>>
      /\ coreLoc' = None /\ core' = None /\ shouldTest' = TRUE /\ escaped' = FALSE
  BY DEF Start, outside, Clone
<1>2. UTypes /\ OneAtATime /\ RoomsServed
  BY DEF UInv
<1>3. /\ calls' \in Seq(Calls)
      /\ \A i \in DOMAIN calls' : \E p \in Providers : \E r \in Range(Observed[p]) :
            calls'[i] = Call(p, r, {}, FilesOf(remote[r]))
      /\ \A p \in Providers : \A r \in Range(Observed[p]) : \E i \in DOMAIN calls' :
            calls'[i] = Call(p, r, {}, FilesOf(remote[r]))
  BY Started
<1>4. UTypes'
  BY <1>1, <1>2, <1>3 DEF UTypes
<1>5. OneAtATime'
  BY <1>1, <1>2 DEF OneAtATime, Busy
<1>6. CallsTrue'
  <2> SUFFICES ASSUME NEW i \in DOMAIN calls'
               PROVE  /\ calls'[i].repo \in Range(Observed[calls'[i].to])
                      /\ calls'[i].added \subseteq FilesOf(head'[calls'[i].repo])
                      /\ calls'[i].removed = {}
    BY <1>1 DEF CallsTrue, FilesOf
  <2>0. PICK p \in Providers : \E r \in Range(Observed[p]) :
            calls'[i] = Call(p, r, {}, FilesOf(remote[r]))
    BY <1>3
  <2>1. PICK r \in Range(Observed[p]) : calls'[i] = Call(p, r, {}, FilesOf(remote[r]))
    BY <2>0
  <2>2. /\ calls'[i].to = p /\ calls'[i].repo = r
        /\ calls'[i].removed = {} /\ calls'[i].added = FilesOf(remote[r])
    BY <2>1 DEF Call
  <2> QED BY <1>1, <2>2
<1>7. ASSUME NEW p \in Providers, NEW r \in Range(Observed[p]), head'[r][p] # None
      PROVE  Untold(p, r)'
  <2>1. PICK i \in DOMAIN calls' : calls'[i] = Call(p, r, {}, FilesOf(remote[r]))
    BY <1>3
  <2>2. calls'[i].to = p /\ calls'[i].repo = r /\ calls'[i].added = FilesOf(remote[r])
    BY <2>1 DEF Call
  <2>3. p \in calls'[i].added
    BY <1>1, <1>7, <2>2 DEF FilesOf
  <2> QED BY <2>2, <2>3 DEF Untold
<1>8. ScriptsTold' /\ PathsTold'
  <2>1. "script" \in Providers /\ "data" \in Providers
    BY DEF Providers
  <2>2. ScriptsTold'
    <3>1. DOMAIN scripts' = {}
      BY <1>1
    <3> QED BY <1>7, <2>1, <3>1 DEF ScriptsTold
  <2>3. ASSUME NEW r \in Repos
        PROVE  \/ r \in paths' <=> r \in Range(Observed["data"]) /\ head'[r]["data"] # None
               \/ Untold("data", r)'
    BY <1>1, <1>7, <2>1
  <2> QED BY <2>2, <2>3 DEF PathsTold
<1>9. Followed'
  BY <1>1, <1>2 DEF Followed, OneAtATime
<1>10. CoresGood' /\ RoomsServed' /\ ScriptsOutlive'
  <2>1. \A x \in Rooms : room'[x] = NoRoom
    BY <1>1, <1>2 DEF RoomsServed
  <2>2. \A x \in Rooms : room'[x].at # "duels" /\ room'[x].scripts = {}
    BY <2>1 DEF NoRoom
  <2>3. CoresGood'
    BY <1>1, <2>2 DEF CoresGood
  <2> QED BY <2>1, <2>2, <2>3 DEF RoomsServed, ScriptsOutlive
<1> QED BY <1>4, <1>5, <1>6, <1>8, <1>9, <1>10 DEF UInv

\* The steps of a webhook that leave the files and the calls alone.
LEMMA HookKeeps ==
    ASSUME UInv, UNCHANGED <<outside, process, providers, loadPerCall, room, head, calls>>,
           announced' \in [Repos -> BOOLEAN], missed' \in [Repos -> BOOLEAN],
           fetchHead' \in [Repos -> Tree], hook' \in [Repos -> HookStages]
    PROVE  /\ UTypes' /\ CallsTrue' /\ ScriptsTold' /\ PathsTold'
           /\ CoresGood' /\ RoomsServed' /\ ScriptsOutlive'
<1>1. /\ UNCHANGED <<remote, process, head, calls, paths, scripts, coreLoc, core, shouldTest,
                     escaped, loadPerCall, room>>
      /\ UNCHANGED coreProvider
  BY DEF outside, providers, data, coreProvider
<1>2. UTypes'
  BY <1>1 DEF UInv, UTypes
<1>3. CallsTrue' /\ ScriptsTold' /\ PathsTold'
  BY <1>1, ToldKept DEF UInv
<1>4. CoresGood' /\ RoomsServed' /\ ScriptsOutlive'
  BY <1>1, RoomsKept DEF UInv
<1> QED BY <1>2, <1>3, <1>4

LEMMA DoAcceptInv == ASSUME UInv, NEW r \in Repos, DoAccept(r) PROVE UInv'
<1>1. /\ UNCHANGED <<outside, process, providers, loadPerCall, room, head, calls>>
      /\ UNCHANGED <<remote, process, missed, fetchHead, head, calls>>
      /\ announced' = [announced EXCEPT ![r] = FALSE] /\ hook' = [hook EXCEPT ![r] = "open"]
      /\ process = "up" /\ calls = <<>> /\ hook[r] = "none"
  BY DEF DoAccept, HookStep, Idle, outside
<1>2. UTypes /\ OneAtATime /\ Followed
  BY DEF UInv
<1>3. /\ announced' \in [Repos -> BOOLEAN] /\ missed' \in [Repos -> BOOLEAN]
      /\ fetchHead' \in [Repos -> Tree] /\ hook' \in [Repos -> HookStages]
  BY <1>1, <1>2 DEF UTypes, HookStages
<1>4. /\ hook'[r] = "open" /\ \A q \in Repos \ {r} : hook'[q] = hook[q]
      /\ \A q \in Repos \ {r} : announced'[q] = announced[q]
  BY <1>1, <1>2 DEF UTypes
<1>5. OneAtATime'
  BY <1>1, <1>2, <1>4 DEF OneAtATime, Busy
<1>6. Followed'
  BY <1>1, <1>2, <1>4 DEF Followed, Serving
<1>7. /\ UTypes' /\ CallsTrue' /\ ScriptsTold' /\ PathsTold'
      /\ CoresGood' /\ RoomsServed' /\ ScriptsOutlive'
  BY <1>1, <1>3, HookKeeps
<1> QED BY <1>5, <1>6, <1>7 DEF UInv

LEMMA DoReadHeaderInv == ASSUME UInv, NEW r \in Repos, DoReadHeader(r) PROVE UInv'
<1>1. /\ UNCHANGED <<outside, process, providers, loadPerCall, room, head, calls>>
      /\ UNCHANGED <<remote, process, announced, fetchHead, head, calls>>
      /\ process = "up" /\ calls = <<>> /\ \A q \in Repos : hook[q] \in {"none", "open"}
  BY DEF DoReadHeader, NoToken, HookStep, Idle, outside
<1>2. PICK then \in {"fetch", "answer", "none"} :
        /\ hook' = [hook EXCEPT ![r] = then]
        /\ \/ then = "fetch" /\ missed' = missed
           \/ missed' = [missed EXCEPT ![r] = TRUE]
  BY DEF DoReadHeader, NoToken, HookStep
<1>3. UTypes /\ OneAtATime /\ Followed
  BY DEF UInv
<1>4. /\ announced' \in [Repos -> BOOLEAN] /\ missed' \in [Repos -> BOOLEAN]
      /\ fetchHead' \in [Repos -> Tree] /\ hook' \in [Repos -> HookStages]
  BY <1>1, <1>2, <1>3 DEF UTypes, HookStages
<1>5. /\ hook'[r] = then /\ \A q \in Repos \ {r} : hook'[q] = hook[q]
      /\ then = "fetch" \/ missed'[r]
  BY <1>2, <1>3 DEF UTypes
<1>6. \A q \in Repos \ {r} : missed'[q] = missed[q]
  BY <1>2, <1>3 DEF UTypes
<1>7. OneAtATime'
  BY <1>1, <1>3, <1>5 DEF OneAtATime, Busy
<1>8. Followed'
  BY <1>1, <1>2, <1>3, <1>5, <1>6 DEF Followed, Serving
<1>9. /\ UTypes' /\ CallsTrue' /\ ScriptsTold' /\ PathsTold'
      /\ CoresGood' /\ RoomsServed' /\ ScriptsOutlive'
  BY <1>1, <1>4, HookKeeps
<1> QED BY <1>7, <1>8, <1>9 DEF UInv

LEMMA FetchInv == ASSUME UInv, NEW r \in Repos, Fetch(r) PROVE UInv'
<1>1. /\ UNCHANGED <<outside, process, providers, loadPerCall, room, head, calls>>
      /\ UNCHANGED <<remote, process, announced, missed, head, calls>>
      /\ hook[r] = "fetch" /\ hook' = [hook EXCEPT ![r] = "reset"]
      /\ fetchHead' = [fetchHead EXCEPT ![r] = remote[r]]
  BY DEF Fetch, HookStep, outside
<1>2. UTypes /\ OneAtATime /\ Followed
  BY DEF UInv
<1>3. /\ announced' \in [Repos -> BOOLEAN] /\ missed' \in [Repos -> BOOLEAN]
      /\ fetchHead' \in [Repos -> Tree] /\ hook' \in [Repos -> HookStages]
  BY <1>1, <1>2 DEF UTypes, HookStages
<1>4. /\ hook'[r] = "reset" /\ \A q \in Repos \ {r} : hook'[q] = hook[q]
      /\ fetchHead'[r] = remote[r] /\ \A q \in Repos \ {r} : fetchHead'[q] = fetchHead[q]
  BY <1>1, <1>2 DEF UTypes
<1>5. OneAtATime'
  BY <1>1, <1>2, <1>4 DEF OneAtATime, Busy
<1>6. Followed'
  BY <1>1, <1>2, <1>4 DEF Followed, Serving
<1>7. /\ UTypes' /\ CallsTrue' /\ ScriptsTold' /\ PathsTold'
      /\ CoresGood' /\ RoomsServed' /\ ScriptsOutlive'
  BY <1>1, <1>3, HookKeeps
<1> QED BY <1>5, <1>6, <1>7 DEF UInv

LEMMA GitFailsInv == ASSUME UInv, NEW r \in Repos, GitFails(r) PROVE UInv'
<1>1. /\ UNCHANGED <<outside, process, providers, loadPerCall, room, head, calls>>
      /\ UNCHANGED <<remote, process, announced, fetchHead, head, calls>>
      /\ hook[r] \in {"fetch", "reset"} /\ hook' = [hook EXCEPT ![r] = "answer"]
      /\ missed' = [missed EXCEPT ![r] = TRUE]
  BY DEF GitFails, HookStep, outside
<1>2. UTypes /\ OneAtATime /\ Followed
  BY DEF UInv
<1>3. /\ announced' \in [Repos -> BOOLEAN] /\ missed' \in [Repos -> BOOLEAN]
      /\ fetchHead' \in [Repos -> Tree] /\ hook' \in [Repos -> HookStages]
  BY <1>1, <1>2 DEF UTypes, HookStages
<1>4. /\ hook'[r] = "answer" /\ \A q \in Repos \ {r} : hook'[q] = hook[q]
      /\ missed'[r] /\ \A q \in Repos \ {r} : missed'[q] = missed[q]
  BY <1>1, <1>2 DEF UTypes
<1>5. OneAtATime'
  BY <1>1, <1>2, <1>4 DEF OneAtATime, Busy
<1>6. Followed'
  BY <1>1, <1>2, <1>4 DEF Followed, Serving
<1>7. /\ UTypes' /\ CallsTrue' /\ ScriptsTold' /\ PathsTold'
      /\ CoresGood' /\ RoomsServed' /\ ScriptsOutlive'
  BY <1>1, <1>3, HookKeeps
<1> QED BY <1>5, <1>6, <1>7 DEF UInv

LEMMA DoWriteInv == ASSUME UInv, NEW r \in Repos, DoWrite(r) PROVE UInv'
<1>1. /\ UNCHANGED <<outside, process, providers, loadPerCall, room, head, calls>>
      /\ UNCHANGED <<remote, process, announced, missed, fetchHead, head, calls>>
      /\ hook[r] = "answer" /\ hook' = [hook EXCEPT ![r] = "none"]
  BY DEF DoWrite, HookStep, outside
<1>2. UTypes /\ OneAtATime /\ Followed
  BY DEF UInv
<1>3. /\ announced' \in [Repos -> BOOLEAN] /\ missed' \in [Repos -> BOOLEAN]
      /\ fetchHead' \in [Repos -> Tree] /\ hook' \in [Repos -> HookStages]
  BY <1>1, <1>2 DEF UTypes, HookStages
<1>4. hook'[r] = "none" /\ \A q \in Repos \ {r} : hook'[q] = hook[q]
  BY <1>1, <1>2 DEF UTypes
<1>5. OneAtATime'
  BY <1>1, <1>2, <1>4 DEF OneAtATime, Busy
<1>6. Followed'
  BY <1>1, <1>2, <1>4 DEF Followed, Serving
<1>7. /\ UTypes' /\ CallsTrue' /\ ScriptsTold' /\ PathsTold'
      /\ CoresGood' /\ RoomsServed' /\ ScriptsOutlive'
  BY <1>1, <1>3, HookKeeps
<1> QED BY <1>5, <1>6, <1>7 DEF UInv

\* All providers that observe a repository are told, and the core's the last.
LEMMA Told ==
    ASSUME NEW r
    PROVE  /\ Observers(r) \in Seq(Providers)
           /\ \A i \in DOMAIN Observers(r) : r \in Range(Observed[Observers(r)[i]])
           /\ \A p \in Providers : r \in Range(Observed[p]) =>
                \E i \in DOMAIN Observers(r) : Observers(r)[i] = p
           /\ \A i \in DOMAIN Observers(r) : Observers(r)[i] = "core" => i = Len(Observers(r))
<1> DEFINE A == Registered("data", r)
           B == Registered("script", r)
           C == Registered("banlist", r)
           D == Registered("core", r)
           Others == {"data", "script", "banlist"}
<1>1. ASSUME NEW p, NEW S, p \in S
      PROVE  /\ Registered(p, r) \in Seq(S)
             /\ Range(Registered(p, r)) = IF r \in Range(Observed[p]) THEN {p} ELSE {}
             /\ r \notin Range(Observed[p]) => Registered(p, r) = <<>>
  <2>1. CASE r \in Range(Observed[p])
    <3>1. Registered(p, r) = <<p>>
      BY <2>1 DEF Registered
    <3>2. <<p>> \in Seq(S) /\ DOMAIN <<p>> = {1} /\ <<p>>[1] = p
      BY <1>1
    <3>3. Range(<<p>>) = {p}
      BY <3>2 DEF Range
    <3> QED BY <2>1, <3>1, <3>2, <3>3
  <2>2. CASE r \notin Range(Observed[p])
    <3>1. Registered(p, r) = <<>>
      BY <2>2 DEF Registered
    <3>2. DOMAIN <<>> = {}
      OBVIOUS
    <3>3. Range(<<>>) = {}
      BY <3>2 DEF Range
    <3> QED BY <2>2, <3>1, <3>3, EmptySeq
  <2> QED BY <2>1, <2>2
<1>2. A \in Seq(Others) /\ B \in Seq(Others) /\ C \in Seq(Others)
  BY <1>1
<1>3. A \in Seq(Providers) /\ B \in Seq(Providers) /\ C \in Seq(Providers) /\ D \in Seq(Providers)
  BY <1>1 DEF Providers
<1>4. /\ \A p \in {"data", "script", "banlist", "core"} :
            Range(Registered(p, r)) = IF r \in Range(Observed[p]) THEN {p} ELSE {}
  BY <1>1
<1>5. /\ D = <<>> \/ Len(D) = 1
  BY DEF Registered
<1>6. Observers(r) = A \o B \o C \o D
  BY DEF Observers
<1>7. \A p \in Providers : p \in Range(A) \cup Range(B) \cup Range(C) \cup Range(D)
                                <=> r \in Range(Observed[p])
  BY <1>4 DEF Providers
<1> HIDE DEF A, B, C, D
<1>8. /\ Observers(r) \in Seq(Providers)
      /\ Range(Observers(r)) = Range(A) \cup Range(B) \cup Range(C) \cup Range(D)
  BY <1>3, <1>6, AllJoined
<1>9. \A i \in DOMAIN Observers(r) : r \in Range(Observed[Observers(r)[i]])
  <2> SUFFICES ASSUME NEW i \in DOMAIN Observers(r)
               PROVE  r \in Range(Observed[Observers(r)[i]])
    OBVIOUS
  <2>1. Observers(r)[i] \in Providers /\ Observers(r)[i] \in Range(Observers(r))
    BY <1>8 DEF Range
  <2> QED BY <2>1, <1>7, <1>8
<1>10. ASSUME NEW p \in Providers, r \in Range(Observed[p])
       PROVE  \E i \in DOMAIN Observers(r) : Observers(r)[i] = p
  <2>1. p \in Range(Observers(r))
    BY <1>7, <1>8, <1>10
  <2> QED BY <2>1 DEF Range
<1>11. ASSUME NEW i \in DOMAIN Observers(r), Observers(r)[i] = "core"
       PROVE  i = Len(Observers(r))
  <2>1. PICK t : t = A \o B \o C
    OBVIOUS
  <2>2. t \in Seq(Others)
    BY <1>2, <2>1, AllJoined
  <2>3. Others \subseteq Providers
    BY DEF Providers
  <2>4. t \in Seq(Providers)
    BY <2>2, <2>3, SeqMonotonic
  <2>5. Observers(r) = t \o D
    BY <1>6, <2>1
  <2>6. /\ Len(t \o D) = Len(t) + Len(D)
        /\ \A j \in 1..(Len(t) + Len(D)) : (t \o D)[j] = IF j <= Len(t) THEN t[j] ELSE D[j - Len(t)]
    BY <1>3, <2>4, ConcatProperties
  <2>7. /\ Len(t) \in Nat /\ Len(D) \in {0, 1} /\ i \in 1..Len(Observers(r))
        /\ \A j \in 1..Len(t) : t[j] \in Others
    BY <1>3, <1>5, <1>8, <2>2, LenProperties, ElementOfSeq
  <2>8. ~ i <= Len(t)
    <3>1. SUFFICES ASSUME i <= Len(t) PROVE FALSE
      OBVIOUS
    <3>2. i \in 1..Len(t) /\ Observers(r)[i] = t[i]
      BY <2>5, <2>6, <2>7, <3>1
    <3> QED BY <1>11, <2>7, <3>2
  <2> QED BY <2>5, <2>6, <2>7, <2>8
<1> QED BY <1>8, <1>9, <1>10, <1>11

\* A callback of a repository leaves everybody to be told of what has changed for them.
LEMMA CallbackTells ==
    ASSUME UInv, NEW r \in Repos, Callback(r)
    PROVE  /\ process = "up" /\ calls = <<>> /\ process' = process
           /\ \A q \in Repos : head'[q] = IF q = r THEN fetchHead[r] ELSE head[q]
           /\ UNCHANGED <<paths, db, banlists>>
           /\ \A p \in Providers : r \in Range(Observed[p]) /\ head'[r][p] # head[r][p] =>
                Untold(p, r)'
<1> DEFINE diff == GetFilesDiff(r)
<1>1. /\ hook[r] = "reset" /\ head' = [head EXCEPT ![r] = fetchHead[r]] /\ process' = process
      /\ UNCHANGED <<paths, db, banlists>>
      /\ calls' = IF diff.removed = {} /\ diff.added = {} THEN <<>>
                  ELSE [i \in DOMAIN Observers(r) |->
                            Call(Observers(r)[i], r, diff.removed, diff.added)]
  BY DEF Callback, HookStep, ResetToFetchHead, providers, data
<1>2. UTypes /\ OneAtATime
  BY DEF UInv
<1>3. /\ process = "up" /\ calls = <<>>
      /\ \A q \in Repos : head'[q] = IF q = r THEN fetchHead[r] ELSE head[q]
  BY <1>1, <1>2 DEF OneAtATime, UTypes
<1>4. ASSUME NEW p \in Providers, r \in Range(Observed[p]), head'[r][p] # head[r][p]
      PROVE  Untold(p, r)'
  <2>1. p \in diff.removed \cup diff.added
    BY <1>3, <1>4 DEF GetFilesDiff, DiffOf, FilesOf
  <2>2. PICK i \in DOMAIN Observers(r) : Observers(r)[i] = p
    BY <1>4, Told
  <2> HIDE DEF diff
  <2>3. /\ i \in DOMAIN calls' /\ calls'[i].to = p /\ calls'[i].repo = r
        /\ calls'[i].removed = diff.removed /\ calls'[i].added = diff.added
    BY <1>1, <2>1, <2>2 DEF Call
  <2> QED BY <2>1, <2>3 DEF Untold
<1> QED BY <1>1, <1>3, <1>4

LEMMA CallbackInv == ASSUME UInv, NEW r \in Repos, Callback(r) PROVE UInv'
<1> DEFINE diff == GetFilesDiff(r)
<1>1. /\ UNCHANGED <<remote, process, announced, fetchHead, loadPerCall, room, paths, scripts,
                     coreLoc, core, shouldTest, escaped>>
      /\ UNCHANGED coreProvider
      /\ hook[r] = "reset" /\ hook' = [hook EXCEPT ![r] = "answer"]
      /\ missed' = [missed EXCEPT ![r] = FALSE]
      /\ head' = [head EXCEPT ![r] = fetchHead[r]]
  BY DEF Callback, HookStep, ResetToFetchHead, outside, providers, data, coreProvider
<1>2. calls' = IF diff.removed = {} /\ diff.added = {} THEN <<>>
               ELSE [i \in DOMAIN Observers(r) |->
                        Call(Observers(r)[i], r, diff.removed, diff.added)]
  BY DEF Callback
<1>3. UTypes /\ OneAtATime /\ Followed /\ ScriptsTold /\ PathsTold
  BY DEF UInv
<1>4. process = "up" /\ calls = <<>>
  BY <1>1, <1>3 DEF OneAtATime, UTypes
<1>5. /\ hook'[r] = "answer" /\ \A q \in Repos \ {r} : hook'[q] = hook[q]
      /\ missed'[r] = FALSE /\ \A q \in Repos \ {r} : missed'[q] = missed[q]
      /\ head'[r] = fetchHead[r] /\ \A q \in Repos \ {r} : head'[q] = head[q]
  BY <1>1, <1>3 DEF UTypes
<1>6. /\ diff.removed = {p \in Providers : head[r][p] # fetchHead[r][p]} \cap FilesOf(head[r])
      /\ diff.added = {p \in Providers : head[r][p] # fetchHead[r][p]} \cap FilesOf(fetchHead[r])
  BY DEF GetFilesDiff, DiffOf
<1> HIDE DEF diff
<1>7. diff.removed \subseteq Providers /\ diff.added \subseteq Providers
  BY <1>6
<1>8. /\ Observers(r) \in Seq(Providers)
      /\ \A i \in DOMAIN Observers(r) : r \in Range(Observed[Observers(r)[i]])
      /\ \A p \in Providers : r \in Range(Observed[p]) =>
            \E i \in DOMAIN Observers(r) : Observers(r)[i] = p
      /\ \A i \in DOMAIN Observers(r) : Observers(r)[i] = "core" => i = Len(Observers(r))
  BY Told
<1>9. \/ calls' = <<>> /\ diff.removed = {} /\ diff.added = {}
      \/ /\ DOMAIN calls' = DOMAIN Observers(r)
         /\ \A i \in DOMAIN Observers(r) :
                /\ calls'[i].to = Observers(r)[i] /\ calls'[i].repo = r
                /\ calls'[i].removed = diff.removed /\ calls'[i].added = diff.added
  BY <1>2 DEF Call
<1>10. calls' \in Seq(Calls) /\ DOMAIN calls' \subseteq DOMAIN Observers(r)
       /\ (calls' # <<>> => Len(calls') = Len(Observers(r)))
  <2>1. CASE diff.removed = {} /\ diff.added = {}
    BY <1>2, <2>1, EmptySeq
  <2>2. CASE ~ (diff.removed = {} /\ diff.added = {})
    <3>1. /\ Len(Observers(r)) \in Nat /\ DOMAIN Observers(r) = 1..Len(Observers(r))
          /\ \A i \in DOMAIN Observers(r) : Observers(r)[i] \in Providers
      BY <1>8
    <3>2. \A i \in DOMAIN Observers(r) :
            Call(Observers(r)[i], r, diff.removed, diff.added) \in Calls
      BY <1>7, <3>1 DEF Call, Calls
    <3>3. calls' \in [1..Len(Observers(r)) -> Calls]
      BY <1>2, <2>2, <3>1, <3>2
    <3>4. calls' \in Seq(Calls)
      BY <3>1, <3>3, SeqDef
    <3> QED BY <3>1, <3>3, <3>4
  <2> QED BY <2>1, <2>2
<1>11. UTypes'
  BY <1>1, <1>3, <1>10 DEF UTypes, HookStages
<1>12. OneAtATime'
  BY <1>1, <1>3, <1>5 DEF OneAtATime, Busy
<1>13. CallsTrue'
  <2> SUFFICES ASSUME NEW i \in DOMAIN calls'
               PROVE  /\ calls'[i].repo \in Range(Observed[calls'[i].to])
                      /\ calls'[i].added \subseteq FilesOf(head'[calls'[i].repo])
                      /\ calls'[i].removed \cap FilesOf(head'[calls'[i].repo])
                            \subseteq calls'[i].added
                      /\ calls'[i].to = "core" => i = Len(calls')
    BY DEF CallsTrue, FilesOf
  <2>1. calls' # <<>> /\ i \in DOMAIN Observers(r)
    BY <1>10
  <2>2. /\ calls'[i].to = Observers(r)[i] /\ calls'[i].repo = r
        /\ calls'[i].removed = diff.removed /\ calls'[i].added = diff.added
    BY <1>9, <2>1
  <2> QED BY <1>5, <1>6, <1>8, <1>10, <2>1, <2>2
<1>14. ASSUME NEW p \in Providers, r \in Range(Observed[p]), head'[r][p] # head[r][p]
       PROVE  Untold(p, r)'
  BY <1>14, CallbackTells
<1>15. "script" \in Providers /\ "data" \in Providers
  BY DEF Providers
<1>16. \A p, q : ~ Untold(p, q)
  BY <1>4 DEF Untold
<1>17. ScriptsTold'
  <2>1. Serving /\ scripts' = scripts
    BY <1>1, <1>3, <1>4 DEF Serving
  <2>2. ASSUME NEW q \in Range(Observed["script"])
        PROVE  head'[q]["script"] = head[q]["script"] \/ Untold("script", q)'
    <3>1. q \in Repos
      BY <1>15, Constants
    <3> QED BY <1>5, <1>14, <1>15, <3>1
  <2>3. ASSUME NEW q \in Range(Observed["script"]), head'[q]["script"] # None
        PROVE  ScriptName[q] \in DOMAIN scripts' \/ Untold("script", q)'
    BY <1>3, <1>16, <2>1, <2>2, <2>3 DEF ScriptsTold
  <2>4. ASSUME NEW n \in DOMAIN scripts' PROVE ScriptKnown(n)'
    <3>1. ScriptKnown(n)
      BY <1>3, <2>1 DEF ScriptsTold
    <3>2. PICK q \in Range(Observed["script"]) :
              /\ ScriptName[q] = n /\ scripts[n][1] = q
              /\ head[q]["script"] \in {None, scripts[n][2]} \/ Untold("script", q)
      BY <3>1 DEF ScriptKnown
    <3>3. head'[q]["script"] \in {None, scripts'[n][2]} \/ Untold("script", q)'
      BY <1>16, <2>1, <2>2, <3>2
    <3>4. scripts'[n][1] = q
      BY <2>1, <3>2
    <3> QED BY <3>2, <3>3, <3>4 DEF ScriptKnown
  <2> QED BY <2>3, <2>4 DEF ScriptsTold
<1>18. PathsTold'
  <2> SUFFICES ASSUME NEW q \in Repos
               PROVE  \/ q \in paths' <=> q \in Range(Observed["data"]) /\ head'[q]["data"] # None
                      \/ Untold("data", q)'
    BY DEF PathsTold
  <2>1. CASE head'[q]["data"] = head[q]["data"]
    BY <1>1, <1>3, <1>4, <1>16, <2>1 DEF PathsTold, Serving
  <2>2. CASE head'[q]["data"] # head[q]["data"] /\ q \in Range(Observed["data"])
    BY <1>5, <1>14, <1>15, <2>2
  <2>3. CASE q \notin Range(Observed["data"])
    BY <1>1, <1>3, <1>4, <1>16, <2>3 DEF PathsTold, Serving
  <2> QED BY <2>1, <2>2, <2>3
<1>19. Followed'
  BY <1>1, <1>3, <1>5 DEF Followed, Serving
<1>20. CoresGood' /\ RoomsServed' /\ ScriptsOutlive'
  BY <1>1, RoomsKept DEF UInv
<1> QED BY <1>11, <1>12, <1>13, <1>17, <1>18, <1>19, <1>20 DEF UInv

\* One call of an observer is made: what it is about, and what is left to be told.
LEMMA NextCall ==
    ASSUME UInv, NEW call, calls # <<>>, calls[1] = call, calls' = Tail(calls),
           UNCHANGED <<outside, hooks, process, head>>
    PROVE  /\ calls' \in Seq(Calls)
           /\ OneAtATime' /\ CallsTrue' /\ Followed'
           /\ call \in Calls /\ call.repo \in Repos
           /\ call.repo \in Range(Observed[call.to])
           /\ call.added \subseteq FilesOf(head[call.repo])
           /\ call.removed \cap FilesOf(head[call.repo]) \subseteq call.added
           /\ process = "up" /\ call.to = "core" => Len(calls) = 1
           /\ \A p, q : Untold(p, q) =>
                \/ Untold(p, q)'
                \/ call.to = p /\ call.repo = q /\ p \in call.removed \cup call.added
<1>1. UTypes /\ OneAtATime /\ CallsTrue /\ Followed
  BY DEF UInv
<1>2. calls \in Seq(Calls)
  BY <1>1 DEF UTypes
<1>3. /\ calls' \in Seq(Calls) /\ Len(calls) \in Nat /\ Len(calls) >= 1
      /\ DOMAIN calls = 1..Len(calls) /\ DOMAIN calls' = 1..Len(calls) - 1
      /\ Len(calls') = Len(calls) - 1
      /\ \A i \in DOMAIN calls' : i + 1 \in DOMAIN calls /\ calls'[i] = calls[i + 1]
  BY <1>2, Rest
<1>4. 1 \in DOMAIN calls /\ call \in Calls
  BY <1>2, <1>3, ElementOfSeq
<1>5. call.repo \in Repos
  BY <1>4 DEF Calls
<1>6. UNCHANGED <<remote, announced, hook, missed, fetchHead, process, head>>
  BY DEF outside, hooks
<1>7. OneAtATime'
  <2>1. \A q \in Repos : hook[q] \notin {"fetch", "reset"}
    BY <1>1 DEF OneAtATime
  <2> QED BY <1>1, <1>6, <2>1 DEF OneAtATime, Busy
<1>8. CallsTrue'
  <2> SUFFICES ASSUME NEW i \in DOMAIN calls'
               PROVE  /\ calls'[i].repo \in Range(Observed[calls'[i].to])
                      /\ calls'[i].added \subseteq FilesOf(head[calls'[i].repo])
                      /\ calls'[i].removed \cap FilesOf(head[calls'[i].repo])
                            \subseteq calls'[i].added
                      /\ process = "up" /\ calls'[i].to = "core" => i = Len(calls')
    BY <1>6 DEF CallsTrue, FilesOf
  <2>1. i + 1 \in DOMAIN calls /\ calls'[i] = calls[i + 1] /\ i \in Nat
    BY <1>3
  <2>2. /\ calls[i + 1].repo \in Range(Observed[calls[i + 1].to])
        /\ calls[i + 1].added \subseteq FilesOf(head[calls[i + 1].repo])
        /\ calls[i + 1].removed \cap FilesOf(head[calls[i + 1].repo]) \subseteq calls[i + 1].added
        /\ process = "up" /\ calls[i + 1].to = "core" => i + 1 = Len(calls)
    BY <1>1, <2>1 DEF CallsTrue
  <2> QED BY <1>3, <2>1, <2>2
<1>9. Followed'
  BY <1>1, <1>6 DEF Followed, Serving
<1>10. /\ call.repo \in Range(Observed[call.to])
       /\ call.added \subseteq FilesOf(head[call.repo])
       /\ call.removed \cap FilesOf(head[call.repo]) \subseteq call.added
       /\ process = "up" /\ call.to = "core" => Len(calls) = 1
  BY <1>1, <1>4 DEF CallsTrue
<1>11. ASSUME NEW p, NEW q, Untold(p, q)
       PROVE  \/ Untold(p, q)'
              \/ call.to = p /\ call.repo = q /\ p \in call.removed \cup call.added
  <2>1. PICK i \in DOMAIN calls :
            calls[i].to = p /\ calls[i].repo = q /\ p \in calls[i].removed \cup calls[i].added
    BY <1>11 DEF Untold
  <2>2. CASE i = 1
    BY <2>1, <2>2
  <2>3. CASE i # 1
    <3>1. i - 1 \in DOMAIN calls' /\ (i - 1) + 1 = i
      BY <1>3, <2>3
    <3>2. calls'[i - 1] = calls[i]
      BY <1>3, <3>1
    <3> QED BY <2>1, <3>1, <3>2 DEF Untold
  <2> QED BY <2>2, <2>3
<1> QED BY <1>3, <1>4, <1>5, <1>7, <1>8, <1>9, <1>10, <1>11

\* A call to somebody else, or of nothing, changes nothing of what is to be told.
LEMMA OthersTold ==
    ASSUME UInv, NEW call, calls # <<>>, calls[1] = call, calls' = Tail(calls),
           UNCHANGED <<outside, hooks, process, head, paths, scripts>>,
           Empty(call) \/ call.to \notin {"script", "data"}
    PROVE  ScriptsTold' /\ PathsTold'
<1>1. UNCHANGED <<outside, hooks, process, head>> /\ UNCHANGED <<process, head, paths, scripts>>
  OBVIOUS
<1>2. \A p \in {"script", "data"} : \A q : Untold(p, q) => Untold(p, q)'
  <2>1. \A p, q : Untold(p, q) =>
                \/ Untold(p, q)'
                \/ call.to = p /\ call.repo = q /\ p \in call.removed \cup call.added
    BY <1>1, NextCall
  <2> QED BY <2>1 DEF Empty
<1>3. ScriptsTold /\ PathsTold
  BY DEF UInv
<1>4. ScriptsTold'
  BY <1>1, <1>2, <1>3 DEF ScriptsTold, ScriptKnown, Serving
<1>5. PathsTold'
  BY <1>1, <1>2, <1>3 DEF PathsTold, Serving
<1> QED BY <1>4, <1>5

LEMMA NothingToAddInv == ASSUME UInv, NEW call, NothingToAdd(call) PROVE UInv'
<1>1. /\ calls # <<>> /\ calls[1] = call /\ calls' = Tail(calls) /\ Empty(call)
      /\ UNCHANGED <<outside, hooks, process, head>>
      /\ UNCHANGED <<remote, announced, hook, missed, fetchHead, process, head, paths, scripts,
                     coreLoc, core, shouldTest, escaped, loadPerCall, room>>
      /\ UNCHANGED coreProvider
  BY DEF NothingToAdd, Made, outside, hooks, providers, data, coreProvider
<1>2. calls' \in Seq(Calls) /\ OneAtATime' /\ CallsTrue' /\ Followed'
  BY <1>1, NextCall
<1>3. ScriptsTold' /\ PathsTold'
  BY <1>1, OthersTold
<1>4. CoresGood' /\ RoomsServed' /\ ScriptsOutlive'
  BY <1>1, RoomsKept DEF UInv
<1>5. UTypes'
  BY <1>1, <1>2 DEF UInv, UTypes
<1> QED BY <1>2, <1>3, <1>4, <1>5 DEF UInv

LEMMA ReloadDatabasesInv == ASSUME UInv, NEW call, ReloadDatabases(call) PROVE UInv'
<1>1. /\ calls # <<>> /\ calls[1] = call /\ calls' = Tail(calls) /\ call.to = "data"
      /\ UNCHANGED <<outside, hooks, process, head>>
      /\ UNCHANGED <<remote, announced, hook, missed, fetchHead, process, head, scripts,
                     coreLoc, core, shouldTest, escaped, loadPerCall, room>>
      /\ UNCHANGED coreProvider
      /\ paths' = PathsAfter(call)
  BY DEF ReloadDatabases, Made, outside, hooks, coreProvider
<1>2. calls' \in Seq(Calls) /\ OneAtATime' /\ CallsTrue' /\ Followed'
  BY <1>1, NextCall
<1>3. /\ call.repo \in Range(Observed["data"])
      /\ call.added \subseteq FilesOf(head[call.repo])
      /\ call.removed \cap FilesOf(head[call.repo]) \subseteq call.added
      /\ call.removed \subseteq Providers
  BY <1>1, NextCall DEF Calls
<1>4. \A p, q : Untold(p, q) =>
        \/ Untold(p, q)'
        \/ call.to = p /\ call.repo = q /\ p \in call.removed \cup call.added
  BY <1>1, NextCall
<1>5. ScriptsTold'
  <2>1. \A q : Untold("script", q) => Untold("script", q)'
    BY <1>1, <1>4
  <2> QED BY <1>1, <2>1 DEF UInv, ScriptsTold, ScriptKnown, Serving
<1>6. PathsTold'
  <2> SUFFICES ASSUME Serving, NEW q \in Repos
               PROVE  \/ q \in paths' <=> q \in Range(Observed["data"]) /\ head[q]["data"] # None
                      \/ Untold("data", q)'
    BY <1>1 DEF PathsTold, Serving
  <2>1. \/ q \in paths <=> q \in Range(Observed["data"]) /\ head[q]["data"] # None
        \/ Untold("data", q)
    BY DEF UInv, PathsTold
  <2>2. /\ "data" \in FilesOf(head[q]) <=> head[q]["data"] # None
        /\ "data" \in Providers
    BY DEF FilesOf, Providers
  <2>3. CASE q # call.repo
    BY <1>1, <1>4, <2>1, <2>3 DEF PathsAfter
  <2>4. CASE q = call.repo /\ "data" \in call.added
    BY <1>1, <1>3, <2>2, <2>4 DEF PathsAfter
  <2>5. CASE q = call.repo /\ "data" \notin call.added /\ "data" \in call.removed
    BY <1>1, <1>3, <2>2, <2>5 DEF PathsAfter
  <2>6. CASE q = call.repo /\ "data" \notin call.added /\ "data" \notin call.removed
    BY <1>1, <1>4, <2>1, <2>6 DEF PathsAfter
  <2> QED BY <2>3, <2>4, <2>5, <2>6
<1>7. CoresGood' /\ RoomsServed' /\ ScriptsOutlive'
  BY <1>1, RoomsKept DEF UInv
<1>8. UTypes'
  BY <1>1, <1>2 DEF UInv, UTypes
<1> QED BY <1>2, <1>5, <1>6, <1>7, <1>8 DEF UInv

LEMMA LoadScriptsInv == ASSUME UInv, NEW call, LoadScripts(call) PROVE UInv'
<1> DEFINE name == ScriptName[call.repo]
<1>1. /\ calls # <<>> /\ calls[1] = call /\ calls' = Tail(calls) /\ call.to = "script"
      /\ UNCHANGED <<outside, hooks, process, head>>
      /\ UNCHANGED <<remote, announced, hook, missed, fetchHead, process, head, paths,
                     coreLoc, core, shouldTest, escaped, loadPerCall, room>>
      /\ scripts' = IF "script" \in call.added
                    THEN [n \in DOMAIN scripts \cup {name} |->
                              IF n = name THEN <<call.repo, head[call.repo]["script"]>>
                              ELSE scripts[n]]
                    ELSE scripts
  BY DEF LoadScripts, ScriptCall, Made, outside, hooks, data, coreProvider
<1>2. calls' \in Seq(Calls) /\ OneAtATime' /\ CallsTrue' /\ Followed'
  BY <1>1, NextCall
<1>3. /\ call.repo \in Range(Observed["script"])
      /\ call.added \subseteq FilesOf(head[call.repo])
      /\ call.removed \cap FilesOf(head[call.repo]) \subseteq call.added
  BY <1>1, NextCall
<1>4. \A p, q : Untold(p, q) =>
        \/ Untold(p, q)'
        \/ call.to = p /\ call.repo = q /\ p \in call.removed \cup call.added
  BY <1>1, NextCall
<1> HIDE DEF name
<1>5. /\ DOMAIN scripts \subseteq DOMAIN scripts'
      /\ \A n \in DOMAIN scripts' : n # name => n \in DOMAIN scripts /\ scripts'[n] = scripts[n]
      /\ "script" \in call.added =>
            name \in DOMAIN scripts' /\ scripts'[name] = <<call.repo, head[call.repo]["script"]>>
      /\ "script" \notin call.added => scripts' = scripts
  BY <1>1
\* Whoever was still to be told of this call has no script, if none was added.
<1>6. ASSUME NEW q, Untold("script", q), "script" \notin call.added
      PROVE  Untold("script", q)' \/ head[q]["script"] = None
  BY <1>3, <1>4, <1>6 DEF FilesOf, Providers
<1>7. ScriptsTold'
  <2> SUFFICES ASSUME Serving PROVE ScriptsTold'
    BY <1>1 DEF ScriptsTold, Serving
  <2>1. ScriptsTold
    BY DEF UInv
  <2>2. ASSUME NEW q \in Range(Observed["script"]), head[q]["script"] # None
        PROVE  ScriptName[q] \in DOMAIN scripts' \/ Untold("script", q)'
    <3>1. ScriptName[q] \in DOMAIN scripts \/ Untold("script", q)
      BY <2>1, <2>2 DEF ScriptsTold
    <3>2. CASE "script" \in call.added
      BY <1>4, <1>5, <3>1, <3>2 DEF name
    <3>3. CASE "script" \notin call.added
      BY <1>5, <1>6, <2>2, <3>1, <3>3
    <3> QED BY <3>2, <3>3
  <2>3. ASSUME NEW n \in DOMAIN scripts' PROVE ScriptKnown(n)'
    <3>1. CASE n = name /\ "script" \in call.added
      <4>1. /\ scripts'[n][1] = call.repo /\ scripts'[n][2] = head'[call.repo]["script"]
        BY <1>1, <1>5, <3>1
      <4> QED BY <1>3, <3>1, <4>1 DEF ScriptKnown, name
    <3>2. CASE n # name \/ "script" \notin call.added
      <4>1. n \in DOMAIN scripts /\ scripts'[n] = scripts[n]
        BY <1>5, <3>2
      <4>2. PICK q \in Range(Observed["script"]) :
                /\ ScriptName[q] = n /\ scripts[n][1] = q
                /\ head[q]["script"] \in {None, scripts[n][2]} \/ Untold("script", q)
        BY <2>1, <4>1 DEF ScriptsTold, ScriptKnown
      <4>3. head[q]["script"] \in {None, scripts[n][2]} \/ Untold("script", q)'
        <5>1. CASE n # name
          BY <1>4, <4>2, <5>1 DEF name
        <5>2. CASE "script" \notin call.added
          BY <1>6, <4>2, <5>2
        <5> QED BY <3>2, <5>1, <5>2
      <4> QED BY <1>1, <4>1, <4>2, <4>3 DEF ScriptKnown
    <3> QED BY <3>1, <3>2
  <2>4. ASSUME NEW q \in Range(Observed["script"]), head'[q]["script"] # None
        PROVE  ScriptName[q] \in DOMAIN scripts' \/ Untold("script", q)'
    BY <1>1, <2>2, <2>4
  <2> QED BY <2>3, <2>4 DEF ScriptsTold
<1>8. PathsTold'
  <2>1. \A q : Untold("data", q) => Untold("data", q)'
    BY <1>1, <1>4
  <2> QED BY <1>1, <2>1 DEF UInv, PathsTold, Serving
<1>9. CoresGood' /\ RoomsServed' /\ ScriptsOutlive'
  BY <1>1, <1>5 DEF UInv, CoresGood, RoomsServed, ScriptsOutlive
<1>10. UTypes'
  BY <1>1, <1>2 DEF UInv, UTypes
<1> QED BY <1>2, <1>7, <1>8, <1>9, <1>10 DEF UInv

LEMMA LoadBanlistsInv == ASSUME UInv, NEW call, LoadBanlists(call) PROVE UInv'
<1>1. /\ calls # <<>> /\ calls[1] = call /\ calls' = Tail(calls) /\ call.to = "banlist"
      /\ UNCHANGED <<outside, hooks, process, head>>
      /\ UNCHANGED <<outside, hooks, process, head, paths, scripts>>
      /\ UNCHANGED <<remote, announced, hook, missed, fetchHead, process, head, paths, scripts,
                     coreLoc, core, shouldTest, escaped, loadPerCall, room>>
      /\ UNCHANGED coreProvider
  BY DEF LoadBanlists, Made, outside, hooks, data, coreProvider
<1>2. calls' \in Seq(Calls) /\ OneAtATime' /\ CallsTrue' /\ Followed'
  BY <1>1, NextCall
<1>3. ScriptsTold' /\ PathsTold'
  BY <1>1, OthersTold
<1>4. CoresGood' /\ RoomsServed' /\ ScriptsOutlive'
  BY <1>1, RoomsKept DEF UInv
<1>5. UTypes'
  BY <1>1, <1>2 DEF UInv, UTypes
<1> QED BY <1>2, <1>3, <1>4, <1>5 DEF UInv

\* The end of the process leaves nothing to be told and nobody in a room.
LEMMA EndsInv ==
    ASSUME UInv, Ends, UNCHANGED <<outside, head, paths, scripts, loadPerCall>>, CoresGood',
           shouldTest' \in BOOLEAN, escaped' \in BOOLEAN, room' = [x \in Rooms |-> NoRoom]
    PROVE  UInv'
<1>1. /\ UNCHANGED <<remote, head, paths, scripts, loadPerCall, fetchHead>>
      /\ process' = "down" /\ calls' = <<>>
      /\ announced' = [r \in Repos |-> FALSE] /\ missed' = [r \in Repos |-> FALSE]
      /\ hook' = [r \in Repos |-> "none"]
  BY DEF Ends, outside
<1>2. UTypes'
  <2>1. calls' \in Seq(Calls)
    BY <1>1, EmptySeq
  <2>2. \A x \in Rooms : DOMAIN room'[x] = {"at", "db", "scripts", "core"}
    BY DEF NoRoom
  <2>3. /\ announced' \in [Repos -> BOOLEAN] /\ missed' \in [Repos -> BOOLEAN]
        /\ hook' \in [Repos -> HookStages]
    BY <1>1 DEF HookStages
  <2> QED BY <1>1, <2>1, <2>2, <2>3 DEF UInv, UTypes
<1>3. OneAtATime' /\ CallsTrue'
  BY <1>1 DEF OneAtATime, Busy, CallsTrue
<1>4. ScriptsTold' /\ PathsTold' /\ Followed'
  BY <1>1 DEF ScriptsTold, PathsTold, Followed, Serving
<1>5. RoomsServed'
  BY DEF RoomsServed
<1>6. ScriptsOutlive'
  BY DEF ScriptsOutlive, NoRoom
<1> QED BY <1>2, <1>3, <1>4, <1>5, <1>6 DEF UInv

\* A call of CoreProvider's that returns.
LEMMA CoreReturns ==
    ASSUME UInv, NEW call, call.to = "core", calls # <<>>, calls[1] = call, calls' = Tail(calls),
           UNCHANGED <<outside, hooks, process, head, data, scripts, loadPerCall, room>>,
           CoresGood', shouldTest' \in BOOLEAN, escaped' \in BOOLEAN
    PROVE  UInv'
<1>1. /\ UNCHANGED <<outside, hooks, process, head>>
      /\ UNCHANGED <<outside, hooks, process, head, paths, scripts>>
      /\ UNCHANGED <<remote, announced, hook, missed, fetchHead, process, head, paths, scripts,
                     loadPerCall, room>>
  BY DEF outside, hooks, data
<1>2. calls' \in Seq(Calls) /\ OneAtATime' /\ CallsTrue' /\ Followed'
  BY <1>1, NextCall
<1>3. ScriptsTold' /\ PathsTold'
  BY <1>1, OthersTold
<1>4. RoomsServed' /\ ScriptsOutlive'
  BY <1>1 DEF UInv, RoomsServed, ScriptsOutlive
<1>5. UTypes'
  BY <1>1, <1>2 DEF UInv, UTypes
<1> QED BY <1>2, <1>3, <1>4, <1>5 DEF UInv

\* A call of CoreProvider's that throws: it is the last one, or it ends the process.
LEMMA CoreThrows ==
    ASSUME UInv, NEW call, call.to = "core", calls # <<>>, calls[1] = call, Throw,
           UNCHANGED <<outside, head, data, scripts, loadPerCall, room, core, shouldTest>>
    PROVE  UInv'
<1>1. UNCHANGED <<outside, head, paths, scripts, loadPerCall>>
  BY DEF data
<1>2. escaped' = TRUE /\ shouldTest' = shouldTest /\ core' = core /\ loadPerCall' = loadPerCall
  BY DEF Throw
<1>3. CoresGood' /\ shouldTest' \in BOOLEAN /\ escaped' \in BOOLEAN
  <2>1. CoresGood /\ shouldTest \in BOOLEAN
    BY DEF UInv, UTypes
  <2> QED BY <1>2, <2>1 DEF CoresGood, Good
<1>4. CASE process = "starting"
  <2>1. Ends
    BY <1>4 DEF Throw
  <2>2. DOMAIN room = Rooms /\ \A x \in Rooms : room[x] = NoRoom
    BY <1>4 DEF UInv, UTypes, RoomsServed
  <2>3. room = [x \in Rooms |-> room[x]]
    BY DEF UInv, UTypes
  <2>4. room' = [x \in Rooms |-> NoRoom]
    BY <2>2, <2>3
  <2> QED BY <1>1, <1>3, <2>1, <2>4, EndsInv
<1>5. CASE process # "starting" /\ process # "up"
  <2>1. /\ calls' = <<>> /\ UNCHANGED <<process, hooks>>
    BY <1>5 DEF Throw
  <2>2. UNCHANGED <<remote, announced, hook, missed, fetchHead, process, head, paths, scripts,
                    loadPerCall, room>>
    BY <2>1 DEF outside, hooks, data
  <2>3. UTypes'
    BY <1>3, <2>1, <2>2, EmptySeq DEF UInv, UTypes
  <2>4. OneAtATime' /\ CallsTrue'
    BY <2>1, <2>2 DEF UInv, OneAtATime, Busy, CallsTrue
  <2>5. ScriptsTold' /\ PathsTold' /\ Followed'
    BY <1>5, <2>2 DEF UInv, ScriptsTold, PathsTold, Followed, Serving
  <2>6. RoomsServed' /\ ScriptsOutlive'
    BY <2>2 DEF UInv, RoomsServed, ScriptsOutlive
  <2> QED BY <1>3, <2>3, <2>4, <2>5, <2>6 DEF UInv
<1>6. CASE process = "up"
  <2>1. calls' = <<>> /\ UNCHANGED <<process, hooks>>
    BY <1>6 DEF Throw
  <2>2. calls \in Seq(Calls) /\ CallsTrue
    BY DEF UInv, UTypes
  <2>3. 1 \in DOMAIN calls /\ Len(calls) \in Nat
    BY <2>2
  <2>4. Len(calls) = 1
    BY <1>6, <2>2, <2>3 DEF CallsTrue
  <2>5. Tail(calls) = <<>>
    <3>1. Tail(calls) \in Seq(Calls) /\ Len(Tail(calls)) = 0
      <4>1. calls # <<>>
        OBVIOUS
      <4> QED BY <2>2, <2>4, <4>1, HeadTailProperties
    <3> QED BY <3>1, EmptySeq
  <2>6. calls' = Tail(calls)
    BY <2>1, <2>5
  <2>7. UNCHANGED <<outside, hooks, process, head, data, scripts, loadPerCall, room>>
    BY <2>1
  <2> QED BY <1>3, <2>6, <2>7, CoreReturns
<1> QED BY <1>4, <1>5, <1>6

LEMMA OnGitUpdateInv == ASSUME UInv, NEW call, OnGitUpdate(call) PROVE UInv'
<1>1. CoresGood /\ UTypes
  BY DEF UInv
<1>2. CASE NoCoreFound(call)
  <2>1. /\ call.to = "core" /\ calls # <<>> /\ calls[1] = call
        /\ UNCHANGED <<outside, head, data, scripts, loadPerCall, room, core, shouldTest>>
        /\ coreLoc' = coreLoc
    BY <1>2 DEF NoCoreFound
  <2>2. CASE shouldTest
    BY <1>2, <2>1, <2>2, CoreThrows DEF NoCoreFound
  <2>3. CASE ~ shouldTest
    <3>1. calls' = Tail(calls) /\ UNCHANGED <<process, hooks, escaped>>
      BY <1>2, <2>3 DEF NoCoreFound
    <3>2. CoresGood' /\ shouldTest' \in BOOLEAN /\ escaped' \in BOOLEAN
      BY <1>1, <2>1, <3>1 DEF CoresGood, UTypes
    <3>3. UNCHANGED <<outside, hooks, process, head, data, scripts, loadPerCall, room>>
      BY <2>1, <3>1
    <3> QED BY <2>1, <3>1, <3>2, <3>3, CoreReturns
  <2> QED BY <2>2, <2>3
<1>3. CASE CopyFails(call)
  <2>1. /\ call.to = "core" /\ calls # <<>> /\ calls[1] = call /\ Throw
        /\ UNCHANGED <<outside, head, data, scripts, loadPerCall, room, core, shouldTest>>
    BY <1>3 DEF CopyFails, CoreCall
  <2> QED BY <2>1, CoreThrows
<1>4. CASE LoadFails(call)
  <2>1. /\ call.to = "core" /\ calls # <<>> /\ calls[1] = call /\ Throw
        /\ UNCHANGED <<outside, head, data, scripts, loadPerCall, room, core, shouldTest>>
    BY <1>4 DEF LoadFails, CoreCall
  <2> QED BY <2>1, CoreThrows
<1>5. CASE TestFails(call)
  <2>1. /\ call.to = "core" /\ calls # <<>> /\ calls[1] = call
        /\ UNCHANGED <<outside, head, data, scripts, loadPerCall, room, core, shouldTest>>
    BY <1>5 DEF TestFails, CoreCall
  <2>2. CASE shouldTest
    BY <1>5, <2>1, <2>2, CoreThrows DEF TestFails
  <2>3. CASE ~ shouldTest
    <3>1. calls' = Tail(calls) /\ UNCHANGED <<process, hooks, escaped, coreLoc>>
      BY <1>5, <2>3 DEF TestFails
    <3>2. CoresGood' /\ shouldTest' \in BOOLEAN /\ escaped' \in BOOLEAN
      BY <1>1, <2>1, <3>1 DEF CoresGood, UTypes
    <3>3. UNCHANGED <<outside, hooks, process, head, data, scripts, loadPerCall, room>>
      BY <2>1, <3>1
    <3> QED BY <2>1, <3>1, <3>2, <3>3, CoreReturns
  <2> QED BY <2>2, <2>3
<1>6. CASE TestSucceeds(call)
  <2>1. /\ call.to = "core" /\ "core" \in call.added /\ calls # <<>> /\ calls[1] = call
        /\ calls' = Tail(calls)
        /\ UNCHANGED <<outside, hooks, process, head>>
        /\ UNCHANGED <<outside, hooks, process, head, data, scripts, loadPerCall, room>>
        /\ UNCHANGED <<escaped, loadPerCall, room>>
        /\ head[call.repo]["core"] \notin Unloadable \cup Failing
        /\ coreLoc' = head[call.repo]["core"] /\ shouldTest' = FALSE
        /\ core' = IF loadPerCall THEN core ELSE head[call.repo]["core"]
    BY <1>6 DEF TestSucceeds, CoreCall
  <2>2. call.added \subseteq FilesOf(head[call.repo])
    BY <2>1, NextCall
  <2>3. Good(head[call.repo]["core"])
    BY <2>1, <2>2 DEF Good, FilesOf
  <2>4. CoresGood'
    <3>1. coreLoc' # None /\ (core' = core \/ core' = coreLoc') /\ (~ loadPerCall => core' # None)
      BY <2>1, <2>3 DEF Good
    <3> QED BY <1>1, <2>1, <2>3, <3>1 DEF CoresGood
  <2>5. shouldTest' \in BOOLEAN /\ escaped' \in BOOLEAN
    BY <1>1, <2>1 DEF UTypes
  <2> QED BY <2>1, <2>4, <2>5, CoreReturns
<1> QED BY <1>2, <1>3, <1>4, <1>5, <1>6 DEF OnGitUpdate

\* The steps of rooms change their own things, and the end of the process.
LEMMA RoomKeeps ==
    ASSUME UInv, UNCHANGED <<outside, process, hooks, head, calls, providers, loadPerCall>>,
           NEW x \in Rooms, NEW entry, room' = [room EXCEPT ![x] = entry],
           DOMAIN entry = {"at", "db", "scripts", "core"},
           process # "up" => entry = NoRoom,
           entry.scripts \subseteq DOMAIN scripts,
           (~ escaped \/ ~ loadPerCall) /\ entry.at = "duels" => Good(entry.core)
    PROVE  UInv'
<1>1. /\ UNCHANGED <<remote, announced, hook, missed, fetchHead, process, head, calls, paths,
                     scripts, coreLoc, core, shouldTest, escaped, loadPerCall>>
      /\ UNCHANGED <<head, calls, paths, scripts>>
  BY DEF outside, hooks, providers, data, coreProvider
<1>2. UTypes /\ RoomsServed /\ CoresGood /\ ScriptsOutlive
  BY DEF UInv
<1>3. /\ DOMAIN room' = Rooms /\ room'[x] = entry
      /\ \A y \in Rooms \ {x} : room'[y] = room[y]
      /\ room' = [y \in Rooms |-> room'[y]]
  BY <1>2 DEF UTypes
<1>5. UTypes'
  <2>1. \A y \in Rooms : DOMAIN room'[y] = {"at", "db", "scripts", "core"}
    BY <1>2, <1>3 DEF UTypes
  <2> QED BY <1>1, <1>2, <1>3, <2>1 DEF UTypes
<1>6. OneAtATime' /\ Followed'
  BY <1>1 DEF UInv, OneAtATime, Busy, Followed, Serving
<1>7. CallsTrue' /\ ScriptsTold' /\ PathsTold'
  BY <1>1, ToldKept DEF UInv
<1>8. CoresGood'
  BY <1>1, <1>2, <1>3 DEF CoresGood
<1>9. RoomsServed' /\ ScriptsOutlive'
  BY <1>1, <1>2, <1>3 DEF RoomsServed, ScriptsOutlive
<1> QED BY <1>5, <1>6, <1>7, <1>8, <1>9 DEF UInv

LEMMA GetDatabaseInv == ASSUME UInv, NEW x \in Rooms, GetDatabase(x) PROVE UInv'
<1> DEFINE entry == [NoRoom EXCEPT !.at = "hosts", !.db = db, !.scripts = DOMAIN scripts]
<1>1. /\ UNCHANGED <<outside, process, hooks, head, calls, providers, loadPerCall>>
      /\ room' = [room EXCEPT ![x] = entry] /\ process = "up"
  BY DEF GetDatabase
<1>2. /\ DOMAIN entry = {"at", "db", "scripts", "core"}
      /\ entry.at = "hosts" /\ entry.scripts = DOMAIN scripts
  BY DEF NoRoom
<1> HIDE DEF entry
<1>3. PICK e : e = entry
  OBVIOUS
<1> QED BY <1>1, <1>2, <1>3, RoomKeeps

\* The core the next room is given is a good one.
LEMMA GivenCore ==
    ASSUME UInv, ~ escaped \/ ~ loadPerCall, NextCore # None PROVE Good(NextCore)
BY DEF UInv, UTypes, CoresGood, NextCore

LEMMA GetCoreInv == ASSUME UInv, NEW x \in Rooms, GetCore(x) PROVE UInv'
<1>1. /\ UNCHANGED <<outside, head, providers, loadPerCall>>
      /\ UNCHANGED <<outside, head, paths, scripts, coreLoc, core, shouldTest, escaped, loadPerCall>>
      /\ process = "up"
  BY DEF GetCore, providers, data, coreProvider
<1>2. UTypes /\ CoresGood /\ ScriptsOutlive
  BY DEF UInv
<1>3. CASE NextCore \in Unloadable \cup {None}
  <2>1. Ends /\ room' = [y \in Rooms |-> NoRoom]
    BY <1>3 DEF GetCore
  <2>2. CoresGood' /\ shouldTest' \in BOOLEAN /\ escaped' \in BOOLEAN
    BY <1>1, <1>2, <2>1 DEF CoresGood, UTypes, NoRoom
  <2> QED BY <1>1, <2>1, <2>2, EndsInv
<1>4. CASE NextCore \notin Unloadable \cup {None}
  <2> DEFINE entry == [room[x] EXCEPT !.at = "duels", !.core = NextCore]
  <2>1. /\ UNCHANGED <<outside, process, hooks, head, calls, providers, loadPerCall>>
        /\ room' = [room EXCEPT ![x].at = "duels", ![x].core = NextCore]
    BY <1>1, <1>4 DEF GetCore
  <2>2. room' = [room EXCEPT ![x] = entry]
    BY <2>1
  <2>3. /\ DOMAIN entry = {"at", "db", "scripts", "core"}
        /\ entry.scripts = room[x].scripts /\ entry.core = NextCore
    BY <1>2 DEF UTypes
  <2>4. entry.scripts \subseteq DOMAIN scripts
    BY <1>2, <2>3 DEF ScriptsOutlive
  <2>5. (~ escaped \/ ~ loadPerCall) /\ entry.at = "duels" => Good(entry.core)
    BY <1>4, <2>3, GivenCore
  <2> HIDE DEF entry
  <2> QED BY <1>1, <2>1, <2>2, <2>3, <2>4, <2>5, RoomKeeps
<1> QED BY <1>3, <1>4

LEMMA CloseRoomInv == ASSUME UInv, NEW x \in Rooms, CloseRoom(x) PROVE UInv'
<1>1. /\ UNCHANGED <<outside, process, hooks, head, calls, providers, loadPerCall>>
      /\ room' = [room EXCEPT ![x] = NoRoom]
  BY DEF CloseRoom
<1>2. /\ DOMAIN NoRoom = {"at", "db", "scripts", "core"}
      /\ NoRoom.at = "none" /\ NoRoom.scripts \subseteq DOMAIN scripts
  BY DEF NoRoom
<1> QED BY <1>1, <1>2, RoomKeeps

LEMMA Same == ASSUME UInv, UNCHANGED vars PROVE UInv'
<1>1. /\ UNCHANGED <<outside, process, hooks, head, calls, providers, loadPerCall, room>>
      /\ UNCHANGED <<announced, hook, missed, fetchHead>>
  BY DEF vars, hooks
<1>2. UTypes /\ OneAtATime /\ Followed
  BY DEF UInv
<1>3. /\ UTypes' /\ CallsTrue' /\ ScriptsTold' /\ PathsTold'
      /\ CoresGood' /\ RoomsServed' /\ ScriptsOutlive'
  BY <1>1, <1>2, HookKeeps DEF UTypes
<1>4. OneAtATime' /\ Followed'
  BY <1>1, <1>2 DEF OneAtATime, Busy, Followed, Serving, outside
<1> QED BY <1>3, <1>4 DEF UInv

LEMMA UStep == UInv /\ [Next]_vars => UInv'
<1> SUFFICES ASSUME UInv, [Next]_vars PROVE UInv'
  OBVIOUS
<1>1. CASE Listen
  BY <1>1, ListenInv
<1>2. CASE Start
  BY <1>2, StartInv
<1>3. CASE Run
  BY <1>3, RunInv
<1>4. CASE Notify
  <2>1. PICK call : \/ NothingToAdd(call) \/ ReloadDatabases(call) \/ LoadScripts(call)
                    \/ LoadBanlists(call) \/ OnGitUpdate(call)
    BY <1>4 DEF Notify
  <2> QED BY <2>1, NothingToAddInv, ReloadDatabasesInv, LoadScriptsInv, LoadBanlistsInv,
             OnGitUpdateInv
<1>5. CASE \E r \in Repos : Hook(r)
  <2>1. PICK r \in Repos : Hook(r)
    BY <1>5
  <2> QED BY <2>1, DoAcceptInv, DoReadHeaderInv, FetchInv, CallbackInv, GitFailsInv,
             DoWriteInv DEF Hook
<1>6. CASE \E r \in Repos, p \in Providers :
             \E content \in Contents[p] \cup {None} : Push(r, p, content)
  BY <1>6, PushInv
<1>7. CASE \E x \in Rooms : Play(x)
  <2>1. PICK x \in Rooms : Play(x)
    BY <1>7
  <2> QED BY <2>1, GetDatabaseInv, GetCoreInv, CloseRoomInv DEF Play
<1>8. CASE UNCHANGED vars
  BY <1>8, Same
<1> QED BY <1>1, <1>2, <1>3, <1>4, <1>5, <1>6, <1>7, <1>8 DEF Next

\* Whatever is pushed, fetched, failed and played, in whatever order: one update
\* is made at a time, its calls tell of the files that are there, and what is
\* not told yet is all that the providers do not know.
THEOREM UpdatesInvariance == Spec => []UInv
<1>1. Init => UInv
  BY UInitInv
<1>2. UInv /\ [Next]_vars => UInv'
  BY UStep
<1> QED BY <1>1, <1>2, PTL DEF Spec

\* Announced changes are not lost: the files are the remote repository's once
\* no call of the webhook is left, unless the last has come to nothing.
THEOREM AnnouncedIsTaken == Spec => []AnnouncedTaken
<1>1. UInv => AnnouncedTaken
  BY DEF UInv, Followed, Serving, AnnouncedTaken
<1> QED BY <1>1, UpdatesInvariance, PTL

\* Rooms are given cores that were tested, and the next one can be loaded, unless
\* each loads its own and an exception has left OnGitUpdate.
THEOREM CoresAreTested == Spec => []CoreTested
<1>1. UInv => CoreTested
  BY DEF UInv, UTypes, CoresGood, Good, CoreTested, NextCore
<1> QED BY <1>1, UpdatesInvariance, PTL

\* The cards of a room keep their scripts through every update.
THEOREM ScriptsDoOutlive == Spec => []ScriptsOutlive
<1>1. UInv => ScriptsOutlive
  BY DEF UInv
<1> QED BY <1>1, UpdatesInvariance, PTL

\* Giving a room its core does not end the server, once a core was tested, unless
\* each room loads its own and an exception has left OnGitUpdate.
CoreIsGiven ==
    process = "up" /\ ~ shouldTest /\ (escaped => ~ loadPerCall) =>
        \A x \in Rooms : GetCore(x) => process' = "up"
THEOREM CoresAreGiven == Spec => [][CoreIsGiven]_vars
<1>1. UInv => CoreIsGiven
  <2> SUFFICES ASSUME UInv, process = "up", ~ shouldTest, escaped => ~ loadPerCall,
                      NEW x \in Rooms, GetCore(x)
               PROVE  process' = "up"
    BY DEF CoreIsGiven
  <2>1. NextCore # None
    BY DEF UInv, UTypes, CoresGood, Good, NextCore
  <2>2. Good(NextCore)
    BY <2>1, GivenCore DEF UInv, UTypes
  <2> QED BY <2>2 DEF GetCore, Good
<1> QED BY <1>1, UpdatesInvariance, PTL

\* The least number of a set, and with it induction over numbers.
LEMMA LeastNumber ==
    ASSUME NEW T \in SUBSET Nat, T # {}
    PROVE  \E n \in T : \A k \in T : n <= k
<1> DEFINE R == OpToRel(<, Nat)
<1>1. IsWellFoundedOn(R, Nat)
  BY NatLessThanWellFounded
<1>2. \A x, y \in Nat : <<x, y>> \in R <=> x < y
  BY DEF OpToRel
<1> HIDE DEF R
<1>3. PICK n \in T : \A k \in T : ~ (<<k, n>> \in R)
  BY <1>1, WFMin
<1>4. n \in Nat /\ \A k \in T : k \in Nat /\ ~ (k < n)
  BY <1>2, <1>3
<1> QED BY <1>4

LEMMA Counting ==
    ASSUME NEW P \in SUBSET Nat, 0 \in P, \A n \in P : n + 1 \in P
    PROVE  P = Nat
<1> SUFFICES ASSUME Nat \ P # {} PROVE FALSE
  OBVIOUS
<1>1. PICK n \in Nat \ P : \A k \in Nat \ P : n <= k
  <2>1. Nat \ P \in SUBSET Nat
    OBVIOUS
  <2> QED BY <2>1, LeastNumber
<1>2. n - 1 \in Nat \ P
  BY <1>1
<1> QED BY <1>1, <1>2

\* The databases that were merged before each place in the order of paths.
LEMMA MergedInOrder ==
    ASSUME NEW files
    PROVE  \E merged :
              /\ MergeAll(files) = merged[Len(PathOrder)]
              /\ merged[0] = NewDatabase
              /\ \A i \in 1..Len(PathOrder) :
                    merged[i] = IF PathOrder[i] \in files THEN Merge(merged[i - 1], PathOrder[i])
                                ELSE merged[i - 1]
<1> DEFINE Is(g, k) == g = [i \in 0..k |-> IF i = 0 THEN NewDatabase
                               ELSE IF PathOrder[i] \in files THEN Merge(g[i - 1], PathOrder[i])
                               ELSE g[i - 1]]
           P == {k \in Nat : \E g : Is(g, k)}
           n == Len(PathOrder)
<1>1. n \in Nat
  BY UpdatesAssumption
<1>2. 0 \in P
  <2>1. Is([i \in 0..0 |-> NewDatabase], 0)
    OBVIOUS
  <2> QED BY <2>1
<1>3. ASSUME NEW k \in P PROVE k + 1 \in P
  <2>1. k \in Nat /\ \E g : Is(g, k)
    OBVIOUS
  <2>2. PICK g : Is(g, k)
    BY <2>1
  <2> DEFINE last == IF PathOrder[k + 1] \in files THEN Merge(g[k], PathOrder[k + 1]) ELSE g[k]
             h == [i \in 0..(k + 1) |-> IF i <= k THEN g[i] ELSE last]
  <2>3. ASSUME NEW i \in 0..(k + 1)
        PROVE  h[i] = IF i = 0 THEN NewDatabase
                      ELSE IF PathOrder[i] \in files THEN Merge(h[i - 1], PathOrder[i])
                      ELSE h[i - 1]
    <3>1. CASE i <= k
      <4>1. h[i] = g[i] /\ (i # 0 => h[i - 1] = g[i - 1])
        BY <2>1, <3>1
      <4>2. g[i] = IF i = 0 THEN NewDatabase
                   ELSE IF PathOrder[i] \in files THEN Merge(g[i - 1], PathOrder[i])
                   ELSE g[i - 1]
        BY <2>1, <2>2, <3>1
      <4> HIDE DEF h
      <4> QED BY <4>1, <4>2
    <3>2. CASE i = k + 1
      <4>1. h[i] = last /\ h[i - 1] = g[k] /\ i # 0
        BY <2>1, <3>2
      <4> HIDE DEF h
      <4> QED BY <3>2, <4>1
    <3> QED BY <2>1, <3>1, <3>2
  <2>4. Is(h, k + 1)
    <3>1. h = [i \in 0..(k + 1) |-> h[i]]
      OBVIOUS
    <3> HIDE DEF h
    <3> QED BY <2>3, <3>1
  <2> HIDE DEF h, Is
  <2> QED BY <2>1, <2>4
<1>4. \E g : Is(g, n)
  <2> HIDE DEF Is
  <2>1. P \in SUBSET Nat
    OBVIOUS
  <2> HIDE DEF P
  <2>2. P = Nat
    BY <1>2, <1>3, <2>1, Counting
  <2> QED BY <1>1, <2>2 DEF P
<1> DEFINE merged == CHOOSE g : Is(g, n)
<1>5. Is(merged, n)
  <2> HIDE DEF Is
  <2> QED BY <1>4
<1>6. MergeAll(files) = merged[n]
  BY DEF MergeAll
<1> HIDE DEF merged
<1> QED BY <1>1, <1>5, <1>6

\* The row of code c in a database that holds what was merged from the first i files.
RowsAt(j) == Rows[head[PathOrder[j]]["data"]]
LastAt(j, i, c, files) ==
    /\ j \in 1..i /\ PathOrder[j] \in files /\ c \in RowsAt(j)
    /\ \A k \in 1..i : PathOrder[k] \in files /\ c \in RowsAt(k) => k <= j
MergedUpTo(i, cards, files) ==
    /\ DOMAIN cards = UNION {RowsAt(j) : j \in {k \in 1..i : PathOrder[k] \in files}}
    /\ \A c \in DOMAIN cards : \E j \in 1..i :
            LastAt(j, i, c, files) /\ cards[c] = <<PathOrder[j], head[PathOrder[j]]["data"]>>

\* One more database, if there is one at this place that can be attached.
LEMMA OneMerged ==
    ASSUME NEW i \in Nat, NEW cards, NEW after, NEW files, MergedUpTo(i, cards, files),
           IF PathOrder[i + 1] \in files
             THEN /\ DOMAIN after = DOMAIN cards \cup RowsAt(i + 1)
                  /\ \A c \in DOMAIN after :
                        after[c] = IF c \in RowsAt(i + 1)
                                     THEN <<PathOrder[i + 1], head[PathOrder[i + 1]]["data"]>>
                                     ELSE cards[c]
             ELSE after = cards
    PROVE  MergedUpTo(i + 1, after, files)
<1>1. 1..(i + 1) = (1..i) \cup {i + 1} /\ \A j \in 1..i : j <= i /\ j \in Nat
  OBVIOUS
<1>2. ASSUME PathOrder[i + 1] \in files, NEW c \in RowsAt(i + 1)
      PROVE  LastAt(i + 1, i + 1, c, files)
  BY <1>1, <1>2 DEF LastAt
<1>3. ASSUME NEW c, NEW j \in 1..i, LastAt(j, i, c, files),
             ~ (PathOrder[i + 1] \in files /\ c \in RowsAt(i + 1))
      PROVE  LastAt(j, i + 1, c, files)
  BY <1>1, <1>3 DEF LastAt
<1>4. CASE PathOrder[i + 1] \in files
  <2>1. {k \in 1..(i + 1) : PathOrder[k] \in files}
            = {k \in 1..i : PathOrder[k] \in files} \cup {i + 1}
    BY <1>1, <1>4
  <2>2. DOMAIN after = UNION {RowsAt(j) : j \in {k \in 1..(i + 1) : PathOrder[k] \in files}}
    BY <1>4, <2>1 DEF MergedUpTo
  <2>3. ASSUME NEW c \in DOMAIN after
        PROVE  \E j \in 1..(i + 1) : /\ LastAt(j, i + 1, c, files)
                                     /\ after[c] = <<PathOrder[j], head[PathOrder[j]]["data"]>>
    <3>1. CASE c \in RowsAt(i + 1)
      BY <1>1, <1>2, <1>4, <3>1
    <3>2. CASE c \notin RowsAt(i + 1)
      <4>1. c \in DOMAIN cards /\ after[c] = cards[c]
        BY <1>4, <3>2
      <4>2. PICK j \in 1..i : /\ LastAt(j, i, c, files)
                              /\ cards[c] = <<PathOrder[j], head[PathOrder[j]]["data"]>>
        BY <4>1 DEF MergedUpTo
      <4> QED BY <1>1, <1>3, <3>2, <4>1, <4>2
    <3> QED BY <3>1, <3>2
  <2> QED BY <2>2, <2>3 DEF MergedUpTo
<1>5. CASE PathOrder[i + 1] \notin files
  <2>1. {k \in 1..(i + 1) : PathOrder[k] \in files} = {k \in 1..i : PathOrder[k] \in files}
    BY <1>1, <1>5
  <2>2. ASSUME NEW c \in DOMAIN after
        PROVE  \E j \in 1..(i + 1) : /\ LastAt(j, i + 1, c, files)
                                     /\ after[c] = <<PathOrder[j], head[PathOrder[j]]["data"]>>
    <3>1. PICK j \in 1..i : /\ LastAt(j, i, c, files)
                            /\ cards[c] = <<PathOrder[j], head[PathOrder[j]]["data"]>>
      BY <1>5 DEF MergedUpTo
    <3> QED BY <1>1, <1>3, <1>5, <3>1
  <2> QED BY <1>5, <2>1, <2>2 DEF MergedUpTo
<1> QED BY <1>4, <1>5

\* The databases that can be opened, in the order of their paths.
Openable(files) == {r \in files : head[r]["data"] \notin Unattachable}

LEMMA AllMerged ==
    ASSUME NEW files
    PROVE  MergedUpTo(Len(PathOrder), MergeAll(files), Openable(files))
<1> DEFINE n == Len(PathOrder)
           open == Openable(files)
<1>0. n \in Nat
  BY UpdatesAssumption
<1>1. PICK merged :
        /\ MergeAll(files) = merged[n]
        /\ merged[0] = NewDatabase
        /\ \A i \in 1..n :
              merged[i] = IF PathOrder[i] \in files THEN Merge(merged[i - 1], PathOrder[i])
                          ELSE merged[i - 1]
  BY MergedInOrder
<1> DEFINE P == {i \in Nat : i <= n => MergedUpTo(i, merged[i], open)}
<1>2. 0 \in P
  <2>1. DOMAIN NewDatabase = {} /\ 1..0 = {}
    BY DEF NewDatabase
  <2>2. UNION {RowsAt(j) : j \in {k \in 1..0 : PathOrder[k] \in open}} = {}
    BY <2>1
  <2>3. MergedUpTo(0, NewDatabase, open)
    BY <2>1, <2>2 DEF MergedUpTo
  <2> QED BY <1>1, <2>3
<1>3. ASSUME NEW i \in P PROVE i + 1 \in P
  <2>1. i \in Nat /\ (i <= n => MergedUpTo(i, merged[i], open))
    OBVIOUS
  <2>2. SUFFICES ASSUME i + 1 <= n PROVE MergedUpTo(i + 1, merged[i + 1], open)
    BY <2>1
  <2>3. /\ i + 1 \in 1..n /\ (i + 1) - 1 = i /\ MergedUpTo(i, merged[i], open)
    BY <1>0, <2>1, <2>2
  <2>4. merged[i + 1] = IF PathOrder[i + 1] \in files THEN Merge(merged[i], PathOrder[i + 1])
                        ELSE merged[i]
    BY <1>1, <2>3
  <2>5. IF PathOrder[i + 1] \in open
             THEN /\ DOMAIN merged[i + 1] = DOMAIN merged[i] \cup RowsAt(i + 1)
                  /\ \A c \in DOMAIN merged[i + 1] :
                        merged[i + 1][c] =
                            IF c \in RowsAt(i + 1)
                              THEN <<PathOrder[i + 1], head[PathOrder[i + 1]]["data"]>>
                              ELSE merged[i][c]
             ELSE merged[i + 1] = merged[i]
    BY <2>4 DEF Openable, Merge, RowsAt
  <2> QED BY <2>1, <2>3, <2>5, OneMerged
<1>4. P = Nat
  <2>1. P \in SUBSET Nat
    OBVIOUS
  <2> HIDE DEF P
  <2> QED BY <1>2, <1>3, <2>1, Counting
<1>5. n \in P
  <2> HIDE DEF P
  <2> QED BY <1>0, <1>4
<1> QED BY <1>1, <1>5

\* The files are those that somebody has put there.
FilesKnown ==
    \A r \in Repos : \A p \in Providers :
        /\ remote[r][p] \in Contents[p] \cup {None}
        /\ head[r][p] \in Contents[p] \cup {None}
        /\ fetchHead[r][p] \in Contents[p] \cup {None}

\* When nobody is left to be told of databases, what was merged last is what is there.
MergedTold ==
    Serving /\ (\A r \in Repos : ~ Untold("data", r)) =>
        MergedUpTo(Len(PathOrder), db, Openable(paths))

\* Two repositories do not have banlists that differ and have one hash.
HashesTellApart ==
    \A r, q \in Range(Observed["banlist"]) :
        r # q => \A x, y \in Contents["banlist"] : Hash[x] = Hash[y] => x = y

Listed(r) ==
    LET list == head[r]["banlist"]
    IN  Hash[list] \in DOMAIN banlists /\ banlists[Hash[list]] = list
BanlistsTold ==
    HashesTellApart /\ Serving => \A r \in Range(Observed["banlist"]) :
        head[r]["banlist"] # None => Listed(r) \/ Untold("banlist", r)

ProvidersInv == FilesKnown /\ MergedTold /\ BanlistsTold

LEMMA ProvidersInitInv == Init => ProvidersInv
<1> SUFFICES ASSUME Init PROVE ProvidersInv
  OBVIOUS
<1>1. ~ Serving
  BY DEF Init, Serving
<1>2. ASSUME NEW r \in Repos, NEW p \in Providers PROVE remote[r][p] \in Contents[p] \cup {None}
  <2>1. PICK n \in {0, 1} : remote[r] = [q \in Providers |-> n]
    BY DEF Init
  <2>2. 1 \in Contents[p]
    BY UpdatesAssumption
  <2> QED BY <2>1, <2>2 DEF None
<1>3. FilesKnown
  BY <1>2 DEF Init, FilesKnown
<1> QED BY <1>1, <1>3 DEF ProvidersInv, MergedTold, BanlistsTold

LEMMA FilesStay ==
    ASSUME FilesKnown, UNCHANGED <<remote, head, fetchHead>>
    PROVE  FilesKnown'
BY DEF FilesKnown

LEMMA FilesKnownStep == ASSUME UInv, FilesKnown, [Next]_vars PROVE FilesKnown'
<1>0. UTypes
  BY DEF UInv
<1>1. CASE UNCHANGED <<remote, head, fetchHead>>
  BY <1>1, FilesStay
<1>2. ASSUME NEW r \in Repos, NEW p \in Providers, NEW content \in Contents[p] \cup {None},
             Push(r, p, content)
      PROVE  FilesKnown'
  <2>1. remote' = [remote EXCEPT ![r][p] = content] /\ UNCHANGED <<head, fetchHead>>
    BY <1>2 DEF Push
  <2>2. \A q \in Repos : \A o \in Providers :
            remote'[q][o] = IF q = r /\ o = p THEN content ELSE remote[q][o]
    BY <1>0, <2>1 DEF UTypes, Tree
  <2> QED BY <1>2, <2>1, <2>2 DEF FilesKnown
<1>3. CASE Start
  <2>1. head' = remote /\ fetchHead' = remote /\ remote' = remote
    BY <1>3 DEF Start, Clone, outside
  <2> QED BY <2>1 DEF FilesKnown
<1>4. ASSUME NEW r \in Repos, Fetch(r) PROVE FilesKnown'
  <2>1. fetchHead' = [fetchHead EXCEPT ![r] = remote[r]] /\ UNCHANGED <<remote, head>>
    BY <1>4 DEF Fetch, HookStep, outside
  <2>2. \A q \in Repos : fetchHead'[q] = IF q = r THEN remote[r] ELSE fetchHead[q]
    BY <1>0, <2>1 DEF UTypes
  <2> QED BY <2>1, <2>2 DEF FilesKnown
<1>5. ASSUME NEW r \in Repos, Callback(r) PROVE FilesKnown'
  <2>1. head' = [head EXCEPT ![r] = fetchHead[r]] /\ UNCHANGED <<remote, fetchHead>>
    BY <1>5 DEF Callback, HookStep, ResetToFetchHead, outside
  <2>2. \A q \in Repos : head'[q] = IF q = r THEN fetchHead[r] ELSE head[q]
    BY <1>0, <2>1 DEF UTypes
  <2> QED BY <2>1, <2>2 DEF FilesKnown
<1>6. ASSUME Listen \/ Run PROVE UNCHANGED <<remote, head, fetchHead>>
  BY <1>6 DEF Listen, Run, outside, hooks
<1>7. ASSUME NEW r \in Repos, DoAccept(r) \/ DoReadHeader(r) \/ GitFails(r) \/ DoWrite(r)
      PROVE  UNCHANGED <<remote, head, fetchHead>>
  BY <1>7 DEF DoAccept, DoReadHeader, NoToken, GitFails, DoWrite, HookStep, outside
<1>8. ASSUME NEW call,
             \/ NothingToAdd(call) \/ ReloadDatabases(call) \/ LoadScripts(call)
             \/ LoadBanlists(call)
      PROVE  UNCHANGED <<remote, head, fetchHead>>
  BY <1>8 DEF NothingToAdd, ReloadDatabases, LoadScripts, ScriptCall, LoadBanlists, Made, outside, hooks
<1>9. ASSUME NEW call, OnGitUpdate(call) PROVE UNCHANGED <<remote, head, fetchHead>>
  <2>1. Throw => UNCHANGED fetchHead
    BY DEF Throw, Ends, hooks
  <2>2. UNCHANGED <<outside, head>>
    BY <1>9 DEF OnGitUpdate, NoCoreFound, CopyFails, LoadFails, TestFails, TestSucceeds, CoreCall
  <2>3. Throw \/ UNCHANGED hooks
    BY <1>9 DEF OnGitUpdate, NoCoreFound, CopyFails, LoadFails, TestFails, TestSucceeds
  <2> QED BY <2>1, <2>2, <2>3 DEF outside, hooks
<1>10. ASSUME NEW x \in Rooms, Play(x) PROVE UNCHANGED <<remote, head, fetchHead>>
  <2>1. CASE GetDatabase(x) \/ CloseRoom(x)
    BY <2>1 DEF GetDatabase, CloseRoom, outside, hooks
  <2>2. CASE GetCore(x)
    BY <2>2 DEF GetCore, Ends, outside, hooks
  <2> QED BY <1>10, <2>1, <2>2 DEF Play
<1>11. ASSUME UNCHANGED vars PROVE UNCHANGED <<remote, head, fetchHead>>
  BY <1>11 DEF vars, outside, hooks
<1> QED BY <1>1, <1>2, <1>3, <1>4, <1>5, <1>6, <1>7, <1>8, <1>9, <1>10, <1>11
        DEF Next, Notify, Hook

\* A database that was merged is the same while the files it was made of are.
LEMMA SameMerged ==
    ASSUME NEW files, NEW cards, MergedUpTo(Len(PathOrder), cards, Openable(files)),
           db' = cards, paths' = files,
           \A q \in Repos \cap files : head'[q]["data"] = head[q]["data"]
    PROVE  MergedUpTo(Len(PathOrder), db, Openable(paths))'
<1>0. \A j \in 1..Len(PathOrder) : PathOrder[j] \in Repos
  BY UpdatesAssumption
<1>1. Openable(files) \subseteq files
  BY DEF Openable
<1>2. PICK open : open = Openable(files)
  OBVIOUS
<1>3. \A j \in 1..Len(PathOrder) :
        /\ PathOrder[j] \in open => RowsAt(j)' = RowsAt(j)
        /\ PathOrder[j] \in open <=> PathOrder[j] \in Openable(paths)'
  BY <1>0, <1>1, <1>2 DEF RowsAt, Openable
<1>4. \A j, c : LastAt(j, Len(PathOrder), c, open) =>
                    LastAt(j, Len(PathOrder), c, Openable(paths))'
  BY <1>3 DEF LastAt
<1>5. DOMAIN cards = UNION {RowsAt(j) : j \in {k \in 1..Len(PathOrder) : PathOrder[k] \in open}}
  BY <1>2 DEF MergedUpTo
<1>6. DOMAIN db' = UNION {RowsAt(j)' : j \in {k \in 1..Len(PathOrder) :
                                                    PathOrder[k] \in Openable(paths)'}}
  BY <1>3, <1>5
<1>7. ASSUME NEW c \in DOMAIN cards
      PROVE  \E j \in 1..Len(PathOrder) :
                /\ LastAt(j, Len(PathOrder), c, Openable(paths))'
                /\ cards[c] = <<PathOrder[j], head'[PathOrder[j]]["data"]>>
  <2>1. PICK j \in 1..Len(PathOrder) :
            /\ LastAt(j, Len(PathOrder), c, open)
            /\ cards[c] = <<PathOrder[j], head[PathOrder[j]]["data"]>>
    BY <1>2 DEF MergedUpTo
  <2>2. PathOrder[j] \in Repos \cap files
    BY <1>0, <1>1, <1>2, <2>1 DEF LastAt
  <2> QED BY <1>4, <2>1, <2>2
<1> QED BY <1>6, <1>7 DEF MergedUpTo

\* What is merged and listed depends on the files of the repositories and on what is
\* left to be told.
LEMMA ToldStays ==
    ASSUME MergedTold, BanlistsTold, UNCHANGED <<head, paths, db, banlists>>,
           Serving' => Serving,
           \A r \in Repos : Untold("data", r) => Untold("data", r)' \/ ~ Serving',
           \A r : Untold("banlist", r) => Untold("banlist", r)' \/ ~ Serving'
    PROVE  MergedTold' /\ BanlistsTold'
<1>1. MergedTold'
  <2> SUFFICES ASSUME Serving', \A r \in Repos : ~ Untold("data", r)'
               PROVE  MergedUpTo(Len(PathOrder), db, Openable(paths))'
    BY DEF MergedTold
  <2>1. MergedUpTo(Len(PathOrder), db, Openable(paths))
    BY DEF MergedTold
  <2> QED BY <2>1, SameMerged
<1>2. BanlistsTold'
  <2> SUFFICES ASSUME HashesTellApart, Serving', NEW r \in Range(Observed["banlist"]),
                      head'[r]["banlist"] # None
               PROVE  Listed(r)' \/ Untold("banlist", r)'
    BY DEF BanlistsTold
  <2>1. Listed(r) \/ Untold("banlist", r)
    BY DEF BanlistsTold
  <2>2. Listed(r) => Listed(r)'
    BY DEF Listed
  <2> QED BY <2>1, <2>2
<1> QED BY <1>1, <1>2

LEMMA CallsStay ==
    ASSUME MergedTold, BanlistsTold, UNCHANGED <<head, calls, paths, db, banlists>>,
           Serving' => Serving
    PROVE  MergedTold' /\ BanlistsTold'
<1>1. \A p, r : Untold(p, r) => Untold(p, r)'
  BY DEF Untold
<1> QED BY <1>1, ToldStays

\* A call to somebody else, or of nothing.
LEMMA CallElsewhere ==
    ASSUME UInv, MergedTold, BanlistsTold,
           NEW call, calls # <<>>, calls[1] = call, calls' = Tail(calls),
           UNCHANGED <<outside, hooks, process, head, paths, db, banlists>>,
           Empty(call) \/ call.to \notin {"data", "banlist"}
    PROVE  MergedTold' /\ BanlistsTold'
<1>1. UNCHANGED <<outside, hooks, process, head>>
  OBVIOUS
<1>2. \A p, q : Untold(p, q) =>
        \/ Untold(p, q)'
        \/ call.to = p /\ call.repo = q /\ p \in call.removed \cup call.added
  BY <1>1, NextCall
<1>3. \A p \in {"data", "banlist"} : \A q : Untold(p, q) => Untold(p, q)'
  BY <1>2 DEF Empty
<1>4. Serving' => Serving
  BY DEF Serving
<1> QED BY <1>3, <1>4, ToldStays

LEMMA StartTold == ASSUME UInv, Start PROVE MergedTold' /\ BanlistsTold'
<1>1. head' = remote /\ paths' = {} /\ db' = NewDatabase
  BY DEF Start, Clone
<1>2. MergedTold'
  <2>1. Openable(paths)' = {} /\ DOMAIN db' = {}
    BY <1>1 DEF Openable, NewDatabase
  <2>2. MergedUpTo(Len(PathOrder), db, Openable(paths))'
    BY <2>1 DEF MergedUpTo
  <2> QED BY <2>2 DEF MergedTold
<1>3. BanlistsTold'
  <2> SUFFICES ASSUME HashesTellApart, NEW r \in Range(Observed["banlist"]),
                      head'[r]["banlist"] # None
               PROVE  Untold("banlist", r)'
    BY DEF BanlistsTold
  <2>1. "banlist" \in Providers
    BY DEF Providers
  <2>2. PICK i \in DOMAIN calls' : calls'[i] = Call("banlist", r, {}, FilesOf(remote[r]))
    BY <2>1, Started
  <2>3. "banlist" \in FilesOf(remote[r])
    BY <1>1, <2>1 DEF FilesOf
  <2> QED BY <2>2, <2>3 DEF Untold, Call
<1> QED BY <1>2, <1>3

\* Whatever a call says, all that is there is merged.
LEMMA ReloadTold ==
    ASSUME UInv, MergedTold, BanlistsTold, NEW call, ReloadDatabases(call)
    PROVE  MergedTold' /\ BanlistsTold'
<1>1. /\ calls # <<>> /\ calls[1] = call /\ calls' = Tail(calls) /\ call.to = "data"
      /\ UNCHANGED <<outside, hooks, process, head>> /\ UNCHANGED <<process, head, banlists>>
      /\ paths' = PathsAfter(call) /\ db' = MergeAll(PathsAfter(call))
  BY DEF ReloadDatabases, Made
<1>2. MergedTold'
  <2>1. PICK files, cards : files = PathsAfter(call) /\ cards = MergeAll(files)
    OBVIOUS
  <2>2. MergedUpTo(Len(PathOrder), cards, Openable(files))
    BY <2>1, AllMerged
  <2>3. db' = cards /\ paths' = files /\ head' = head
    BY <1>1, <2>1
  <2>4. MergedUpTo(Len(PathOrder), db, Openable(paths))'
    BY <2>2, <2>3, SameMerged
  <2> QED BY <2>4 DEF MergedTold
<1>3. BanlistsTold'
  <2>1. \A p, q : Untold(p, q) =>
          \/ Untold(p, q)'
          \/ call.to = p /\ call.repo = q /\ p \in call.removed \cup call.added
    BY <1>1, NextCall
  <2>2. \A q : Untold("banlist", q) => Untold("banlist", q)'
    BY <1>1, <2>1
  <2> QED BY <1>1, <2>2 DEF BanlistsTold, Serving, Listed
<1> QED BY <1>2, <1>3

\* A list that is added takes the place of another one with its hash only if they are
\* of one repository, or the same.
LEMMA LoadBanlistsTold ==
    ASSUME UInv, FilesKnown, MergedTold, BanlistsTold,
           NEW call, LoadBanlists(call)
    PROVE  MergedTold' /\ BanlistsTold'
<1> DEFINE content == head[call.repo]["banlist"]
           tmp == IF "banlist" \in call.added THEN [h \in {Hash[content]} |-> content] ELSE <<>>
<1>1. /\ calls # <<>> /\ calls[1] = call /\ calls' = Tail(calls) /\ call.to = "banlist"
      /\ UNCHANGED <<outside, hooks, process, head>> /\ UNCHANGED <<process, head, paths, db>>
      /\ banlists' = EraseAndMerge(tmp)
  BY DEF LoadBanlists, Made, data
<1>2. \A p, q : Untold(p, q) =>
        \/ Untold(p, q)'
        \/ call.to = p /\ call.repo = q /\ p \in call.removed \cup call.added
  BY <1>1, NextCall
<1>3. /\ call.repo \in Range(Observed["banlist"])
      /\ call.added \subseteq FilesOf(head[call.repo])
      /\ call.removed \cap FilesOf(head[call.repo]) \subseteq call.added
  BY <1>1, NextCall
<1>4. MergedTold'
  <2>1. \A q : Untold("data", q) => Untold("data", q)'
    BY <1>1, <1>2
  <2> SUFFICES ASSUME Serving', \A q \in Repos : ~ Untold("data", q)'
               PROVE  MergedUpTo(Len(PathOrder), db, Openable(paths))'
    BY DEF MergedTold
  <2>2. MergedUpTo(Len(PathOrder), db, Openable(paths))
    BY <1>1, <2>1 DEF MergedTold, Serving
  <2> QED BY <1>1, <2>2, SameMerged
<1>5. /\ "banlist" \in call.added =>
            /\ Hash[content] \in DOMAIN banlists' /\ banlists'[Hash[content]] = content
            /\ \A h \in DOMAIN banlists : h # Hash[content] =>
                    h \in DOMAIN banlists' /\ banlists'[h] = banlists[h]
      /\ "banlist" \notin call.added =>
            \A h \in DOMAIN banlists : h \in DOMAIN banlists' /\ banlists'[h] = banlists[h]
  <2>1. PICK t : t = tmp
    OBVIOUS
  <2>2. banlists' = [h \in DOMAIN banlists \cup DOMAIN t |->
                        IF h \in DOMAIN t THEN t[h] ELSE banlists[h]]
    BY <1>1, <2>1 DEF EraseAndMerge
  <2>3. CASE "banlist" \in call.added
    <3>1. DOMAIN t = {Hash[content]} /\ t[Hash[content]] = content
      BY <2>1, <2>3
    <3> QED BY <2>2, <2>3, <3>1
  <2>4. CASE "banlist" \notin call.added
    <3>1. DOMAIN t = {}
      BY <2>1, <2>4
    <3> QED BY <2>2, <2>4, <3>1
  <2> QED BY <2>3, <2>4
<1>6. BanlistsTold'
  <2> SUFFICES ASSUME HashesTellApart, Serving,
                      NEW r \in Range(Observed["banlist"]), head[r]["banlist"] # None
               PROVE  Listed(r)' \/ Untold("banlist", r)'
    BY <1>1 DEF BanlistsTold, Serving
  <2>1. Listed(r) \/ Untold("banlist", r)
    BY DEF BanlistsTold
  <2>2. "banlist" \in Providers /\ "banlist" \in FilesOf(head[r])
    BY DEF FilesOf, Providers
  <2>3. r \in Repos /\ call.repo \in Repos
    BY <1>3, <2>2, Constants
  <2>4. CASE r = call.repo /\ "banlist" \in call.added
    BY <1>1, <1>5, <2>4 DEF Listed
  <2>5. CASE r = call.repo /\ "banlist" \notin call.added
    BY <1>1, <1>2, <1>3, <1>5, <2>1, <2>2, <2>5 DEF Listed
  <2>6. CASE r # call.repo
    <3>1. CASE Untold("banlist", r)
      BY <1>2, <2>6, <3>1
    <3>2. CASE Listed(r)
      <4>1. CASE "banlist" \in call.added /\ Hash[head[r]["banlist"]] = Hash[content]
        <5>1. head[r]["banlist"] \in Contents["banlist"] /\ content \in Contents["banlist"]
          <6>1. content # None
            BY <1>3, <4>1 DEF FilesOf
          <6> QED BY <2>2, <2>3, <6>1 DEF FilesKnown
        <5>2. head[r]["banlist"] = content
          BY <1>3, <2>6, <4>1, <5>1 DEF HashesTellApart
        <5> QED BY <1>1, <1>5, <4>1, <5>2 DEF Listed
      <4>2. CASE ~ ("banlist" \in call.added /\ Hash[head[r]["banlist"]] = Hash[content])
        BY <1>1, <1>5, <3>2, <4>2 DEF Listed
      <4> QED BY <4>1, <4>2
    <3> QED BY <2>1, <3>1, <3>2
  <2> QED BY <2>4, <2>5, <2>6
<1> QED BY <1>4, <1>6

\* A throw leaves nobody to be told: the core's provider is called last.
LEMMA CoreTold ==
    ASSUME UInv, MergedTold, BanlistsTold, NEW call, OnGitUpdate(call)
    PROVE  MergedTold' /\ BanlistsTold'
<1>1. /\ calls # <<>> /\ calls[1] = call /\ call.to = "core"
      /\ UNCHANGED <<outside, head, data, scripts, banlists>>
  BY DEF OnGitUpdate, NoCoreFound, CopyFails, LoadFails, TestFails, TestSucceeds, CoreCall
<1>2. UNCHANGED <<outside, head, paths, db, banlists>>
  BY <1>1 DEF data
<1>3. Throw \/ (calls' = Tail(calls) /\ UNCHANGED <<process, hooks>>)
  BY DEF OnGitUpdate, NoCoreFound, CopyFails, LoadFails, TestFails, TestSucceeds
<1>4. CASE calls' = Tail(calls) /\ UNCHANGED <<process, hooks>>
  <2>1. UNCHANGED <<outside, hooks, process, head, paths, db, banlists>>
    BY <1>2, <1>4
  <2> QED BY <1>1, <1>4, <2>1, CallElsewhere
<1>5. CASE Throw /\ process = "starting"
  BY <1>5 DEF Throw, Ends, MergedTold, BanlistsTold, Serving
<1>6. CASE Throw /\ process # "starting"
  <2>1. calls' = <<>> /\ process' = process
    BY <1>6 DEF Throw
  <2>2. CASE process # "up"
    BY <1>6, <2>1, <2>2 DEF MergedTold, BanlistsTold, Serving
  <2>3. CASE process = "up"
    <3>1. calls \in Seq(Calls) /\ CallsTrue
      BY DEF UInv, UTypes
    <3>2. Len(calls) \in Nat /\ DOMAIN calls = 1..Len(calls) /\ 1 \in DOMAIN calls
      BY <1>1, <3>1, LenProperties, EmptySeq
    <3>3. Len(calls) = 1
      BY <1>1, <2>3, <3>1, <3>2 DEF CallsTrue
    <3>4. DOMAIN calls = {1}
      BY <3>2, <3>3
    <3>5. \A r : ~ Untold("data", r) /\ ~ Untold("banlist", r)
      BY <1>1, <3>4 DEF Untold
    <3>6. Serving' => Serving
      BY <2>1 DEF Serving
    <3> QED BY <1>2, <3>5, <3>6, ToldStays
  <2> QED BY <2>2, <2>3
<1> QED BY <1>3, <1>4, <1>5, <1>6

LEMMA CallbackTold ==
    ASSUME UInv, MergedTold, BanlistsTold, NEW r \in Repos, Callback(r)
    PROVE  MergedTold' /\ BanlistsTold'
<1>1. /\ process = "up" /\ calls = <<>> /\ process' = process
      /\ \A q \in Repos : head'[q] = IF q = r THEN fetchHead[r] ELSE head[q]
      /\ UNCHANGED <<paths, db, banlists>>
      /\ \A p \in Providers : r \in Range(Observed[p]) /\ head'[r][p] # head[r][p] =>
            Untold(p, r)'
  BY CallbackTells
<1>2. Serving /\ \A p, q : ~ Untold(p, q)
  BY <1>1 DEF Serving, Untold
<1>3. "data" \in Providers /\ "banlist" \in Providers
  BY DEF Providers
<1>4. \A q \in paths : q \in Repos => q \in Range(Observed["data"])
  BY <1>2 DEF UInv, PathsTold
<1>5. MergedTold'
  <2> SUFFICES ASSUME \A q \in Repos : ~ Untold("data", q)'
               PROVE  MergedUpTo(Len(PathOrder), db, Openable(paths))'
    BY DEF MergedTold
  <2>1. \A q \in Repos \cap paths : head'[q]["data"] = head[q]["data"]
    BY <1>1, <1>3, <1>4
  <2>2. MergedUpTo(Len(PathOrder), db, Openable(paths))
    BY <1>2 DEF MergedTold
  <2> QED BY <1>1, <2>1, <2>2, SameMerged
<1>6. BanlistsTold'
  <2> SUFFICES ASSUME HashesTellApart, NEW q \in Range(Observed["banlist"]),
                      head'[q]["banlist"] # None
               PROVE  Listed(q)' \/ Untold("banlist", q)'
    BY DEF BanlistsTold
  <2>1. q \in Repos
    BY <1>3, Constants
  <2>2. CASE head'[q]["banlist"] = head[q]["banlist"]
    BY <1>1, <1>2, <2>2 DEF BanlistsTold, Listed
  <2>3. CASE head'[q]["banlist"] # head[q]["banlist"]
    BY <1>1, <1>3, <2>1, <2>3
  <2> QED BY <2>2, <2>3
<1> QED BY <1>5, <1>6

LEMMA ProvidersStep ==
    ASSUME UInv, ProvidersInv, [Next]_vars PROVE ProvidersInv'
<1>0. FilesKnown /\ MergedTold /\ BanlistsTold
  BY DEF ProvidersInv
<1> SUFFICES MergedTold' /\ BanlistsTold'
  BY <1>0, FilesKnownStep DEF ProvidersInv
<1>1. CASE Start
  BY <1>1, StartTold
<1>2. ASSUME NEW call,
             \/ NothingToAdd(call) \/ ReloadDatabases(call) \/ LoadScripts(call)
             \/ LoadBanlists(call) \/ OnGitUpdate(call)
      PROVE  MergedTold' /\ BanlistsTold'
  <2>1. ASSUME NothingToAdd(call) \/ LoadScripts(call) PROVE MergedTold' /\ BanlistsTold'
    <3>1. /\ calls # <<>> /\ calls[1] = call /\ calls' = Tail(calls)
          /\ UNCHANGED <<outside, hooks, process, head, paths, db, banlists>>
          /\ Empty(call) \/ call.to \notin {"data", "banlist"}
      BY <2>1 DEF NothingToAdd, LoadScripts, ScriptCall, Made, providers, data
    <3> QED BY <1>0, <3>1, CallElsewhere
  <2> QED BY <1>0, <1>2, <2>1, ReloadTold, LoadBanlistsTold, CoreTold
<1>3. ASSUME NEW r \in Repos, Callback(r) PROVE MergedTold' /\ BanlistsTold'
  BY <1>0, <1>3, CallbackTold
<1>4. ASSUME NEW r \in Repos,
             DoAccept(r) \/ DoReadHeader(r) \/ Fetch(r) \/ GitFails(r) \/ DoWrite(r)
      PROVE  MergedTold' /\ BanlistsTold'
  <2>1. UNCHANGED <<head, calls, paths, db, banlists>> /\ process' = process
    BY <1>4 DEF DoAccept, DoReadHeader, NoToken, Fetch, GitFails, DoWrite, HookStep, providers,
                data
  <2> QED BY <1>0, <2>1, CallsStay DEF Serving
<1>5. ASSUME NEW r, NEW p, NEW content, Push(r, p, content) PROVE MergedTold' /\ BanlistsTold'
  BY <1>0, <1>5, CallsStay DEF Push, providers, data, Serving
<1>6. CASE Listen \/ Run
  <2>1. UNCHANGED <<head, calls, paths, db, banlists>>
    BY <1>6 DEF Listen, Run, providers, data
  <2>2. Serving' => Serving
    BY <1>6 DEF Listen, Run, Serving
  <2> QED BY <1>0, <2>1, <2>2, CallsStay
<1>7. ASSUME NEW x \in Rooms, Play(x) PROVE MergedTold' /\ BanlistsTold'
  <2>1. CASE process' = "down"
    BY <2>1 DEF MergedTold, BanlistsTold, Serving
  <2>2. CASE process' # "down"
    <3>1. UNCHANGED <<head, calls, paths, db, banlists>> /\ process' = process
      BY <1>7, <2>2 DEF Play, GetDatabase, GetCore, CloseRoom, Ends, providers, data
    <3> QED BY <1>0, <3>1, CallsStay DEF Serving
  <2> QED BY <2>1, <2>2
<1>8. CASE UNCHANGED vars
  BY <1>0, <1>8, CallsStay DEF vars, providers, data, Serving
<1>9. CASE Notify
  BY <1>2, <1>9 DEF Notify
<1>10. CASE \E r \in Repos : Hook(r)
  BY <1>3, <1>4, <1>10 DEF Hook
<1> QED BY <1>1, <1>5, <1>6, <1>7, <1>8, <1>9, <1>10 DEF Next

\* The database is the one that is built from all files: of the repositories with a
\* row for a card, the last in the order of their paths has put its own there.
LEMMA MergedIsCurrent ==
    ASSUME UInv, ProvidersInv, Settled
    PROVE  DataCurrent
<1> DEFINE files == {r \in Range(Observed["data"]) :
                        head[r]["data"] \notin {None} \cup Unattachable}
           n == Len(PathOrder)
<1>1. Serving /\ \A p, r : ~ Untold(p, r)
  BY DEF Settled, Serving, Untold
<1>2. \A r \in Repos : r \in paths <=> r \in Range(Observed["data"]) /\ head[r]["data"] # None
  BY <1>1 DEF UInv, PathsTold
<1>3. files \subseteq Repos
  BY Constants DEF Providers
<1>4. MergedUpTo(n, db, Openable(paths))
  BY <1>1 DEF ProvidersInv, MergedTold
<1>5. /\ n \in Nat /\ DOMAIN PathOrder = 1..n
      /\ \A j \in 1..n : PathOrder[j] \in Repos
      /\ \A r \in Repos : \E j \in 1..n : PathOrder[j] = r
  BY UpdatesAssumption DEF Range
<1>6. \A j \in 1..n : PathOrder[j] \in Openable(paths) <=> PathOrder[j] \in files
  BY <1>2, <1>5 DEF Openable
<1> HIDE DEF files, n
<1>7. DOMAIN db = UNION {Rows[head[r]["data"]] : r \in files}
  <2>1. DOMAIN db = UNION {RowsAt(j) : j \in {k \in 1..n : PathOrder[k] \in files}}
    BY <1>4, <1>6 DEF MergedUpTo
  <2>2. {RowsAt(j) : j \in {k \in 1..n : PathOrder[k] \in files}}
            = {Rows[head[r]["data"]] : r \in files}
    BY <1>3, <1>5 DEF RowsAt
  <2> QED BY <2>1, <2>2
<1>8. ASSUME NEW c \in DOMAIN db
      PROVE  LET last == LastWith(c, files) IN db[c] = <<last, head[last]["data"]>>
  <2> DEFINE Latest(i) == /\ PathOrder[i] \in files /\ c \in Rows[head[PathOrder[i]]["data"]]
                        /\ \A j \in DOMAIN PathOrder :
                            PathOrder[j] \in files /\ c \in Rows[head[PathOrder[j]]["data"]]
                                => j <= i
  <2>1. PICK i \in 1..n : /\ LastAt(i, n, c, Openable(paths))
                          /\ db[c] = <<PathOrder[i], head[PathOrder[i]]["data"]>>
    BY <1>4 DEF MergedUpTo
  <2>2. i \in DOMAIN PathOrder /\ Latest(i)
    BY <1>5, <1>6, <2>1 DEF LastAt, RowsAt
  <2>3. \A j \in DOMAIN PathOrder : Latest(j) => j = i
    <3> SUFFICES ASSUME NEW j \in DOMAIN PathOrder, Latest(j) PROVE j = i
      OBVIOUS
    <3>1. i <= j /\ j <= i
      BY <2>2
    <3> QED BY <1>5, <3>1
  <2>4. LastWith(c, files) = PathOrder[CHOOSE j \in DOMAIN PathOrder : Latest(j)]
    BY DEF LastWith
  <2> HIDE DEF Latest
  <2>5. (CHOOSE j \in DOMAIN PathOrder : Latest(j)) = i
    BY <2>2, <2>3
  <2> QED BY <2>1, <2>4, <2>5
<1> QED BY <1>7, <1>8 DEF DataCurrent, files

\* What the providers have been told and what they still are to be told.
THEOREM ProvidersTold == Spec => []ProvidersInv
<1>1. Init => UInv /\ ProvidersInv
  BY UInitInv, ProvidersInitInv
<1>2. UInv /\ ProvidersInv /\ [Next]_vars => UInv' /\ ProvidersInv'
  BY UStep, ProvidersStep
<1> QED BY <1>1, <1>2, PTL DEF Spec

\* Once no call is left to be made, the database is the one that is built from all
\* files, and for every script that a repository has, one of that name is loaded,
\* as it is in its own repository or was when that removed it, whatever was added,
\* changed and removed before, and whatever failed.
THEOREM CardsAreCurrent == Spec => [](Settled => DataCurrent /\ ScriptsCurrent)
<1>1. UInv /\ ProvidersInv => (Settled => DataCurrent /\ ScriptsCurrent)
  <2> SUFFICES ASSUME UInv, ProvidersInv, Settled PROVE DataCurrent /\ ScriptsCurrent
    OBVIOUS
  <2>1. Serving /\ \A p, r : ~ Untold(p, r)
    BY DEF Settled, Serving, Untold
  <2>2. ScriptsCurrent
    BY <2>1 DEF UInv, ScriptsTold, ScriptKnown, ScriptsCurrent, ScriptLoaded
  <2> QED BY <2>2, MergedIsCurrent
<1> QED BY <1>1, UpdatesInvariance, ProvidersTold, PTL

\* A script whose name no other repository uses is loaded as it is in its own.
OwnName(r) == \A q \in Range(Observed["script"]) : ScriptName[q] = ScriptName[r] => q = r
OwnScripts ==
    \A r \in Range(Observed["script"]) : OwnName(r) /\ head[r]["script"] # None =>
        /\ ScriptName[r] \in DOMAIN scripts
        /\ scripts[ScriptName[r]][2] = head[r]["script"]
THEOREM OwnScriptsAreCurrent == Spec => [](Settled => OwnScripts)
<1>1. (Settled => DataCurrent /\ ScriptsCurrent) => (Settled => OwnScripts)
  BY DEF ScriptsCurrent, ScriptLoaded, OwnName, OwnScripts
<1> QED BY <1>1, CardsAreCurrent, PTL

\* The same of banlists, unless two repositories have lists that differ and have one
\* hash: the one that is loaded last is then found for both.  Scripts of one name
\* need no such assumption, as no more is said of them than that one is loaded.
THEOREM UpdatesAreTaken == ASSUME HashesTellApart PROVE Spec => []UpdatesTaken
<1>1. ProvidersInv => (Settled => BanlistsCurrent)
  BY DEF ProvidersInv, BanlistsTold, Listed, BanlistsCurrent, Settled, Serving, Untold
<1>2. ProvidersInv /\ (Settled => DataCurrent /\ ScriptsCurrent) => UpdatesTaken
  BY <1>1 DEF UpdatesTaken
<1> QED BY <1>2, ProvidersTold, CardsAreCurrent, PTL

-----------------------------------------------------------------------------
(* Banlists *)

\* What has been read after each line.
LEMMA ReadInOrder ==
    ASSUME NEW lines, NEW lists, Len(lines) \in Nat
    PROVE  \E read :
              /\ ParseForBanlists(lines, lists) =
                    IF read[Len(lines)].failed THEN read[Len(lines)].lists
                    ELSE ConditionallyAdd(read[Len(lines)].list, read[Len(lines)].lists)
              /\ read[0] = Reading(lists)
              /\ \A i \in 1..Len(lines) : read[i] = ReadLine(read[i - 1], lines[i])
<1> DEFINE Is(g, k) == g = [i \in 0..k |-> IF i = 0 THEN Reading(lists)
                                           ELSE ReadLine(g[i - 1], lines[i])]
           P == {k \in Nat : \E g : Is(g, k)}
           n == Len(lines)
<1>1. 0 \in P
  <2>1. Is([i \in 0..0 |-> Reading(lists)], 0)
    OBVIOUS
  <2> QED BY <2>1
<1>2. ASSUME NEW k \in P PROVE k + 1 \in P
  <2>1. k \in Nat /\ \E g : Is(g, k)
    OBVIOUS
  <2>2. PICK g : Is(g, k)
    BY <2>1
  <2> DEFINE last == ReadLine(g[k], lines[k + 1])
             h == [i \in 0..(k + 1) |-> IF i <= k THEN g[i] ELSE last]
  <2>3. ASSUME NEW i \in 0..(k + 1)
        PROVE  h[i] = IF i = 0 THEN Reading(lists) ELSE ReadLine(h[i - 1], lines[i])
    <3>1. CASE i <= k
      <4>1. h[i] = g[i] /\ (i # 0 => h[i - 1] = g[i - 1])
        BY <2>1, <3>1
      <4>2. g[i] = IF i = 0 THEN Reading(lists) ELSE ReadLine(g[i - 1], lines[i])
        BY <2>1, <2>2, <3>1
      <4> HIDE DEF h
      <4> QED BY <4>1, <4>2
    <3>2. CASE i = k + 1
      <4>1. h[i] = last /\ h[i - 1] = g[k] /\ i # 0
        BY <2>1, <3>2
      <4> HIDE DEF h
      <4> QED BY <3>2, <4>1
    <3> QED BY <2>1, <3>1, <3>2
  <2>4. Is(h, k + 1)
    <3>1. h = [i \in 0..(k + 1) |-> h[i]]
      OBVIOUS
    <3> HIDE DEF h
    <3> QED BY <2>3, <3>1
  <2> HIDE DEF h, Is
  <2> QED BY <2>1, <2>4
<1>3. \E g : Is(g, n)
  <2> HIDE DEF Is
  <2>1. P \in SUBSET Nat
    OBVIOUS
  <2> HIDE DEF P
  <2>2. P = Nat
    BY <1>1, <1>2, <2>1, Counting
  <2> QED BY <2>2 DEF P
<1> DEFINE read == CHOOSE g : Is(g, n)
<1>4. Is(read, n)
  <2> HIDE DEF Is
  <2> QED BY <1>3
<1>5. ParseForBanlists(lines, lists) =
            IF read[n].failed THEN read[n].lists ELSE ConditionallyAdd(read[n].list, read[n].lists)
  BY DEF ParseForBanlists
<1> HIDE DEF read
<1>6. read[0] = Reading(lists) /\ \A i \in 1..n : read[i] = ReadLine(read[i - 1], lines[i])
  BY <1>4
<1> QED BY <1>5, <1>6

\* The lines of the list at hand after one more line, that is no head.
LEMMA OwnNext ==
    ASSUME NEW lines, Len(lines) \in Nat, DOMAIN lines = 1..Len(lines), NEW i \in Nat,
           i + 1 \in DOMAIN lines, NEW kind
    PROVE  /\ lines[i + 1].kind = "!" /\ kind # "!" => Own(lines, i + 2, kind) = {}
           /\ lines[i + 1].kind \notin {"!", kind} =>
                Own(lines, i + 2, kind) = Own(lines, i + 1, kind)
           /\ lines[i + 1].kind # "!" /\ lines[i + 1].kind = kind =>
                Own(lines, i + 2, kind) = Own(lines, i + 1, kind) \cup {i + 1}
           /\ i + 1 \notin Own(lines, i + 1, kind)
<1>1. \A k \in DOMAIN lines : k \in Nat /\ (k < i + 2 <=> k < i + 1 \/ k = i + 1)
  OBVIOUS
<1>2. ASSUME lines[i + 1].kind = "!", kind # "!" PROVE Own(lines, i + 2, kind) = {}
  <2>1. i + 1 \in Lines(lines, "!") /\ i + 1 < i + 2
    BY <1>2 DEF Lines
  <2>2. \A k \in Own(lines, i + 2, kind) : k < i + 2 /\ i + 1 < k /\ k \in DOMAIN lines
    BY <2>1 DEF Own, Lines
  <2> QED BY <1>1, <2>2
<1>3. ASSUME lines[i + 1].kind # "!"
      PROVE  \A k \in Lines(lines, "!") : k < i + 2 <=> k < i + 1
  BY <1>1, <1>3 DEF Lines
<1>4. ASSUME lines[i + 1].kind # "!", NEW k \in DOMAIN lines
      PROVE  k \in Own(lines, i + 2, kind) <=>
                \/ k \in Own(lines, i + 1, kind)
                \/ k = i + 1 /\ lines[i + 1].kind = kind
  <2>1. CASE k = i + 1
    BY <1>1, <1>3, <1>4, <2>1 DEF Own, Lines
  <2>2. CASE k # i + 1
    BY <1>1, <1>3, <1>4, <2>2 DEF Own, Lines
  <2> QED BY <2>1, <2>2
<1>5. /\ Own(lines, i + 1, kind) \subseteq DOMAIN lines
      /\ Own(lines, i + 2, kind) \subseteq DOMAIN lines
      /\ i + 1 \notin Own(lines, i + 1, kind)
  BY DEF Own, Lines
<1> QED BY <1>2, <1>4, <1>5

LEMMA OwnFinite ==
    ASSUME NEW lines, Len(lines) \in Nat, DOMAIN lines = 1..Len(lines), NEW e, NEW entry
    PROVE  /\ IsFiniteSet({i \in Own(lines, e, "card") : CardSaid(lines[i]) = entry})
           /\ Times(lines, e, entry) \in Nat
           /\ entry \in HashOf(lines, e) <=> Times(lines, e, entry) % 2 = 1
<1> DEFINE mine == {i \in Own(lines, e, "card") : CardSaid(lines[i]) = entry}
<1>1. mine \subseteq 1..Len(lines)
  BY DEF Own, Lines
<1>2. IsFiniteSet(1..Len(lines))
  BY FS_Interval
<1>3. IsFiniteSet(mine)
  BY <1>1, <1>2, FS_Subset
<1>4. Times(lines, e, entry) = Cardinality(mine) /\ Cardinality(mine) \in Nat
  BY <1>3, FS_CardinalityType DEF Times
<1>5. mine = {} => Cardinality(mine) % 2 = 0
  BY FS_EmptySet
<1>6. entry \in {CardSaid(lines[i]) : i \in Own(lines, e, "card")} <=> mine # {}
  OBVIOUS
<1> HIDE DEF mine
<1>7. entry \in HashOf(lines, e) <=> mine # {} /\ Cardinality(mine) % 2 = 1
  BY <1>4, <1>6 DEF HashOf
<1> QED BY <1>3, <1>4, <1>5, <1>7 DEF mine

\* One more card in a list.
LEMMA CardCounted ==
    ASSUME NEW lines, Len(lines) \in Nat, DOMAIN lines = 1..Len(lines), NEW i \in Nat,
           i + 1 \in DOMAIN lines, lines[i + 1].kind = "card"
    PROVE  HashOf(lines, i + 2) = Salt(HashOf(lines, i + 1), lines[i + 1].code, lines[i + 1].count)
<1> DEFINE entry == CardSaid(lines[i + 1])
           mine(e, x) == {k \in Own(lines, e, "card") : CardSaid(lines[k]) = x}
<1>1. /\ Own(lines, i + 2, "card") = Own(lines, i + 1, "card") \cup {i + 1}
      /\ i + 1 \notin Own(lines, i + 1, "card")
  BY OwnNext
<1>2. ASSUME NEW x, x # entry PROVE Times(lines, i + 2, x) = Times(lines, i + 1, x)
  <2>1. mine(i + 2, x) = mine(i + 1, x)
    BY <1>1, <1>2
  <2> QED BY <2>1 DEF Times
<1>3. Times(lines, i + 2, entry) = Times(lines, i + 1, entry) + 1
  <2>1. mine(i + 2, entry) = mine(i + 1, entry) \cup {i + 1} /\ i + 1 \notin mine(i + 1, entry)
    BY <1>1
  <2>2. IsFiniteSet(mine(i + 1, entry))
    BY OwnFinite
  <2>3. Cardinality(mine(i + 2, entry)) = Cardinality(mine(i + 1, entry)) + 1
    <3> HIDE DEF mine
    <3> QED BY <2>1, <2>2, FS_AddElement
  <2> QED BY <2>3 DEF Times
<1> HIDE DEF entry
<1>4. \A x : /\ x \in HashOf(lines, i + 1) <=> Times(lines, i + 1, x) % 2 = 1
             /\ x \in HashOf(lines, i + 2) <=> Times(lines, i + 2, x) % 2 = 1
             /\ Times(lines, i + 1, x) \in Nat
  BY OwnFinite
<1>5. \A n \in Nat : (n + 1) % 2 = 1 <=> n % 2 # 1
  OBVIOUS
<1>6. \A x : x \in HashOf(lines, i + 2) <=>
                IF x = entry THEN x \notin HashOf(lines, i + 1) ELSE x \in HashOf(lines, i + 1)
  BY <1>2, <1>3, <1>4, <1>5
<1>7. Salt(HashOf(lines, i + 1), lines[i + 1].code, lines[i + 1].count)
        = (HashOf(lines, i + 1) \ {entry}) \cup ({entry} \ HashOf(lines, i + 1))
  BY DEF Salt, SymDiff, entry, CardSaid
<1> QED BY <1>6, <1>7

\* The counts of a list, after one more card.
LEMMA CardListed ==
    ASSUME NEW lines, Len(lines) \in Nat, DOMAIN lines = 1..Len(lines), NEW i \in Nat,
           i + 1 \in DOMAIN lines, lines[i + 1].kind = "card", NEW dict,
           HasCounts(dict, lines, i + 1),
           NEW after,
           after = [c \in DOMAIN dict \cup {lines[i + 1].code} |->
                        IF c = lines[i + 1].code THEN lines[i + 1].count ELSE dict[c]]
    PROVE  HasCounts(after, lines, i + 2)
<1>0. /\ DOMAIN dict = CodesOf(lines, i + 1)
      /\ \A k \in DOMAIN lines : IsLast(lines, i + 1, k) => dict[lines[k].code] = lines[k].count
  BY DEF HasCounts
<1>1. /\ Own(lines, i + 2, "card") = Own(lines, i + 1, "card") \cup {i + 1}
      /\ \A k \in Own(lines, i + 1, "card") : k \in Nat /\ k < i + 1
  BY OwnNext DEF Own, Lines
<1>2. CodesOf(lines, i + 2) = CodesOf(lines, i + 1) \cup {lines[i + 1].code}
  BY <1>1 DEF CodesOf
<1>3. ASSUME NEW k \in DOMAIN lines, IsLast(lines, i + 2, k)
      PROVE  after[lines[k].code] = lines[k].count
  <2>1. CASE k = i + 1
    BY <2>1
  <2>2. CASE k # i + 1
    <3>1. k \in Own(lines, i + 1, "card") /\ lines[k].code # lines[i + 1].code
      BY <1>1, <1>3, <2>2 DEF IsLast
    <3>2. IsLast(lines, i + 1, k)
      BY <1>1, <1>3, <3>1 DEF IsLast
    <3>3. lines[k].code \in DOMAIN dict
      BY <1>0, <3>1 DEF CodesOf
    <3> QED BY <1>0, <3>1, <3>2, <3>3
  <2> QED BY <2>1, <2>2
<1> QED BY <1>0, <1>2, <1>3 DEF HasCounts

\* Of a file it can be read to line i, and so many lists end there.
ReadableTo(lines, i) == \A k \in Lines(lines, "unreadable") : i < k
EndsTo(lines, i) == {e \in Lines(lines, "!") : e <= i /\ ReadableTo(lines, e)}

ListAt(list, lines, e) ==
    /\ list = [hash |-> HashOf(lines, e), whitelist |-> list.whitelist, dict |-> list.dict]
    /\ IsSaid(list, lines, e)

\* What has been read of a file after i lines.
ReadTo(r, lines, lists, i) ==
    \E list, added :
        /\ Added(added, lists, lines, EndsTo(lines, i))
        /\ ReadableTo(lines, i) =>
                /\ ListAt(list, lines, i + 1)
                /\ r = [list |-> list, lists |-> added, failed |-> FALSE]
        /\ ~ ReadableTo(lines, i) => r = [list |-> list, lists |-> added, failed |-> TRUE]

\* A list is added, at an end after those of the lists before it.
LEMMA AddOne ==
    ASSUME NEW lines, NEW lists, NEW ends, NEW had, Added(had, lists, lines, ends),
           NEW e, \A k \in ends : k < e, NEW list, ListAt(list, lines, e)
    PROVE  Added(ConditionallyAdd(list, had), lists, lines, ends \cup {e})
<1> DEFINE listed == {k \in ends : HashOf(lines, k) # BANLIST_HASH_MAGIC}
           after == ConditionallyAdd(list, had)
           more == {k \in ends \cup {e} : HashOf(lines, k) # BANLIST_HASH_MAGIC}
<1>1. /\ DOMAIN had = DOMAIN lists \cup {HashOf(lines, k) : k \in listed}
      /\ \A h \in DOMAIN lists : had[h] = lists[h]
      /\ \A k \in listed :
            \/ HashOf(lines, k) \in DOMAIN lists
            \/ \E j \in listed : j < k /\ HashOf(lines, j) = HashOf(lines, k)
            \/ IsSaid(had[HashOf(lines, k)], lines, k)
  BY DEF Added
<1>2. list.hash = HashOf(lines, e) /\ IsSaid(list, lines, e)
  BY DEF ListAt
<1>3. CASE HashOf(lines, e) = BANLIST_HASH_MAGIC
  <2>1. more = listed /\ after = had
    BY <1>2, <1>3 DEF ConditionallyAdd
  <2> HIDE DEF listed, more, after
  <2>2. Added(after, lists, lines, ends \cup {e})
    BY <1>1, <2>1 DEF Added, more
  <2> QED BY <2>2 DEF after
<1>4. CASE HashOf(lines, e) # BANLIST_HASH_MAGIC
  <2>1. more = listed \cup {e}
    BY <1>4
  <2>2. /\ DOMAIN after = DOMAIN had \cup {HashOf(lines, e)}
        /\ \A h \in DOMAIN had : after[h] = had[h]
        /\ HashOf(lines, e) \notin DOMAIN had =>
                after[HashOf(lines, e)] = [whitelist |-> list.whitelist, dict |-> list.dict]
    BY <1>2, <1>4 DEF ConditionallyAdd
  <2>3. HashOf(lines, e) \notin DOMAIN had => IsSaid(after[HashOf(lines, e)], lines, e)
    BY <1>2, <2>2 DEF IsSaid
  <2>4. \A k \in listed : k < e /\ HashOf(lines, k) \in DOMAIN had
    BY <1>1
  <2> HIDE DEF listed, more, after
  <2>5. DOMAIN after = DOMAIN lists \cup {HashOf(lines, k) : k \in more}
    BY <1>1, <2>1, <2>2
  <2>6. \A h \in DOMAIN lists : after[h] = lists[h]
    BY <1>1, <2>2
  <2>7. ASSUME NEW k \in more
        PROVE  \/ HashOf(lines, k) \in DOMAIN lists
               \/ \E j \in more : j < k /\ HashOf(lines, j) = HashOf(lines, k)
               \/ IsSaid(after[HashOf(lines, k)], lines, k)
    <3>1. CASE k \in listed
      BY <1>1, <2>1, <2>2, <2>4, <3>1
    <3>2. CASE k = e
      BY <1>1, <2>1, <2>3, <2>4, <3>2
    <3> QED BY <2>1, <3>1, <3>2
  <2>8. Added(after, lists, lines, ends \cup {e})
    BY <2>5, <2>6, <2>7 DEF Added, more
  <2> QED BY <2>8 DEF after
<1> QED BY <1>3, <1>4

\* What the kinds of lines do to what has been read.
KindRead(list, added, line, r) ==
    /\ line.kind = "unreadable" => r = [list |-> list, lists |-> added, failed |-> TRUE]
    /\ line.kind = "!" =>
            r = [list |-> NewList, lists |-> ConditionallyAdd(list, added), failed |-> FALSE]
    /\ line.kind = "card" => \E counts :
            /\ counts = [c \in DOMAIN list.dict \cup {line.code} |->
                            IF c = line.code THEN line.count ELSE list.dict[c]]
            /\ r = [list |-> [hash |-> Salt(list.hash, line.code, line.count),
                              whitelist |-> list.whitelist, dict |-> counts],
                    lists |-> added, failed |-> FALSE]
    /\ line.kind = "$whitelist" =>
            r = [list |-> [hash |-> list.hash, whitelist |-> TRUE, dict |-> list.dict],
                 lists |-> added, failed |-> FALSE]
    /\ line.kind \notin {"unreadable", "!", "card", "$whitelist"} =>
            r = [list |-> list, lists |-> added, failed |-> FALSE]

LEMMA KindsRead ==
    ASSUME NEW list, NEW added, NEW line, NEW r,
           list = [hash |-> list.hash, whitelist |-> list.whitelist, dict |-> list.dict],
           r = [list |-> list, lists |-> added, failed |-> FALSE]
    PROVE  KindRead(list, added, line, ReadLine(r, line))
<1>0. PICK hash, whitelist, dict :
        /\ hash = list.hash /\ whitelist = list.whitelist /\ dict = list.dict
        /\ list = [hash |-> hash, whitelist |-> whitelist, dict |-> dict]
  OBVIOUS
<1>1. ASSUME line.kind = "unreadable"
      PROVE  ReadLine(r, line) = [list |-> list, lists |-> added, failed |-> TRUE]
  <2>1. ReadLine(r, line) = [r EXCEPT !.failed = TRUE]
    BY <1>1 DEF ReadLine
  <2> QED BY <2>1
<1>2. ASSUME line.kind = "!"
      PROVE  ReadLine(r, line) = [list |-> NewList, lists |-> ConditionallyAdd(list, added),
                                  failed |-> FALSE]
  <2>1. ReadLine(r, line) = [r EXCEPT !.lists = ConditionallyAdd(r.list, @), !.list = NewList]
    BY <1>2 DEF ReadLine, NextList
  <2> QED BY <2>1
<1>3. ASSUME line.kind = "card"
      PROVE  \E counts :
                /\ counts = [c \in DOMAIN list.dict \cup {line.code} |->
                                IF c = line.code THEN line.count ELSE list.dict[c]]
                /\ ReadLine(r, line) =
                        [list |-> [hash |-> Salt(list.hash, line.code, line.count),
                                   whitelist |-> list.whitelist, dict |-> counts],
                         lists |-> added, failed |-> FALSE]
  <2>1. PICK counts : counts = [c \in DOMAIN list.dict \cup {line.code} |->
                                    IF c = line.code THEN line.count ELSE list.dict[c]]
    OBVIOUS
  <2>2. ReadLine(r, line) = [r EXCEPT !.list = AddCard(@, line.code, line.count)]
    BY <1>3 DEF ReadLine
  <2>3. AddCard(list, line.code, line.count) =
            [list EXCEPT !.hash = Salt(list.hash, line.code, line.count), !.dict = counts]
    BY <2>1 DEF AddCard
  <2>4. PICK salted : salted = Salt(list.hash, line.code, line.count)
    OBVIOUS
  <2>5. AddCard(list, line.code, line.count) =
            [hash |-> salted, whitelist |-> whitelist, dict |-> counts]
    BY <1>0, <2>3, <2>4
  <2>6. ReadLine(r, line) = [list |-> AddCard(list, line.code, line.count), lists |-> added,
                             failed |-> FALSE]
    BY <2>2
  <2> QED BY <1>0, <2>1, <2>4, <2>5, <2>6
<1>4. ASSUME line.kind = "$whitelist"
      PROVE  ReadLine(r, line) =
                [list |-> [hash |-> list.hash, whitelist |-> TRUE, dict |-> list.dict],
                 lists |-> added, failed |-> FALSE]
  <2>1. ReadLine(r, line) = [r EXCEPT !.list.whitelist = TRUE]
    BY <1>4 DEF ReadLine
  <2> QED BY <1>0, <2>1
<1>5. ASSUME line.kind \notin {"unreadable", "!", "card", "$whitelist"}
      PROVE  ReadLine(r, line) = r
  BY <1>5 DEF ReadLine
<1>6. PICK after : after = ReadLine(r, line)
  OBVIOUS
<1> QED BY <1>1, <1>2, <1>3, <1>4, <1>5, <1>6 DEF KindRead

LEMMA LineRead ==
    ASSUME NEW lines, NEW lists, Len(lines) \in Nat, DOMAIN lines = 1..Len(lines),
           NEW i \in Nat, i + 1 \in DOMAIN lines, NEW r, ReadTo(r, lines, lists, i)
    PROVE  ReadTo(ReadLine(r, lines[i + 1]), lines, lists, i + 1)
<1>0. (i + 1) + 1 = i + 2
  OBVIOUS
<1>1. PICK line : line = lines[i + 1]
  OBVIOUS
<1>2. ReadableTo(lines, i + 1) <=> ReadableTo(lines, i) /\ line.kind # "unreadable"
  <2>1. \A k \in DOMAIN lines : k \in Nat /\ (i + 1 < k <=> i < k /\ k # i + 1)
    OBVIOUS
  <2> QED BY <1>1, <2>1 DEF ReadableTo, Lines
<1>3. EndsTo(lines, i + 1) = EndsTo(lines, i)
        \cup (IF line.kind = "!" /\ ReadableTo(lines, i) THEN {i + 1} ELSE {})
  <2>1. \A k \in DOMAIN lines : k \in Nat /\ (k <= i + 1 <=> k <= i \/ k = i + 1)
    OBVIOUS
  <2>2. line.kind = "!" => line.kind # "unreadable"
    OBVIOUS
  <2>3. i + 1 \in Lines(lines, "!") <=> line.kind = "!"
    BY <1>1 DEF Lines
  <2>4. ~ i + 1 <= i
    OBVIOUS
  <2>5. Lines(lines, "!") \subseteq DOMAIN lines
    BY DEF Lines
  <2> QED BY <1>2, <2>1, <2>2, <2>3, <2>4, <2>5 DEF EndsTo
<1>4. PICK list, added :
        /\ Added(added, lists, lines, EndsTo(lines, i))
        /\ ReadableTo(lines, i) =>
                /\ ListAt(list, lines, i + 1)
                /\ r = [list |-> list, lists |-> added, failed |-> FALSE]
        /\ ~ ReadableTo(lines, i) => r = [list |-> list, lists |-> added, failed |-> TRUE]
  BY DEF ReadTo
<1> SUFFICES ReadTo(ReadLine(r, line), lines, lists, i + 1)
  BY <1>1
<1>5. CASE ~ ReadableTo(lines, i)
  <2>1. r.failed /\ r = [list |-> list, lists |-> added, failed |-> TRUE]
    BY <1>4, <1>5
  <2>2. ReadLine(r, line) = r
    BY <2>1 DEF ReadLine
  <2>3. EndsTo(lines, i + 1) = EndsTo(lines, i) /\ ~ ReadableTo(lines, i + 1)
    BY <1>2, <1>3, <1>5
  <2> QED BY <1>4, <2>1, <2>2, <2>3 DEF ReadTo
<1>6. ASSUME ReadableTo(lines, i) PROVE ReadTo(ReadLine(r, line), lines, lists, i + 1)
  <2>1. /\ r = [list |-> list, lists |-> added, failed |-> FALSE]
        /\ ListAt(list, lines, i + 1)
        /\ list.hash = HashOf(lines, i + 1)
        /\ list.whitelist = (Own(lines, i + 1, "$whitelist") # {})
        /\ HasCounts(list.dict, lines, i + 1)
    BY <1>4, <1>6 DEF ListAt, IsSaid
  <2>2. KindRead(list, added, line, ReadLine(r, line))
    <3>1. list = [hash |-> list.hash, whitelist |-> list.whitelist, dict |-> list.dict]
      BY <2>1 DEF ListAt
    <3> QED BY <2>1, <3>1, KindsRead
  <2>3. CASE line.kind = "unreadable"
    <3>1. ReadLine(r, line) = [list |-> list, lists |-> added, failed |-> TRUE]
      BY <2>2, <2>3 DEF KindRead
    <3>2. EndsTo(lines, i + 1) = EndsTo(lines, i) /\ ~ ReadableTo(lines, i + 1)
      BY <1>2, <1>3, <2>3
    <3> QED BY <1>4, <3>1, <3>2 DEF ReadTo
  <2>4. CASE line.kind = "!"
    <3>1. ReadLine(r, line) =
            [list |-> NewList, lists |-> ConditionallyAdd(list, added), failed |-> FALSE]
      BY <2>2, <2>4 DEF KindRead
    <3>2. EndsTo(lines, i + 1) = EndsTo(lines, i) \cup {i + 1} /\ ReadableTo(lines, i + 1)
      BY <1>2, <1>3, <1>6, <2>4
    <3>3. \A k \in EndsTo(lines, i) : k < i + 1
      BY DEF EndsTo, Lines
    <3>4. Added(ConditionallyAdd(list, added), lists, lines, EndsTo(lines, i + 1))
      BY <1>4, <2>1, <3>2, <3>3, AddOne
    <3>5. ListAt(NewList, lines, i + 2)
      <4>1. Own(lines, i + 2, "card") = {} /\ Own(lines, i + 2, "$whitelist") = {}
        BY <1>1, <2>4, OwnNext
      <4>2. HashOf(lines, i + 2) = {} /\ CodesOf(lines, i + 2) = {}
        BY <4>1 DEF HashOf, CodesOf
      <4>3. \A k : ~ IsLast(lines, i + 2, k)
        BY <4>1 DEF IsLast
      <4> QED BY <4>1, <4>2, <4>3 DEF ListAt, IsSaid, HasCounts, NewList, BANLIST_HASH_MAGIC
    <3> QED BY <1>0, <3>1, <3>2, <3>4, <3>5 DEF ReadTo
  <2>5. ASSUME line.kind \notin {"unreadable", "!"}, NEW said,
               ReadLine(r, line) = [list |-> said, lists |-> added, failed |-> FALSE],
               ListAt(said, lines, i + 2)
        PROVE  ReadTo(ReadLine(r, line), lines, lists, i + 1)
    <3>1. EndsTo(lines, i + 1) = EndsTo(lines, i) /\ ReadableTo(lines, i + 1)
      BY <1>2, <1>3, <1>6, <2>5
    <3> QED BY <1>0, <1>4, <2>5, <3>1 DEF ReadTo
  <2>6. CASE line.kind = "card"
    <3>1. PICK counts :
            /\ counts = [c \in DOMAIN list.dict \cup {line.code} |->
                            IF c = line.code THEN line.count ELSE list.dict[c]]
            /\ ReadLine(r, line) =
                    [list |-> [hash |-> Salt(list.hash, line.code, line.count),
                               whitelist |-> list.whitelist, dict |-> counts],
                     lists |-> added, failed |-> FALSE]
      BY <2>2, <2>6 DEF KindRead
    <3>2. HashOf(lines, i + 2) = Salt(list.hash, line.code, line.count)
      BY <1>1, <2>1, <2>6, CardCounted
    <3>3. HasCounts(counts, lines, i + 2)
      <4>1. PICK dict : dict = list.dict /\ HasCounts(dict, lines, i + 1)
        BY <2>1
      <4>2. counts = [c \in DOMAIN dict \cup {lines[i + 1].code} |->
                        IF c = lines[i + 1].code THEN lines[i + 1].count ELSE dict[c]]
        BY <1>1, <3>1, <4>1
      <4>3. lines[i + 1].kind = "card"
        BY <1>1, <2>6
      <4> QED BY <4>1, <4>2, <4>3, CardListed
    <3>4. Own(lines, i + 2, "$whitelist") = Own(lines, i + 1, "$whitelist")
      BY <1>1, <2>6, OwnNext
    <3>5. PICK said : said = [hash |-> HashOf(lines, i + 2), whitelist |-> list.whitelist,
                              dict |-> counts]
      OBVIOUS
    <3>6. ListAt(said, lines, i + 2)
      BY <2>1, <3>3, <3>4, <3>5 DEF ListAt, IsSaid
    <3>7. ReadLine(r, line) = [list |-> said, lists |-> added, failed |-> FALSE]
      BY <3>1, <3>2, <3>5
    <3> QED BY <2>5, <2>6, <3>6, <3>7
  <2>7. CASE line.kind \notin {"unreadable", "!", "card"}
    <3>1. Own(lines, i + 2, "card") = Own(lines, i + 1, "card")
      BY <1>1, <2>7, OwnNext
    <3>2. /\ HashOf(lines, i + 2) = HashOf(lines, i + 1)
          /\ CodesOf(lines, i + 2) = CodesOf(lines, i + 1)
          /\ \A k : IsLast(lines, i + 2, k) <=> IsLast(lines, i + 1, k)
      BY <3>1 DEF HashOf, Times, CodesOf, IsLast
    <3>3. HasCounts(list.dict, lines, i + 2)
      BY <2>1, <3>2 DEF HasCounts
    <3>4. CASE line.kind = "$whitelist"
      <4>1. PICK said : said = [hash |-> list.hash, whitelist |-> TRUE, dict |-> list.dict]
        OBVIOUS
      <4>2. ReadLine(r, line) = [list |-> said, lists |-> added, failed |-> FALSE]
        BY <2>2, <3>4, <4>1 DEF KindRead
      <4>3. Own(lines, i + 2, "$whitelist") # {}
        BY <1>1, <3>4, OwnNext
      <4>4. ListAt(said, lines, i + 2)
        BY <2>1, <3>2, <3>3, <4>1, <4>3 DEF ListAt, IsSaid
      <4> QED BY <2>5, <2>7, <4>2, <4>4
    <3>5. CASE line.kind # "$whitelist"
      <4>1. ReadLine(r, line) = [list |-> list, lists |-> added, failed |-> FALSE]
        BY <2>2, <2>7, <3>5 DEF KindRead
      <4>2. Own(lines, i + 2, "$whitelist") = Own(lines, i + 1, "$whitelist")
        BY <1>1, <2>7, <3>5, OwnNext
      <4>3. ListAt(list, lines, i + 2)
        BY <2>1, <3>2, <3>3, <4>2 DEF ListAt, IsSaid
      <4> QED BY <2>5, <2>7, <4>1, <4>3
    <3> QED BY <3>4, <3>5
  <2> QED BY <2>3, <2>4, <2>6, <2>7
<1> QED BY <1>5, <1>6

\* Whatever is in a file, a list has the cards, the counts and the kind that its own
\* lines say, and none is lost, or changed, by what is wrong in another one after it
\* (ParseForBanlists, whose state outlives lists and which an exception may leave at any
\* line).
THEOREM FilesAddLists ==
    ASSUME NEW S, NEW lines \in Seq(S), NEW lists
    PROVE  AddsLists(lines, lists)
<1> DEFINE n == Len(lines)
<1>0. n \in Nat /\ DOMAIN lines = 1..n
  OBVIOUS
<1>1. PICK read :
        /\ ParseForBanlists(lines, lists) =
              IF read[n].failed THEN read[n].lists
              ELSE ConditionallyAdd(read[n].list, read[n].lists)
        /\ read[0] = Reading(lists)
        /\ \A i \in 1..n : read[i] = ReadLine(read[i - 1], lines[i])
  BY <1>0, ReadInOrder
<1> DEFINE P == {i \in Nat : i <= n => ReadTo(read[i], lines, lists, i)}
<1>2. 0 \in P
  <2>1. \A k \in DOMAIN lines : 0 < k /\ ~ k <= 0 /\ ~ k < 1
    BY <1>0
  <2>2. ReadableTo(lines, 0) /\ EndsTo(lines, 0) = {}
    BY <2>1 DEF ReadableTo, EndsTo, Lines
  <2>3. \A kind : Own(lines, 1, kind) = {}
    BY <2>1 DEF Own, Lines
  <2>4. HashOf(lines, 1) = {} /\ CodesOf(lines, 1) = {} /\ \A k : ~ IsLast(lines, 1, k)
    BY <2>3 DEF HashOf, CodesOf, IsLast
  <2>5. ListAt(NewList, lines, 1)
    BY <2>3, <2>4 DEF ListAt, IsSaid, HasCounts, NewList, BANLIST_HASH_MAGIC
  <2>6. Added(lists, lists, lines, EndsTo(lines, 0))
    BY <2>2 DEF Added
  <2>7. ReadTo(Reading(lists), lines, lists, 0)
    <3>1. 0 + 1 = 1
      OBVIOUS
    <3> HIDE DEF P, n
    <3> QED BY <2>2, <2>5, <2>6, <3>1 DEF ReadTo, Reading
  <2> QED BY <1>1, <2>7
<1>3. ASSUME NEW i \in P PROVE i + 1 \in P
  <2>1. i \in Nat /\ (i <= n => ReadTo(read[i], lines, lists, i))
    OBVIOUS
  <2>2. SUFFICES ASSUME i + 1 <= n PROVE ReadTo(read[i + 1], lines, lists, i + 1)
    BY <2>1
  <2>3. i + 1 \in 1..n /\ (i + 1) - 1 = i /\ ReadTo(read[i], lines, lists, i)
    BY <1>0, <2>1, <2>2
  <2>4. read[i + 1] = ReadLine(read[i], lines[i + 1])
    BY <1>1, <2>3
  <2> QED BY <1>0, <2>1, <2>3, <2>4, LineRead
<1>4. ReadTo(read[n], lines, lists, n)
  <2>1. P \in SUBSET Nat
    OBVIOUS
  <2>2. P = Nat
    <3> HIDE DEF P
    <3> QED BY <1>2, <1>3, <2>1, Counting
  <2> QED BY <1>0, <2>2
<1>5. ListEnds(lines) = EndsTo(lines, n) \cup (IF ReadableTo(lines, n) THEN {n + 1} ELSE {})
  <2>1. \A k \in DOMAIN lines : k \in Nat /\ k <= n /\ ~ n + 1 < k /\ ~ n < k /\ k # n + 1
    BY <1>0
  <2>2. \A kind : Lines(lines, kind) \subseteq DOMAIN lines
    BY DEF Lines
  <2> QED BY <2>1, <2>2 DEF ListEnds, EndsTo, ReadableTo
<1>6. PICK list, added :
        /\ Added(added, lists, lines, EndsTo(lines, n))
        /\ ReadableTo(lines, n) =>
                /\ ListAt(list, lines, n + 1)
                /\ read[n] = [list |-> list, lists |-> added, failed |-> FALSE]
        /\ ~ ReadableTo(lines, n) => read[n] = [list |-> list, lists |-> added, failed |-> TRUE]
  BY <1>4 DEF ReadTo
<1>7. CASE ~ ReadableTo(lines, n)
  <2>1. ListEnds(lines) = EndsTo(lines, n) /\ ParseForBanlists(lines, lists) = added
    BY <1>1, <1>5, <1>6, <1>7
  <2> QED BY <1>6, <2>1 DEF AddsLists
<1>8. CASE ReadableTo(lines, n)
  <2>1. /\ ListEnds(lines) = EndsTo(lines, n) \cup {n + 1}
        /\ ParseForBanlists(lines, lists) = ConditionallyAdd(list, added)
    BY <1>1, <1>5, <1>6, <1>8
  <2>2. \A k \in EndsTo(lines, n) : k < n + 1
    BY <1>0 DEF EndsTo, Lines
  <2> HIDE DEF n
  <2>3. Added(ConditionallyAdd(list, added), lists, lines, ListEnds(lines))
    BY <1>6, <1>8, <2>1, <2>2, AddOne
  <2> QED BY <2>1, <2>3 DEF AddsLists
<1> QED BY <1>7, <1>8

-----------------------------------------------------------------------------
(* Decks *)

Pile == [Codes -> Nat]

\* The cards of some codes in a pile, each with a number of its own.
Cells(pile, codes) == UNION {{c} \X (1 .. pile[c]) : c \in codes}

LEMMA CodesFinite == Codes \subseteq Nat /\ IsFiniteSet(Codes)
BY DecksAssumption

LEMMA InCells ==
    ASSUME NEW pile, NEW codes
    PROVE  /\ \A c, i : <<c, i>> \in Cells(pile, codes) <=> c \in codes /\ i \in 1 .. pile[c]
           /\ \A x \in Cells(pile, codes) : \E c \in codes : \E i \in 1 .. pile[c] : x = <<c, i>>
BY DEF Cells

LEMMA CellsFinite ==
    ASSUME NEW pile \in Pile, NEW codes \in SUBSET Codes
    PROVE  IsFiniteSet(Cells(pile, codes)) /\ Cardinality(Cells(pile, codes)) \in Nat
<1> DEFINE rows == {{c} \X (1 .. pile[c]) : c \in codes}
           row == [c \in codes |-> {c} \X (1 .. pile[c])]
<1>1. IsFiniteSet(codes)
  BY CodesFinite, FS_Subset
<1>2. row \in Surjection(codes, rows)
  BY DEF Surjection
<1>3. IsFiniteSet(rows)
  BY <1>1, <1>2, FS_Surjection
<1>4. \A c \in codes : IsFiniteSet({c} \X (1 .. pile[c]))
  <2> SUFFICES ASSUME NEW c \in codes PROVE IsFiniteSet({c} \X (1 .. pile[c]))
    OBVIOUS
  <2>1. pile[c] \in Int
    BY DEF Pile
  <2>2. IsFiniteSet(1 .. pile[c])
    BY <2>1, FS_Interval
  <2>3. IsFiniteSet({c})
    BY FS_Singleton
  <2> QED BY <2>2, <2>3, FS_Product
<1>5. \A T \in rows : IsFiniteSet(T)
  BY <1>4
<1>6. IsFiniteSet(UNION rows)
  BY <1>3, <1>5, FS_UNION
<1>7. IsFiniteSet(Cells(pile, codes))
  BY <1>6 DEF Cells
<1> QED BY <1>7, FS_CardinalityType

LEMMA SizeIs == \A pile : Size(pile) = Cardinality(Cells(pile, Codes))
<1> SUFFICES ASSUME NEW pile PROVE Size(pile) = Cardinality(Cells(pile, Codes))
  OBVIOUS
<1>1. {d \in Codes : TRUE} = Codes
  OBVIOUS
<1> QED BY <1>1 DEF Size, Count, Cells

LEMMA SkillsAre ==
    \A deck : SkillsIn(deck) = Cardinality(Cells(deck.main, {d \in Codes : "skill" \in Type(d)}))
BY DEF SkillsIn, Count, Cells

LEMMA LegendsAre ==
    \A deck, type : LegendsIn(deck, type) =
        Cardinality(Cells(deck.main, {d \in Codes : IsLegend(d, type)}))
            + Cardinality(Cells(deck.extra, {d \in Codes : IsLegend(d, type)}))
BY DEF LegendsIn, Count, Cells

LEMMA CountsAreNat ==
    ASSUME NEW deck, deck.main \in Pile, deck.extra \in Pile, deck.side \in Pile
    PROVE  /\ Size(deck.main) \in Nat /\ Size(deck.extra) \in Nat /\ Size(deck.side) \in Nat
           /\ SkillsIn(deck) \in Nat /\ \A type : LegendsIn(deck, type) \in Nat
<1>1. \A pile \in Pile : Size(pile) \in Nat
  BY SizeIs, CellsFinite
<1>2. SkillsIn(deck) \in Nat
  <2>1. {d \in Codes : "skill" \in Type(d)} \in SUBSET Codes
    OBVIOUS
  <2> QED BY <2>1, SkillsAre, CellsFinite
<1>3. ASSUME NEW type PROVE LegendsIn(deck, type) \in Nat
  <2>1. {d \in Codes : IsLegend(d, type)} \in SUBSET Codes
    OBVIOUS
  <2>2. /\ Cardinality(Cells(deck.main, {d \in Codes : IsLegend(d, type)})) \in Nat
        /\ Cardinality(Cells(deck.extra, {d \in Codes : IsLegend(d, type)})) \in Nat
    BY <2>1, CellsFinite
  <2> QED BY <2>2, LegendsAre
<1> QED BY <1>1, <1>2, <1>3

\* Two piles that are put together.
Together(a, b) == [c \in Codes |-> a[c] + b[c]]

LEMMA SizeTogether ==
    ASSUME NEW a \in Pile, NEW b \in Pile
    PROVE  Together(a, b) \in Pile /\ Size(Together(a, b)) = Size(a) + Size(b)
<1> DEFINE A == Cells(a, Codes)
           B == Cells(b, Codes)
           C == Cells(Together(a, b), Codes)
           moved == [x \in B |-> <<x[1], a[x[1]] + x[2]>>]
           M == C \ A
<1>1. Together(a, b) \in Pile
  BY DEF Together, Pile
<1>2. \A c \in Codes : a[c] \in Nat /\ b[c] \in Nat /\ Together(a, b)[c] = a[c] + b[c]
  BY DEF Together, Pile
<1>3. A \subseteq C
  <2> SUFFICES ASSUME NEW x \in A PROVE x \in C
    OBVIOUS
  <2>1. PICK c \in Codes : \E i \in 1 .. a[c] : x = <<c, i>>
    BY InCells
  <2>2. PICK i \in 1 .. a[c] : x = <<c, i>>
    BY <2>1
  <2>3. i \in 1 .. Together(a, b)[c]
    BY <1>2
  <2> QED BY <2>2, <2>3, InCells
<1>4. moved \in [B -> M]
  <2> SUFFICES ASSUME NEW x \in B PROVE moved[x] \in M
    OBVIOUS
  <2>1. PICK c \in Codes : \E i \in 1 .. b[c] : x = <<c, i>>
    BY InCells
  <2>2. PICK i \in 1 .. b[c] : x = <<c, i>>
    BY <2>1
  <2>3. moved[x] = <<c, a[c] + i>>
    BY <2>2
  <2>4. a[c] + i \in 1 .. Together(a, b)[c] /\ a[c] + i \notin 1 .. a[c]
    BY <1>2
  <2>5. <<c, a[c] + i>> \in C /\ <<c, a[c] + i>> \notin A
    BY <2>4, InCells
  <2> QED BY <2>3, <2>5
<1>5. ASSUME NEW x \in B, NEW y \in B, moved[x] = moved[y] PROVE x = y
  <2>1. PICK c \in Codes : \E i \in 1 .. b[c] : x = <<c, i>>
    BY InCells
  <2>2. PICK i \in 1 .. b[c] : x = <<c, i>>
    BY <2>1
  <2>3. PICK d \in Codes : \E j \in 1 .. b[d] : y = <<d, j>>
    BY InCells
  <2>4. PICK j \in 1 .. b[d] : y = <<d, j>>
    BY <2>3
  <2>5. moved[x] = <<c, a[c] + i>> /\ moved[y] = <<d, a[d] + j>>
    BY <2>2, <2>4
  <2>6. c = d /\ a[c] + i = a[c] + j
    BY <1>5, <2>5
  <2>7. i = j
    BY <1>2, <2>6
  <2> QED BY <2>2, <2>4, <2>6, <2>7
<1>6. ASSUME NEW y \in M PROVE \E x \in B : moved[x] = y
  <2>1. PICK c \in Codes : \E i \in 1 .. Together(a, b)[c] : y = <<c, i>>
    BY InCells
  <2>2. PICK i \in 1 .. Together(a, b)[c] : y = <<c, i>>
    BY <2>1
  <2>3. i \notin 1 .. a[c]
    BY <2>2, InCells
  <2>4. i - a[c] \in 1 .. b[c] /\ a[c] + (i - a[c]) = i
    BY <1>2, <2>3
  <2>5. <<c, i - a[c]>> \in B
    BY <2>4, InCells
  <2>6. moved[<<c, i - a[c]>>] = <<c, i>>
    BY <2>4, <2>5
  <2> QED BY <2>2, <2>5, <2>6
<1>7. moved \in Bijection(B, M)
  BY <1>4, <1>5, <1>6 DEF Bijection, Injection, Surjection, IsInjective
<1> HIDE DEF A, B, C, moved
<1>8. /\ IsFiniteSet(A) /\ IsFiniteSet(B) /\ IsFiniteSet(C)
      /\ Cardinality(A) \in Nat /\ Cardinality(B) \in Nat /\ Cardinality(C) \in Nat
  BY <1>1, CellsFinite DEF A, B, C
<1>9. Cardinality(M) = Cardinality(B)
  BY <1>7, <1>8, FS_Bijection DEF ExistsBijection
<1>10. Cardinality(M) = Cardinality(C) - Cardinality(C \cap A)
  BY <1>8, FS_Difference
<1>11. C \cap A = A
  BY <1>3
<1>12. Cardinality(C) = Cardinality(A) + Cardinality(B)
  BY <1>8, <1>9, <1>10, <1>11
<1>13. Size(a) = Cardinality(A) /\ Size(b) = Cardinality(B) /\ Size(Together(a, b)) = Cardinality(C)
  BY SizeIs DEF A, B, C
<1> QED BY <1>1, <1>12, <1>13

LEMMA MapSize ==
    ASSUME NEW deck, deck.main \in Pile, deck.extra \in Pile, deck.side \in Pile
    PROVE  /\ GetCodeMap(deck) \in Pile
           /\ Size(GetCodeMap(deck)) = Size(deck.main) + Size(deck.extra) + Size(deck.side)
<1> DEFINE both == Together(deck.main, deck.extra)
<1>1. both \in Pile /\ Size(both) = Size(deck.main) + Size(deck.extra)
  BY SizeTogether
<1>2. Together(both, deck.side) = GetCodeMap(deck)
  BY DEF Together, GetCodeMap, Pile
<1> HIDE DEF both
<1>3. PICK w : w = both
  OBVIOUS
<1>4. Together(w, deck.side) \in Pile /\ Size(Together(w, deck.side)) = Size(w) + Size(deck.side)
  BY <1>1, <1>3, SizeTogether
<1> QED BY <1>1, <1>2, <1>3, <1>4

\* A pile that is nowhere smaller than another, and has no more cards, is the same.
LEMMA NoMoreCards ==
    ASSUME NEW a \in Pile, NEW b \in Pile, \A c \in Codes : b[c] >= a[c], ~ Size(b) > Size(a)
    PROVE  a = b
<1> DEFINE A == Cells(a, Codes)
           B == Cells(b, Codes)
<1>1. \A c \in Codes : a[c] \in Nat /\ b[c] \in Nat
  BY DEF Pile
<1>2. A \subseteq B
  <2> SUFFICES ASSUME NEW x \in A PROVE x \in B
    OBVIOUS
  <2>1. PICK c \in Codes : \E i \in 1 .. a[c] : x = <<c, i>>
    BY InCells
  <2>2. PICK i \in 1 .. a[c] : x = <<c, i>>
    BY <2>1
  <2>3. i \in 1 .. b[c]
    BY <1>1
  <2> QED BY <2>2, <2>3, InCells
<1>3. /\ IsFiniteSet(A) /\ IsFiniteSet(B)
      /\ Cardinality(A) \in Nat /\ Cardinality(B) \in Nat
  BY CellsFinite
<1>4. Size(a) = Cardinality(A) /\ Size(b) = Cardinality(B)
  BY SizeIs
<1> HIDE DEF A, B
<1>5. Cardinality(A) <= Cardinality(B)
  BY <1>2, <1>3, FS_Subset
<1>6. Cardinality(A) = Cardinality(B)
  BY <1>3, <1>4, <1>5
<1>7. A = B
  BY <1>2, <1>3, <1>6, FS_Subset
<1>8. ASSUME NEW c \in Codes, b[c] # a[c] PROVE FALSE
  <2>1. b[c] \in 1 .. b[c] /\ b[c] \notin 1 .. a[c]
    BY <1>1, <1>8
  <2>2. <<c, b[c]>> \in B /\ <<c, b[c]>> \notin A
    BY <2>1, InCells DEF A, B
  <2> QED BY <1>7, <2>2
<1> QED BY <1>8 DEF Pile

\* A card's place among those of a map, in the order of codes, is its own.
LEMMA OwnPlace ==
    ASSUME NEW S \in SUBSET Codes, NEW c \in S, NEW d \in S,
           Cardinality({e \in S : e <= c}) = Cardinality({e \in S : e <= d})
    PROVE  c = d
<1> DEFINE upto(x) == {e \in S : e <= x}
<1>1. IsFiniteSet(S) /\ S \subseteq Nat
  BY CodesFinite, FS_Subset
<1>2. ASSUME NEW x \in S, NEW y \in S, x < y,
             Cardinality(upto(x)) = Cardinality(upto(y))
      PROVE  FALSE
  <2>1. upto(x) \in SUBSET upto(y)
    <3> SUFFICES ASSUME NEW e \in upto(x) PROVE e \in upto(y)
      OBVIOUS
    <3>1. e \in S /\ e <= x
      OBVIOUS
    <3>2. e <= y
      BY <1>1, <1>2, <3>1
    <3> QED BY <3>1, <3>2
  <2>2. IsFiniteSet(upto(y))
    BY <1>1, FS_Subset
  <2>3. y \in upto(y) /\ y \notin upto(x)
    BY <1>1, <1>2
  <2> HIDE DEF upto
  <2>4. upto(y) = upto(x)
    BY <1>2, <2>1, <2>2, FS_Subset
  <2> QED BY <2>3, <2>4
<1>3. c < d \/ d < c \/ c = d
  BY <1>1
<1> QED BY <1>2, <1>3

LEMMA EntryAt ==
    ASSUME NEW map \in Pile, NEW c \in Codes, map[c] > 0
    PROVE  \E i \in 1 .. Entries(map) : Entry(map, i) = <<c, map[c]>>
<1> DEFINE codes == {e \in Codes : map[e] > 0}
           i == Cardinality({e \in codes : e <= c})
<1>1. codes \in SUBSET Codes /\ c \in codes
  OBVIOUS
<1>2. IsFiniteSet(codes) /\ codes \subseteq Nat
  BY CodesFinite, FS_Subset
<1>3. /\ IsFiniteSet({e \in codes : e <= c})
      /\ i \in Nat /\ Cardinality(codes) \in Nat /\ i <= Cardinality(codes)
  <2>1. {e \in codes : e <= c} \in SUBSET codes
    OBVIOUS
  <2> QED BY <1>2, <2>1, FS_Subset, FS_CardinalityType
<1>4. i # 0
  <2>1. c \in {e \in codes : e <= c}
    BY <1>1, <1>2
  <2> QED BY <1>3, <2>1, FS_EmptySet
<1>5. Entries(map) = Cardinality(codes)
  BY DEF Entries, Sent
<1>6. i \in 1 .. Entries(map)
  BY <1>3, <1>4, <1>5
<1>7. \A d \in codes : Cardinality({e \in codes : e <= d}) = i => d = c
  BY <1>1, OwnPlace
<1>8. (CHOOSE d \in codes : Cardinality({e \in codes : e <= d}) = i) = c
  <2>1. c \in codes /\ Cardinality({e \in codes : e <= c}) = i
    BY <1>1
  <2> HIDE DEF codes, i
  <2> QED BY <1>7, <2>1
<1>9. Entry(map, i) = <<c, map[c]>>
  BY <1>8 DEF Entry
<1> QED BY <1>6, <1>9

LEMMA CompareFinds ==
    ASSUME NEW og \in Pile, NEW new \in Pile, EqualSoFar(og, new),
           ~ Entries(new) < Entries(og), NEW c \in Codes
    PROVE  new[c] >= og[c]
<1>1. og[c] \in Nat /\ new[c] \in Nat
  BY DEF Pile
<1>2. Entries(og) \in Nat /\ Entries(new) \in Nat
  <2>1. Sent(og) \in SUBSET Codes /\ Sent(new) \in SUBSET Codes
    BY DEF Sent
  <2> QED BY <2>1, CodesFinite, FS_Subset, FS_CardinalityType DEF Entries
<1>3. CASE og[c] > 0
  <2>1. PICK i \in 1 .. Entries(og) : Entry(og, i) = <<c, og[c]>>
    BY <1>3, EntryAt
  <2>2. i \in 1 .. Least(Entries(og), Entries(new))
    BY <1>2 DEF Least
  <2>3. Entry(new, i) = <<c, og[c]>>
    BY <2>1, <2>2 DEF EqualSoFar
  <2>4. PICK d : Entry(new, i) = <<d, new[d]>>
    BY DEF Entry
  <2>5. d = c /\ new[d] = og[c]
    BY <2>3, <2>4
  <2> QED BY <1>1, <2>5
<1>4. CASE ~ og[c] > 0
  BY <1>1, <1>4
<1> QED BY <1>3, <1>4

-----------------------------------------------------------------------------
Piles(deck) == deck.main \in Pile /\ deck.extra \in Pile /\ deck.side \in Pile

\* What Sidedecking accepted last, it accepted for the deck that was checked last,
\* under the rules of then, as neither can be changed once the room has started.
DeckInv ==
    /\ {"main", "extra", "side"} \subseteq DOMAIN rules
    /\ rules.main \in Bounds /\ rules.extra \in Bounds /\ rules.side \in Bounds
    /\ Piles(originalDeck) /\ Piles(currentDeck)
    /\ stage \in {"hosting", "waiting"} => currentDeck = NoDeck
    /\ stage = "hosting" => ~ checked
    /\ checked => CheckDeck(originalDeck)
    /\ currentDeck # NoDeck =>
        /\ SideDeckValid(originalDeck, currentDeck)
        /\ overread = Overreads(originalDeck, currentDeck)
        /\ currentDeck.error = 0

LEMMA NoDeckPiles == Piles(NoDeck)
BY DEF Piles, NoDeck, NoCards, Pile

LEMMA Loaded ==
    ASSUME NEW main \in MainLists, NEW side \in SideLists, NEW err
    PROVE  Piles(LoadDeck(main, side, err)) /\ LoadDeck(main, side, err).error = err
<1>1. main \in Pile /\ side \in Pile
  BY DecksAssumption DEF Pile
<1>2. \A pile \in Pile : \A cards : Kept(pile, cards) \in Pile
  BY DEF Kept, Pile
<1> QED BY <1>1, <1>2 DEF LoadDeck, Piles

LEMMA FixedLimit == ASSUME NEW lim \in Bounds PROVE FixLimit(lim) \in Bounds
<1>1. lim.min \in Nat /\ lim.max \in Nat
  BY DEF Bounds
<1>2. Least(lim.max, MaxLimit) \in Nat
  BY <1>1 DEF Least, MaxLimit
<1>3. Least(lim.min, Least(lim.max, MaxLimit)) \in Nat
  BY <1>1, <1>2 DEF Least
<1> QED BY <1>2, <1>3 DEF FixLimit, Bounds

LEMMA DeckInitInv == DecksInit => DeckInv
BY DecksAssumption, NoDeckPiles DEF DecksInit, DeckInv, Bounds

LEMMA CreateGameInv == ASSUME DeckInv, CreateGame(rules) PROVE DeckInv'
<1>1. /\ stage = "hosting" /\ stage' = "waiting" /\ rules' = FixOptions(rules)
      /\ UNCHANGED <<originalDeck, currentDeck, checked, overread>>
  BY DEF CreateGame
<1>2. ~ checked /\ currentDeck = NoDeck /\ Piles(originalDeck) /\ Piles(currentDeck)
  BY <1>1 DEF DeckInv
<1>3. /\ {"main", "extra", "side"} \subseteq DOMAIN rules
      /\ rules.main \in Bounds /\ rules.extra \in Bounds /\ rules.side \in Bounds
  BY DEF DeckInv
<1>4. /\ DOMAIN rules' = DOMAIN rules
      /\ rules'.main = FixLimit(rules.main) /\ rules'.extra = FixLimit(rules.extra)
      /\ rules'.side = FixLimit(rules.side)
  <2> DEFINE t0 == Most(1, Least(rules.t0Count, 3))
             t1 == Most(1, Least(rules.t1Count, 3))
             relay == rules.relay /\ ~ (t0 = 1 /\ t1 = 1)
             lp == IF (t0 = 1 /\ t1 = 1) \/ relay THEN 8000 ELSE Most(t0, t1) * 8000
  <2>1. rules' = [rules EXCEPT !.t0Count = t0, !.t1Count = t1,
                               !.bestOf = Most(@, 1),
                               !.main = FixLimit(@), !.extra = FixLimit(@), !.side = FixLimit(@),
                               !.relay = relay,
                               !.startingLP = IF @ = 0 THEN lp ELSE @]
    BY <1>1 DEF FixOptions
  <2> HIDE DEF t0, t1, relay, lp
  <2>2. DOMAIN rules' = DOMAIN rules
    BY ONLY <2>1
  <2>3. rules'.main = FixLimit(rules.main)
    BY ONLY <1>3, <2>1
  <2>4. rules'.extra = FixLimit(rules.extra)
    BY ONLY <1>3, <2>1
  <2>5. rules'.side = FixLimit(rules.side)
    BY ONLY <1>3, <2>1
  <2> QED BY <2>2, <2>3, <2>4, <2>5
<1>5. /\ {"main", "extra", "side"} \subseteq DOMAIN rules'
      /\ rules'.main \in Bounds /\ rules'.extra \in Bounds /\ rules'.side \in Bounds
  BY <1>3, <1>4, FixedLimit
<1>6. Piles(originalDeck)' /\ Piles(currentDeck)' /\ ~ checked' /\ currentDeck' = NoDeck
  BY <1>1, <1>2 DEF Piles
<1>7. NoDeck' = NoDeck
  BY DEF NoDeck, NoCards
<1> QED BY <1>1, <1>5, <1>6, <1>7 DEF DeckInv

\* What is said of a deck depends on the rules and the deck only.
LEMMA SaidOfDecks ==
    ASSUME UNCHANGED <<rules, originalDeck, currentDeck>>
    PROVE  /\ CheckDeck(originalDeck)' <=> CheckDeck(originalDeck)
           /\ SideDeckValid(originalDeck, currentDeck)' <=> SideDeckValid(originalDeck, currentDeck)
           /\ Overreads(originalDeck, currentDeck)' <=> Overreads(originalDeck, currentDeck)
           /\ Piles(originalDeck)' <=> Piles(originalDeck)
           /\ Piles(currentDeck)' <=> Piles(currentDeck)
<1>1. CheckDeck(originalDeck)' <=> CheckDeck(originalDeck)
  BY DEF CheckDeck, SizesFit, ScopeAllowed, Banlisted
<1>2. SideDeckValid(originalDeck, currentDeck)' <=> SideDeckValid(originalDeck, currentDeck)
  BY DEF SideDeckValid, SameSizes, SpecialsFit, SameCodes
<1>3. Overreads(originalDeck, currentDeck)' <=> Overreads(originalDeck, currentDeck)
  BY DEF Overreads
<1>4. (Piles(originalDeck)' <=> Piles(originalDeck)) /\ (Piles(currentDeck)' <=> Piles(currentDeck))
  BY DEF Piles
<1> QED BY <1>1, <1>2, <1>3, <1>4

LEMMA UpdateDeckInv ==
    ASSUME DeckInv, NEW main \in MainLists, NEW side \in SideLists, UpdateDeck(main, side)
    PROVE  DeckInv'
<1>1. /\ stage = "waiting" /\ checked' = FALSE
      /\ UNCHANGED <<rules, stage, currentDeck, ready, overread>>
  BY DEF UpdateDeck
<1>2. PICK err : originalDeck' = LoadDeck(main, side, err)
  BY DEF UpdateDeck
<1>3. Piles(originalDeck')
  BY <1>2, Loaded
<1>4. currentDeck = NoDeck /\ Piles(currentDeck)
  BY <1>1 DEF DeckInv
<1>5. currentDeck' = NoDeck' /\ Piles(currentDeck') /\ NoDeck' = NoDeck
  BY <1>1, <1>4 DEF NoDeck, NoCards
<1> QED BY <1>1, <1>3, <1>5 DEF DeckInv, Piles

\* The steps that leave both decks alone.
LEMMA DecksKept ==
    ASSUME DeckInv, UNCHANGED <<rules, originalDeck, currentDeck, overread>>,
           stage' \in {"hosting", "waiting"} => stage' = stage,
           checked' => checked \/ CheckDeck(originalDeck), stage = "hosting" => checked' = checked
    PROVE  DeckInv'
<1>1. /\ CheckDeck(originalDeck)' <=> CheckDeck(originalDeck)
      /\ SideDeckValid(originalDeck, currentDeck)' <=> SideDeckValid(originalDeck, currentDeck)
      /\ Overreads(originalDeck, currentDeck)' <=> Overreads(originalDeck, currentDeck)
      /\ Piles(originalDeck)' <=> Piles(originalDeck)
      /\ Piles(currentDeck)' <=> Piles(currentDeck)
  BY SaidOfDecks
<1>2. NoDeck' = NoDeck
  BY DEF NoDeck, NoCards
<1> QED BY <1>1, <1>2 DEF DeckInv

LEMMA SidedeckInv ==
    ASSUME DeckInv, NEW main \in MainLists, NEW side \in SideLists, Sidedeck(main, side)
    PROVE  DeckInv'
<1> DEFINE sideDeck == LoadDeck(main, side, 0)
<1>1. /\ stage' = "duelling" /\ currentDeck' = sideDeck
      /\ SideDeckValid(originalDeck, sideDeck)
      /\ overread' = Overreads(originalDeck, sideDeck)
      /\ UNCHANGED <<rules, originalDeck, checked>>
  BY DEF Sidedeck
<1>2. Piles(sideDeck) /\ sideDeck.error = 0
  BY Loaded
<1> HIDE DEF sideDeck
<1>3. Piles(currentDeck') /\ currentDeck'.error = 0
  BY <1>1, <1>2
<1>4. PICK og : og = originalDeck
  OBVIOUS
<1>5. originalDeck' = og
  BY <1>1, <1>4
<1>6. CheckDeck(og)' <=> CheckDeck(og)
  BY <1>1 DEF CheckDeck, SizesFit, ScopeAllowed, Banlisted
<1>7. checked' => CheckDeck(originalDeck)'
  BY <1>1, <1>4, <1>6 DEF DeckInv, CheckDeck, SizesFit, ScopeAllowed, Banlisted
<1>8. SideDeckValid(originalDeck', currentDeck') /\ overread' = Overreads(originalDeck', currentDeck')
  BY <1>1
<1>9. Piles(originalDeck')
  BY <1>1 DEF DeckInv
<1> QED BY <1>1, <1>3, <1>7, <1>8, <1>9
         DEF DeckInv, Piles, SideDeckValid, SameSizes, SpecialsFit, SameCodes, Overreads

LEMMA DeckStep == DeckInv /\ [DecksNext]_decksVars => DeckInv'
<1> SUFFICES ASSUME DeckInv, [DecksNext]_decksVars PROVE DeckInv'
  OBVIOUS
<1>1. CASE CreateGame(rules)
  BY <1>1, CreateGameInv
<1>2. CASE \E main \in MainLists, side \in SideLists : UpdateDeck(main, side) \/ Sidedeck(main, side)
  BY <1>2, UpdateDeckInv, SidedeckInv
<1>3. CASE \E value \in BOOLEAN : Ready(value)
  <2>1. /\ UNCHANGED <<rules, originalDeck, currentDeck, overread>> /\ stage' = stage
        /\ stage = "waiting" /\ (checked' => checked \/ CheckDeck(originalDeck))
    BY <1>3 DEF Ready
  <2> QED BY <2>1, DecksKept
<1>4. CASE TryStart
  BY <1>4, DecksKept DEF TryStart
<1>5. CASE EndDuel
  BY <1>5, DecksKept DEF EndDuel
<1>6. CASE UNCHANGED decksVars
  BY <1>6, DecksKept DEF decksVars
<1> QED BY <1>1, <1>2, <1>3, <1>4, <1>5, <1>6 DEF DecksNext

\* Through any match, whatever decks are sent: what is played last was accepted for
\* the deck that was checked, under the rules of then.
THEOREM DecksInvariance == DecksSpec => []DeckInv
<1>1. DecksInit => DeckInv
  BY DeckInitInv
<1>2. DeckInv /\ [DecksNext]_decksVars => DeckInv'
  BY DeckStep
<1> QED BY <1>1, <1>2, PTL DEF DecksSpec

LEMMA KeepsCards == ASSUME DeckInv PROVE NoCardLost
<1> SUFFICES ASSUME Sided, NEW c \in Codes
             PROVE  GetCodeMap(currentDeck)[c] >= GetCodeMap(originalDeck)[c]
  BY DEF NoCardLost
<1> DEFINE og == GetCodeMap(originalDeck)
           new == GetCodeMap(currentDeck)
<1>1. /\ SameCodes(originalDeck, currentDeck) /\ ~ Overreads(originalDeck, currentDeck)
      /\ Piles(originalDeck) /\ Piles(currentDeck)
  BY DEF DeckInv, Sided, SideDeckValid
<1>2. og \in Pile /\ new \in Pile
  BY <1>1, MapSize DEF Piles
<1>3. EqualSoFar(og, new) /\ ~ Entries(new) < Entries(og)
  BY <1>1 DEF SameCodes, Overreads
<1> HIDE DEF og, new
<1>4. new[c] >= og[c]
  BY <1>2, <1>3, CompareFinds
<1> QED BY <1>4 DEF og, new

LEMMA StaysLegal == ASSUME DeckInv PROVE SidedDeckLegal
<1> SUFFICES ASSUME Sided, checked, ~ Grown
             PROVE  \/ CheckDeck(currentDeck)
                    \/ /\ SkillsIn(currentDeck) < SkillsIn(originalDeck)
                       /\ Size(currentDeck.side) > rules.side.max
                    \/ /\ SkillsIn(currentDeck) > SkillsIn(originalDeck)
                       /\ Size(currentDeck.side) < rules.side.min
  BY DEF SidedDeckLegal
<1> DEFINE og == originalDeck
           new == currentDeck
<1>1. /\ SameSizes(og, new) /\ SpecialsFit(og, new) /\ new.error = 0
      /\ Piles(og) /\ Piles(new) /\ CheckDeck(og)
      /\ rules.main \in Bounds /\ rules.extra \in Bounds /\ rules.side \in Bounds
  BY DEF DeckInv, Sided, SideDeckValid
<1>2. /\ GetCodeMap(og) \in Pile /\ GetCodeMap(new) \in Pile
      /\ Size(GetCodeMap(og)) = Size(og.main) + Size(og.extra) + Size(og.side)
      /\ Size(GetCodeMap(new)) = Size(new.main) + Size(new.extra) + Size(new.side)
  BY <1>1, MapSize DEF Piles
<1>3. GetCodeMap(og) = GetCodeMap(new)
  BY <1>2, KeepsCards, NoMoreCards DEF NoCardLost, Grown
<1>4. /\ Size(og.main) \in Nat /\ Size(og.extra) \in Nat /\ Size(og.side) \in Nat
      /\ SkillsIn(og) \in Nat /\ \A type : LegendsIn(og, type) \in Nat
  BY <1>1, CountsAreNat DEF Piles
<1>5. /\ Size(new.main) \in Nat /\ Size(new.extra) \in Nat /\ Size(new.side) \in Nat
      /\ SkillsIn(new) \in Nat /\ \A type : LegendsIn(new, type) \in Nat
  BY <1>1, CountsAreNat DEF Piles
<1>6. /\ Size(og.main) - SkillsIn(og) = Size(new.main) - SkillsIn(new)
      /\ Size(og.extra) = Size(new.extra)
  BY <1>1 DEF SameSizes
<1>7. /\ rules.main.min \in Nat /\ rules.main.max \in Nat
      /\ rules.extra.min \in Nat /\ rules.extra.max \in Nat
      /\ rules.side.min \in Nat /\ rules.side.max \in Nat
  BY <1>1 DEF Bounds
<1>8. SizesFit(og)
  BY <1>1 DEF CheckDeck
<1>9. (Size(og.main) + Size(og.side)) = (Size(new.main) + Size(new.side))
  <2>1. Size(GetCodeMap(og)) = Size(GetCodeMap(new))
    BY <1>3
  <2>2. Size(og.main) + Size(og.extra) + Size(og.side)
            = Size(new.main) + Size(new.extra) + Size(new.side)
    BY ONLY <1>2, <2>1
  <2>3. Size(og.extra) = Size(new.extra)
    BY <1>6
  <2> QED BY ONLY <1>4, <1>5, <2>2, <2>3
<1>10. \/ SizesFit(new)
       \/ SkillsIn(new) < SkillsIn(og) /\ Size(new.side) > rules.side.max
       \/ SkillsIn(new) > SkillsIn(og) /\ Size(new.side) < rules.side.min
  BY <1>4, <1>5, <1>6, <1>7, <1>8, <1>9 DEF SizesFit, InBounds
<1>11. CASE rules.dontCheckDeckContent
  BY <1>1, <1>10, <1>11 DEF CheckDeck
<1>12. CASE ~ rules.dontCheckDeckContent
  <2>1. /\ SkillsIn(og) <= 1 /\ \A type \in CardTypes : LegendsIn(og, type) <= 1
        /\ \A c \in Sent(GetCodeMap(og)) :
                /\ Type(c) \cap rules.forb = {}
                /\ TotalCount(GetCodeMap(og), c) <= 3
                /\ ScopeAllowed(c)
                /\ ~ Banlisted(c, TotalCount(GetCodeMap(og), c))
    BY <1>1, <1>12 DEF CheckDeck
  <2>2. /\ SkillsIn(new) <= Most(SkillsIn(og), 1)
        /\ \A type \in CardTypes : LegendsIn(new, type) <= Most(LegendsIn(og, type), 1)
    BY <1>1 DEF SpecialsFit
  <2>3. SkillsIn(new) <= 1 /\ \A type \in CardTypes : LegendsIn(new, type) <= 1
    BY <1>4, <1>5, <2>1, <2>2 DEF Most
  <2> QED BY <1>1, <1>3, <1>10, <2>1, <2>3 DEF CheckDeck
<1> QED BY <1>11, <1>12

\* No card is lost between two duels: what Sidedecking accepts has each card of
\* the original deck at least as often, whatever the lists that were sent.
THEOREM NoCardIsLost == DecksSpec => []NoCardLost
BY DecksInvariance, KeepsCards, PTL

\* What Sidedecking accepts for a checked deck is a deck that CheckDeck would
\* accept, but for a skill that overfills or empties the side deck.
THEOREM SidedDecksLegal == DecksSpec => []SidedDeckLegal
BY DecksInvariance, StaysLegal, PTL
=============================================================================
