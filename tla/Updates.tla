------------------------------- MODULE Updates -------------------------------
(***************************************************************************)
(* How the server gets its card databases, scripts, banlists and its core, *)
(* and how it replaces them while rooms play.  They are files of git       *)
(* repositories.  Whoever changes one calls its webhook, which makes the   *)
(* server fetch it, reset its files, and tell the providers that observe   *)
(* it what has changed, one after the other, on the one thread of          *)
(* auxIoCtx; rooms use the providers from other threads all the while.     *)
(*                                                                         *)
(* A repository has at most one file for each provider, and a file is      *)
(* reduced to a number for its content, 0 when there is none.  Two scripts *)
(* in directories of one repository are like those of two repositories.    *)
(* Whether a core can be loaded depends on its file only.  A fetch or a    *)
(* reset that fails changes nothing, the next one starts over.  Calls of   *)
(* one webhook that nobody has accepted yet count as one.                  *)
(***************************************************************************)
EXTENDS Naturals, Sequences, SequencesExt

CONSTANTS
    Repos,
    Rooms,
    Observed,       \* the repositories each provider observes, in order
    Contents,       \* what a file of each provider may hold
    PathOrder,      \* the repositories in the order of their paths
    Rows,           \* the cards in a database
    Unattachable,   \* databases that cannot be opened
    ScriptName,     \* the name of each repository's script, without its directory
    Hash,           \* the hash of a banlist
    Unloadable,     \* cores that cannot be loaded
    Failing,        \* cores that load, and fail when asked for their version
    MaxPushes       \* bound: changes of the remote repositories

Providers == {"data", "script", "banlist", "core"}

ASSUME UpdatesAssumption ==
    /\ Observed \in [Providers -> Seq(Repos)]
    /\ Contents \in [Providers -> SUBSET Nat] /\ \A p \in Providers : 1 \in Contents[p]
    /\ DOMAIN ScriptName = Repos
    /\ PathOrder \in Seq(Repos) /\ Repos \subseteq Range(PathOrder)
    /\ MaxPushes \in Nat

VARIABLES
    remote,         \* the files of the remote repositories
    pushes,
    process,        \* "down", "listening", "starting" or "up"
    announced,      \* calls of the webhooks that are not accepted yet
    hook,           \* the stage of each webhook's connection
    missed,         \* the last call of the webhook has come to nothing
    fetchHead,      \* what was fetched last
    head,           \* the files of the server's repositories
    calls,          \* calls of OnAdd or OnDiff that are still to be made
    paths,          \* DataProvider: repositories with a database
    db,             \* ... and the database built from theirs
    scripts,        \* ScriptProvider: for each name, whose script it is, and which
    banlists,       \* BanlistProvider: for each hash
    coreLoc,        \* CoreProvider: what is in the file it names
    core,           \* ... the core it has loaded,
    shouldTest,     \* ... whether it has not yet tested one,
    loadPerCall,    \* ... and whether each room loads its own
    escaped,        \* an exception has left OnGitUpdate
    room            \* each room's stage, and what it took from the providers

outside == <<remote, pushes>>
hooks == <<announced, hook, missed, fetchHead>>
data == <<paths, db>>
coreProvider == <<coreLoc, core, shouldTest, escaped>>
providers == <<data, scripts, banlists, coreProvider>>
vars == <<outside, process, hooks, head, calls, providers, loadPerCall, room>>

None == 0
NoRoom == [at |-> "none", db |-> <<>>, scripts |-> {}, core |-> None]

\* An empty database in memory: no code has a row.
NewDatabase == <<>>

FilesOf(tree) == {p \in Providers : tree[p] # None}

-----------------------------------------------------------------------------
(***************************************************************************)
(* The remote repositories, whose changes are announced by a call of the   *)
(* webhook.  Nobody hears it while the server is down.                     *)
(***************************************************************************)
\* Mutation: the ports are opened when everything is loaded.
ListensWhenUp == process = "up"

\* Acceptors are opened by the first constructor.
Listens == process # "down"

Push(r, p, content) ==
    /\ pushes < MaxPushes /\ pushes' = pushes + 1
    /\ r \in Range(Observed[p]) /\ content # remote[r][p]
    /\ remote' = [remote EXCEPT ![r][p] = content]
    /\ announced' = [announced EXCEPT ![r] = Listens]
    /\ UNCHANGED <<process, hook, missed, fetchHead, head, calls, providers, loadPerCall, room>>

-----------------------------------------------------------------------------
(***************************************************************************)
(* The server's start.                                                     *)
(***************************************************************************)
Listen ==
    /\ process = "down" /\ process' = "listening"
    /\ UNCHANGED <<outside, hooks, head, calls, providers, loadPerCall, room>>

Call(p, r, removed, added) == [to |-> p, repo |-> r, removed |-> removed, added |-> added]

\* AddObserver is called for each provider and each repository it observes.
AddObservers(p) ==
    [i \in DOMAIN Observed[p] |->
        Call(p, Observed[p][i], {}, FilesOf(remote[Observed[p][i]]))]

\* The files of all repositories after a clone, which is what a fetch and a reset
\* make of one that is there already.
Clone == remote

\* Each repository is cloned, or fetched and reset; then the providers are
\* registered.  Nothing else of the process runs yet.
Start ==
    /\ process = "listening" /\ process' = "starting"
    /\ head' = Clone /\ fetchHead' = Clone
    /\ calls' = AddObservers("data") \o AddObservers("script")
             \o AddObservers("banlist") \o AddObservers("core")
    /\ paths' = {} /\ db' = NewDatabase /\ scripts' = <<>> /\ banlists' = <<>>
    /\ coreLoc' = None /\ core' = None /\ shouldTest' = TRUE /\ escaped' = FALSE
    /\ UNCHANGED <<outside, announced, hook, missed, loadPerCall, room>>

Run ==
    /\ process = "starting" /\ calls = <<>>
    /\ process' = "up"
    /\ UNCHANGED <<outside, hooks, head, calls, providers, loadPerCall, room>>

\* The process ends, with its connections.
Ends ==
    /\ process' = "down" /\ calls' = <<>>
    /\ announced' = [r \in Repos |-> FALSE]
    /\ hook' = [r \in Repos |-> "none"]
    /\ missed' = [r \in Repos |-> FALSE]
    /\ UNCHANGED fetchHead

-----------------------------------------------------------------------------
(***************************************************************************)
(* Webhook and GitRepo, on the thread of auxIoCtx.                         *)
(***************************************************************************)
\* The thread is in no handler.
Idle ==
    /\ process = "up" /\ calls = <<>>
    /\ \A r \in Repos : hook[r] \in {"none", "open"}

\* The connection of r's webhook comes to the given stage.
HookStep(r, stage) ==
    /\ hook' = [hook EXCEPT ![r] = stage]
    /\ UNCHANGED <<outside, process, providers, loadPerCall, room>>

DoAccept(r) ==
    /\ Idle /\ announced[r] /\ hook[r] = "none"
    /\ announced' = [announced EXCEPT ![r] = FALSE]
    /\ HookStep(r, "open") /\ UNCHANGED <<missed, fetchHead, head, calls>>

\* Callback looks for the token in what came with the first read.
NoToken(r) == HookStep(r, "answer") /\ missed' = [missed EXCEPT ![r] = TRUE]

DoReadHeader(r) ==
    /\ Idle /\ hook[r] = "open"
    /\ \/ HookStep(r, "fetch") /\ UNCHANGED missed
       \/ NoToken(r)
       \/ HookStep(r, "none") /\ missed' = [missed EXCEPT ![r] = TRUE]
    /\ UNCHANGED <<announced, fetchHead, head, calls>>

Fetch(r) ==
    /\ hook[r] = "fetch"
    /\ fetchHead' = [fetchHead EXCEPT ![r] = remote[r]]
    /\ HookStep(r, "reset") /\ UNCHANGED <<announced, missed, head, calls>>

Registered(p, r) == IF r \in Range(Observed[p]) THEN <<p>> ELSE <<>>

\* Mutation: the core's provider, which throws, is the first to be called.
CoreFirst(r) == Registered("core", r) \o Registered("data", r)
             \o Registered("script", r) \o Registered("banlist", r)

Observers(r) == Registered("data", r) \o Registered("script", r)
             \o Registered("banlist", r) \o Registered("core", r)

\* A file that has changed is both removed and added.
DiffOf(before, after) ==
    LET changed == {p \in Providers : before[p] # after[p]}
    IN [removed |-> changed \cap FilesOf(before),
        added |-> changed \cap FilesOf(after)]

GetFilesDiff(r) == DiffOf(head[r], fetchHead[r])

ResetToFetchHead(r) == head' = [head EXCEPT ![r] = fetchHead[r]]

\* Callback, once something was fetched.
Callback(r) ==
    LET diff == GetFilesDiff(r)
    IN /\ hook[r] = "reset"
       /\ ResetToFetchHead(r)
       /\ missed' = [missed EXCEPT ![r] = FALSE]
       /\ calls' = IF diff.removed = {} /\ diff.added = {} THEN <<>>
                   ELSE [i \in DOMAIN Observers(r) |->
                            Call(Observers(r)[i], r, diff.removed, diff.added)]
       /\ HookStep(r, "answer") /\ UNCHANGED <<announced, fetchHead>>

\* An exception of libgit2 is logged by Callback.
GitFails(r) ==
    /\ hook[r] \in {"fetch", "reset"}
    /\ missed' = [missed EXCEPT ![r] = TRUE]
    /\ HookStep(r, "answer") /\ UNCHANGED <<announced, fetchHead, head, calls>>

\* Callback has returned: every observer has been called.
DoWrite(r) ==
    /\ calls = <<>> /\ hook[r] = "answer"
    /\ HookStep(r, "none") /\ UNCHANGED <<announced, missed, fetchHead, head, calls>>

-----------------------------------------------------------------------------
(***************************************************************************)
(* What the providers do with OnAdd, a call that removes nothing, and with *)
(* OnDiff.                                                                 *)
(***************************************************************************)
Made(call) == calls # <<>> /\ calls[1] = call /\ calls' = Tail(calls) /\ UNCHANGED hooks

\* AddObserver tells nobody of a repository without files.
Empty(call) == call.removed = {} /\ call.added = {}

NothingToAdd(call) ==
    /\ Empty(call) /\ Made(call)
    /\ UNCHANGED <<outside, process, head, providers, loadPerCall, room>>

\* Mutation: what is removed is taken out last.
RemovedLast(call) ==
    (IF "data" \in call.added THEN paths \cup {call.repo} ELSE paths)
        \ (IF "data" \in call.removed THEN {call.repo} ELSE {})

PathsAfter(call) ==
    (IF "data" \in call.removed THEN paths \ {call.repo} ELSE paths)
        \cup (IF "data" \in call.added THEN {call.repo} ELSE {})

\* CardDatabase: a file's rows take the places of those with the same code.
Merge(cards, r) ==
    LET file == head[r]["data"] IN
    IF file \in Unattachable THEN cards
    ELSE [c \in DOMAIN cards \cup Rows[file] |->
            IF c \in Rows[file] THEN <<r, file>> ELSE cards[c]]

\* All databases are merged into a new one in the order of their paths, whatever
\* has changed.
MergeAll(files) ==
    LET merged[i \in 0..Len(PathOrder)] ==
            IF i = 0 THEN NewDatabase
            ELSE IF PathOrder[i] \in files THEN Merge(merged[i - 1], PathOrder[i])
            ELSE merged[i - 1]
    IN  merged[Len(PathOrder)]

ReloadDatabases(call) ==
    /\ call.to = "data" /\ Made(call)
    /\ paths' = PathsAfter(call)
    /\ db' = MergeAll(PathsAfter(call))
    /\ UNCHANGED <<outside, process, head, scripts, banlists, coreProvider, loadPerCall, room>>

ScriptCall(call) ==
    /\ call.to = "script" /\ Made(call)
    /\ UNCHANGED <<outside, process, head, data, banlists, coreProvider, loadPerCall, room>>

\* Mutation: scripts that were removed are forgotten.
WithoutRemoved(call) ==
    LET names(files) == IF "script" \in files THEN {ScriptName[call.repo]} ELSE {}
    IN  /\ ScriptCall(call)
        /\ scripts' = [n \in (DOMAIN scripts \ names(call.removed)) \cup names(call.added) |->
                           IF n \in names(call.added)
                           THEN <<call.repo, head[call.repo]["script"]>> ELSE scripts[n]]

\* Mutation: emplace, which keeps what the name has.
KeepsFirst(call) ==
    /\ ScriptCall(call)
    /\ scripts' = IF "script" \in call.added
                  THEN scripts @@ (ScriptName[call.repo] :>
                                       <<call.repo, head[call.repo]["script"]>>)
                  ELSE scripts

\* What is removed stays loaded; what is added takes the place of any other
\* repository's script of that name.
LoadScripts(call) ==
    /\ ScriptCall(call)
    /\ scripts' = IF "script" \in call.added
                  THEN [n \in DOMAIN scripts \cup {ScriptName[call.repo]} |->
                            IF n = ScriptName[call.repo]
                            THEN <<call.repo, head[call.repo]["script"]>> ELSE scripts[n]]
                  ELSE scripts

EraseAndMerge(tmp) ==
    [h \in DOMAIN banlists \cup DOMAIN tmp |-> IF h \in DOMAIN tmp THEN tmp[h] ELSE banlists[h]]

LoadBanlists(call) ==
    LET content == head[call.repo]["banlist"]
        tmp == IF "banlist" \in call.added THEN [h \in {Hash[content]} |-> content] ELSE <<>>
    IN /\ call.to = "banlist" /\ Made(call)
       /\ banlists' = EraseAndMerge(tmp)
       /\ UNCHANGED <<outside, process, head, data, scripts, coreProvider, loadPerCall, room>>

-----------------------------------------------------------------------------
(***************************************************************************)
(* CoreProvider::OnGitUpdate.                                              *)
(***************************************************************************)
\* An exception ends the constructor of a server that starts, and is logged by
\* the repository's Callback afterwards, which makes no further calls.
Throw ==
    /\ escaped' = TRUE
    /\ IF process = "starting" THEN Ends ELSE calls' = <<>> /\ UNCHANGED <<process, hooks>>

NoCoreFound(call) ==
    /\ call.to = "core" /\ "core" \notin call.added /\ calls # <<>> /\ calls[1] = call
    /\ IF shouldTest THEN Throw ELSE calls' = Tail(calls) /\ UNCHANGED <<process, hooks, escaped>>
    /\ UNCHANGED <<outside, head, data, scripts, banlists, coreLoc, core, shouldTest>>
    /\ UNCHANGED <<loadPerCall, room>>

CoreCall(call) ==
    /\ call.to = "core" /\ "core" \in call.added /\ calls # <<>> /\ calls[1] = call
    /\ UNCHANGED <<outside, head, data, scripts, banlists, loadPerCall, room>>

CopyFails(call) ==
    /\ CoreCall(call) /\ Throw
    /\ coreLoc' = None /\ UNCHANGED <<core, shouldTest>>

\* Its constructor throws something else than the Core::Exception that is caught.
LoadFails(call) ==
    /\ CoreCall(call) /\ head[call.repo]["core"] \in Unloadable /\ Throw
    /\ coreLoc' = head[call.repo]["core"] /\ UNCHANGED <<core, shouldTest>>

\* Mutation: the core that was tested stays.
FailingStays(call) ==
    /\ CoreCall(call) /\ head[call.repo]["core"] \in Failing
    /\ calls' = Tail(calls) /\ coreLoc' = head[call.repo]["core"]
    /\ UNCHANGED <<core, shouldTest, process, hooks, escaped>>

TestFails(call) ==
    /\ CoreCall(call) /\ head[call.repo]["core"] \in Failing
    /\ IF shouldTest
       THEN Throw /\ coreLoc' = head[call.repo]["core"]
       ELSE calls' = Tail(calls) /\ UNCHANGED <<process, hooks, escaped, coreLoc>>
    /\ UNCHANGED <<core, shouldTest>>

TestSucceeds(call) ==
    /\ CoreCall(call) /\ head[call.repo]["core"] \notin Unloadable \cup Failing
    /\ coreLoc' = head[call.repo]["core"] /\ shouldTest' = FALSE
    /\ core' = IF loadPerCall THEN core ELSE head[call.repo]["core"]
    /\ calls' = Tail(calls) /\ UNCHANGED <<process, hooks, escaped>>

OnGitUpdate(call) ==
    \/ NoCoreFound(call) \/ CopyFails(call) \/ LoadFails(call)
    \/ TestFails(call) \/ TestSucceeds(call)

-----------------------------------------------------------------------------
(***************************************************************************)
(* Rooms, on other threads.                                                *)
(***************************************************************************)
\* A room keeps the database it is made with.
GetDatabase(x) ==
    /\ process = "up" /\ room[x].at = "none"
    /\ room' = [room EXCEPT ![x] = [NoRoom EXCEPT !.at = "hosts", !.db = db,
                                                  !.scripts = DOMAIN scripts]]
    /\ UNCHANGED <<outside, process, hooks, head, calls, providers, loadPerCall>>

\* What the next room that asks is given: its own copy of the file, or the core.
NextCore == IF loadPerCall THEN coreLoc ELSE core

\* A core that cannot be loaded ends the process, as the room's handler does not
\* catch what GetCore throws, and so does one that was never loaded.
GetCore(x) ==
    /\ process = "up" /\ room[x].at = "hosts"
    /\ IF NextCore \in Unloadable \cup {None}
       THEN /\ Ends
            /\ room' = [y \in Rooms |-> NoRoom]
       ELSE /\ room' = [room EXCEPT ![x].at = "duels", ![x].core = NextCore]
            /\ UNCHANGED <<process, hooks, calls>>
    /\ UNCHANGED <<outside, head, providers, loadPerCall>>

CloseRoom(x) ==
    /\ room[x].at # "none" /\ room' = [room EXCEPT ![x] = NoRoom]
    /\ UNCHANGED <<outside, process, hooks, head, calls, providers, loadPerCall>>

-----------------------------------------------------------------------------
Init ==
    /\ remote \in [Repos -> {[p \in Providers |-> n] : n \in {0, 1}}]
    /\ pushes = 0 /\ process = "down"
    /\ head = remote /\ fetchHead = remote /\ calls = <<>>
    /\ announced = [r \in Repos |-> FALSE] /\ missed = announced
    /\ hook = [r \in Repos |-> "none"]
    /\ paths = {} /\ db = NewDatabase /\ scripts = <<>> /\ banlists = <<>>
    /\ coreLoc = None /\ core = None /\ shouldTest = TRUE /\ escaped = FALSE
    /\ loadPerCall \in BOOLEAN
    /\ room = [x \in Rooms |-> NoRoom]

Notify == \E call \in Range(calls) :
    \/ NothingToAdd(call)
    \/ /\ ~ Empty(call)
       /\ \/ ReloadDatabases(call) \/ LoadScripts(call)
          \/ LoadBanlists(call) \/ OnGitUpdate(call)

Play(x) == GetDatabase(x) \/ GetCore(x) \/ CloseRoom(x)

Hook(r) ==
    \/ DoAccept(r) \/ DoReadHeader(r) \/ Fetch(r) \/ Callback(r)
    \/ GitFails(r) \/ DoWrite(r)

Next ==
    \/ Listen \/ Start \/ Run \/ Notify
    \/ \E r \in Repos : Hook(r)
    \/ \E r \in Repos, p \in Providers :
         \E content \in Contents[p] \cup {None} : Push(r, p, content)
    \/ \E x \in Rooms : Play(x)

Spec == Init /\ [][Next]_vars

-----------------------------------------------------------------------------
Settled == process = "up" /\ calls = <<>>

\* When nothing is left to be told, the providers hold what a restart would load
\* from the same files, whatever was added, changed and removed before, and
\* whatever failed meanwhile: the database is the one that is built from all
\* files, every script and every banlist is loaded as it is now, and at most
\* something that was removed is there besides.  Names tell scripts apart, as
\* hashes do banlists: of several scripts with one name, one is loaded, which may
\* be another than after a restart, as the last that was told of takes the
\* place of the others, and keeps it even when it is removed.
LastWith(c, files) ==
    PathOrder[CHOOSE i \in DOMAIN PathOrder :
        /\ PathOrder[i] \in files /\ c \in Rows[head[PathOrder[i]]["data"]]
        /\ \A j \in DOMAIN PathOrder :
            PathOrder[j] \in files /\ c \in Rows[head[PathOrder[j]]["data"]] => j <= i]
DataCurrent ==
    LET files == {r \in Range(Observed["data"]) : head[r]["data"] \notin {None} \cup Unattachable}
    IN  /\ DOMAIN db = UNION {Rows[head[r]["data"]] : r \in files}
        /\ \A c \in DOMAIN db :
            LET last == LastWith(c, files) IN db[c] = <<last, head[last]["data"]>>
ScriptLoaded(r) ==
    LET name == ScriptName[r] IN
    /\ name \in DOMAIN scripts
    /\ \E q \in Range(Observed["script"]) :
         /\ ScriptName[q] = name /\ scripts[name][1] = q
         /\ head[q]["script"] \in {None, scripts[name][2]}
ScriptsCurrent ==
    \A r \in Range(Observed["script"]) : head[r]["script"] # None => ScriptLoaded(r)
BanlistsCurrent == \A r \in Range(Observed["banlist"]) :
    LET list == head[r]["banlist"]
    IN list # None => Hash[list] \in DOMAIN banlists /\ banlists[Hash[list]] = list
UpdatesTaken == Settled => DataCurrent /\ ScriptsCurrent /\ BanlistsCurrent

\* A change that was announced is not lost: the files are those of the remote once
\* no call of the webhook is left, unless the last one has come to nothing, whenever
\* between two steps of the start or of another update the change was made.
AnnouncedTaken == \A r \in Repos :
    process = "up" /\ hook[r] = "none" /\ ~ announced[r] /\ ~ missed[r] => head[r] = remote[r]

\* Rooms are given cores that were tested, and the one the next room is given
\* can be loaded, so that its asking does not end the server: a core that fails
\* its test does not replace one that did not.  An exception that leaves
\* OnGitUpdate changes nothing of this where rooms share the core; where each
\* loads its own, the file is then one that was not tested or not even copied.
CoreTested == process = "up" /\ ~ shouldTest /\ (escaped => ~ loadPerCall) =>
    \A c \in {NextCore} \cup {room[x].core : x \in {y \in Rooms : room[y].at = "duels"}} :
        c \notin Unloadable \cup Failing \cup {None}

\* A room keeps the database it was made with, and so the cards in it keep the
\* scripts there were for them, even when an update removes both.
ScriptsOutlive == \A x \in Rooms : room[x].scripts \subseteq DOMAIN scripts

=============================================================================
