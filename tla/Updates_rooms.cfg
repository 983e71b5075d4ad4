SPECIFICATION Spec
CONSTANTS
    Repos = {"content", "bin"}
    Rooms = {"x"}
    Observed <- TwoRepos
    Contents <- AllContents
    PathOrder <- ByPath
    Rows <- SameCard
    Unattachable = {2}
    ScriptName <- OneName
    Hash <- OneHash
    Unloadable = {4}
    Failing = {3}
    MaxPushes = 3
INVARIANTS
    UpdatesTaken
    AnnouncedTaken
    CoreTested
    ScriptsOutlive
    BanlistsParsed
CHECK_DEADLOCK FALSE
