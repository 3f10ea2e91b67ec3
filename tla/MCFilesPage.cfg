CONSTANTS
    Dirs <- MCDirs
    Files <- MCFiles
    RankOf <- MCRankOf
    Beginnings <- MCBeginnings
    Slots = {s1, s2}
    ItemsPerPage = 2
    Null = Null
    WithPlus = {"g"}
    Mangled = "%2B"
    NoModify = NoModify
    MaxClicks = 2
    MaxEvents = 1
SPECIFICATION Spec
INVARIANT PageActsOnDirShown
PROPERTY FilesCatchUpOrStuck
