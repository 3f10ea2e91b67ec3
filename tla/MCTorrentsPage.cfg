CONSTANTS
    t1 = t1
    t2 = t2
    t3 = t3
    Torrents = {t1, t2, t3}
    NameOf <- MCNameOf
    Beginnings <- MCBeginnings
    States = {"downloading", "seeding"}
    Slots = {s1, s2}
    ItemsPerPage = 2
    Null = Null
    NoAnswer = NoAnswer
    NoModify = NoModify
    MaxEvents = 2
SPECIFICATION Spec
INVARIANTS
    ScreenShowsOneList
    SelectedIsMarked
PROPERTY ListCatchesUp
