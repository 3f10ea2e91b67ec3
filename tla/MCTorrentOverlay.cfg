CONSTANTS
    Torrents = {t1, t2}
    Null = Null
    Tabs = {tab1, tab2}
    FirstTab = tab1
    GraphTab = tab2
    MaxRequests = 2
    MaxTimers = 2
    MaxDraws = 2
    MaxEvents = 1
SPECIFICATION Spec
INVARIANTS
    TypeOK
    OnlyOpenTabShows
    ShowsLastFinishedGraph
PROPERTY DetailsCatchUp
