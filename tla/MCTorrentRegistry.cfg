CONSTANTS
    t1 = t1
    t2 = t2
    t3 = t3
    n1 = n1
    n2 = n2
    Handlers = {h1, h2}
    Torrents = {t1, t2, t3}
    Magnets = {t3}
    Files = {f1, f2}
    Names = {n1, n2}
    NameOf <- MCNameOf
    LinkFile = LinkFile
    NoTorrent = NoTorrent
    NoFile = NoFile
    NoInfo = NoInfo
    MaxAdds = 2
SPECIFICATION Spec
INVARIANTS
    Managed
    DeletedIsGone
SYMMETRY Symmetry
CONSTRAINT SomeAreNotMixed
ACTION_CONSTRAINT MixedAreWatched
