--------------------------- MODULE TorrentRegistry ---------------------------
(***************************************************************************)
(* The torrents of RasterbarLibtorrentRequestHandler                       *)
(* (daemon/requesthandler.rb), kept in four places that no lock keeps      *)
(* together: the .torrent files in torrentFileDir, the libtorrent session, *)
(* the table @torrentInfo under the torrents' names, and the background    *)
(* threads of each.  Every connection's thread fetches, adds and deletes   *)
(* torrents; magnet links are added at once, and a thread waits for each   *)
(* one's metadata; the daemon may stop at any point and loads the          *)
(* directory again.                                                        *)
(***************************************************************************)
EXTENDS Naturals

CONSTANTS
    Handlers,         \* handler threads, one per connection
    Torrents,         \* torrents by info hash
    Magnets,          \* those of which there are magnet links
    Files,            \* names of .torrent files
    Names, NameOf,    \* the name each torrent has in its info; it need not be unique
    LinkFile,         \* the file's name given to a magnet link's torrent, which has no file
    NoTorrent, NoFile, NoInfo,
    MaxAdds           \* bound: torrents added between two starts of the daemon

ASSUME RegistryAssumption ==
    /\ NameOf \in [Torrents -> Names]
    /\ Magnets \subseteq Torrents
    /\ NoTorrent \notin Torrents /\ NoFile \notin Files /\ LinkFile \notin Files
    /\ MaxAdds \in Nat

\* A RubyTorrentInfo, of the id-th torrent added: its file's name, and the torrent its
\* threads watch.
Info == [id : 0..MaxAdds, file : Files \cup {LinkFile}, torrent : Torrents]

ASSUME NoInfoAssumption == NoInfo \notin Info

VARIABLES
    disk,     \* the torrent in each file of torrentFileDir
    session,  \* the torrents of the libtorrent session
    table,    \* @torrentInfo
    watcher,  \* id of the info one of whose threads watches a torrent; NoWatcher if none does
    link,     \* what the thread that waits for a link's metadata is doing
    adds,     \* torrents added since the daemon's start
    handler,  \* what each handler is doing: its next step, the torrent it adds or deletes,
              \* the file it adds, and the info it looked up for deleting
    deleted,  \* history: deleted, and not fetched since
    mixed     \* history: other requests for it, its name or its file got in its way

diskVars == <<disk, deleted>>
vars == <<diskVars, session, table, watcher, link, adds, handler, mixed>>

NoWatcher == MaxAdds + 1

OnDisk(t) == \E f \in Files : disk[f] = t
Namesakes(t) == {u \in Torrents : u # t /\ NameOf[u] = NameOf[t]}

Occupied(t, steps) ==
    \E h \in Handlers : handler[h].torrent = t /\ handler[h].step \in steps

Adding(t) == Occupied(t, {"add", "adjust"}) \/ link[t] = "adjust"
Deleting(t) == Occupied(t, {"remove", "rm", "forget"})

\* Known to the daemon in one way or another.
Around(t) == OnDisk(t) \/ t \in session \/ Adding(t) \/ Deleting(t)

\* The torrents whose file is, or was when they were added, f.
UsersOf(f) ==
    {t \in Torrents :
        \/ disk[f] = t
        \/ \E n \in Names : table[n] # NoInfo /\ table[n].file = f /\ table[n].torrent = t
        \/ \E h \in Handlers : handler[h].file = f /\ handler[h].torrent = t}

\* Fetched by a link.
Linked(t) ==
    \/ link[t] # "none"
    \/ \E n \in Names : table[n] # NoInfo /\ table[n].file = LinkFile /\ table[n].torrent = t

\* Torrents whose namesakes are about when t is fetched, and t.
Clash(t) == IF \E u \in Namesakes(t) : Around(u) THEN Namesakes(t) \cup {t} ELSE {}

-----------------------------------------------------------------------------
\* What the constructor makes of the directory d, in any order: a torrent is added once,
\* for one of its files, and of namesakes the last is in the table.
Loads(d) ==
    LET FilesOf(n) == {f \in Files : d[f] # NoTorrent /\ NameOf[d[f]] = n}
        InfoOf(f)  == [id |-> 0, file |-> f, torrent |-> d[f]]
    IN  {tb \in [Names -> {NoInfo} \cup {InfoOf(f) : f \in {g \in Files : d[g] # NoTorrent}}] :
            \A n \in Names : IF FilesOf(n) = {} THEN tb[n] = NoInfo
                             ELSE tb[n] \in {InfoOf(f) : f \in FilesOf(n)}}

Loaded(d) == {d[f] : f \in Files} \ {NoTorrent}

Idle == [step |-> "idle", torrent |-> NoTorrent, file |-> NoFile, info |-> NoInfo]

Init ==
    /\ disk = [f \in Files |-> NoTorrent]
    /\ session = {}
    /\ table = [n \in Names |-> NoInfo]
    /\ watcher = [t \in Torrents |-> NoWatcher]
    /\ link = [t \in Torrents |-> "none"]
    /\ adds = 0
    /\ handler = [h \in Handlers |-> Idle]
    /\ deleted = {}
    /\ mixed = {}

\* The process ends, anywhere, and is started again.
Restart ==
    /\ session' = Loaded(disk)
    /\ table' \in Loads(disk)
    /\ watcher' = [t \in Torrents |-> IF t \in session' THEN 0 ELSE NoWatcher]
    /\ link' = [t \in Torrents |-> "none"]
    /\ adds' = 0
    /\ handler' = [h \in Handlers |-> Idle]
    /\ UNCHANGED <<diskVars, mixed>>

\* handleGetTorrentRequest: the torrent is copied or downloaded into a file, over what the
\* file held before.
GetTorrent(t, f) ==
    /\ disk' = [disk EXCEPT ![f] = t]
    /\ deleted' = deleted \ {t}
    /\ mixed' = mixed
          \cup (IF UsersOf(f) \subseteq {t} THEN {} ELSE UsersOf(f) \cup {t})
          \cup (IF Deleting(t) \/ Linked(t) \/ \E g \in Files \ {f} : disk[g] = t
                THEN {t} ELSE {})
          \cup Clash(t)
    /\ UNCHANGED <<session, table, watcher, link, adds, handler>>

\* The last of a torrent's threads ends: SeedingStopThread when it has paused the torrent,
\* GraphDataThread, and each of them, when anything it calls raises.  Nothing starts it again
\* before the daemon's next start, and nothing else is told.
ThreadsEnd(t) ==
    /\ watcher[t] # NoWatcher
    /\ watcher' = [watcher EXCEPT ![t] = NoWatcher]
    /\ UNCHANGED <<diskVars, session, table, link, adds, handler, mixed>>

-----------------------------------------------------------------------------
(* handleGetMagnetRequest *)

\* The link is added to the session, which refuses a torrent it has, and a thread waits for
\* its metadata; one thread for each torrent.
GetMagnet(t) ==
    /\ t \notin session
    /\ link[t] = "none"
    /\ session' = session \cup {t}
    /\ link' = [link EXCEPT ![t] = "wait"]
    /\ deleted' = deleted \ {t}
    /\ mixed' = mixed \cup (IF OnDisk(t) \/ Adding(t) \/ Deleting(t) THEN {t} ELSE {})
                     \cup Clash(t)
    /\ UNCHANGED <<disk, table, watcher, adds, handler>>

\* adjustTorrentHandle: threads are started, and end at once if the torrent is gone; the
\* info is put in the table.
Adjust(t, file) ==
    /\ adds < MaxAdds
    /\ adds' = adds + 1
    /\ table' = [table EXCEPT ![NameOf[t]] = [id |-> adds', file |-> file, torrent |-> t]]
    /\ watcher' = IF t \in session THEN [watcher EXCEPT ![t] = adds'] ELSE watcher

\* The thread sees that there is metadata.
LinkReady(t) ==
    /\ link[t] = "wait"
    /\ link' = [link EXCEPT ![t] = "adjust"]
    /\ mixed' = mixed \cup {u \in {t} : Deleting(u)}
    /\ UNCHANGED <<diskVars, session, table, watcher, adds, handler>>

\* It asks the handle for its info, which raises if the torrent is gone already.
LinkAdjusts(t) ==
    /\ link[t] = "adjust"
    /\ \/ Adjust(t, LinkFile)
       \/ t \notin session /\ UNCHANGED <<table, watcher, adds>>
    /\ link' = [link EXCEPT ![t] = "none"]
    /\ UNCHANGED <<diskVars, session, handler, mixed>>

\* Ten minutes without metadata: the torrent is removed, with whatever metadata came since
\* the last look.
LinkGivesUp(t) ==
    /\ link[t] = "wait"
    /\ session' = session \ {t}
    /\ watcher' = [watcher EXCEPT ![t] = NoWatcher]
    /\ link' = [link EXCEPT ![t] = "none"]
    /\ UNCHANGED <<diskVars, table, adds, handler, mixed>>

-----------------------------------------------------------------------------
(* handleAddTorrentsRequest and loadAndAddTorrent *)

At(h, step) == handler[h].step = step
Subject(h) == handler[h].torrent
NameOfSubject(h) == NameOf[handler[h].torrent]

Goto(h, step) == handler' = [handler EXCEPT ![h].step = step]

\* The request is answered.
Done(h) == handler' = [handler EXCEPT ![h] = Idle]

\* The file is loaded, and the session asked for the torrent.  A torrent that is there
\* already is refused.
AddFinds(h, f) ==
    /\ At(h, "idle")
    /\ disk[f] # NoTorrent
    /\ disk[f] \notin session
    /\ handler' = [handler EXCEPT ![h] =
                      [step |-> "add", torrent |-> disk[f], file |-> f, info |-> NoInfo]]
    /\ mixed' = mixed \cup {t \in {disk[f]} : Deleting(t)}
    /\ UNCHANGED <<diskVars, session, table, watcher, link, adds>>

\* add_torrent; of a torrent that was added meanwhile, it raises.
AddAdds(h) ==
    /\ At(h, "add")
    /\ IF Subject(h) \in session THEN Done(h) ELSE Goto(h, "adjust")
    /\ session' = session \cup {Subject(h)}
    /\ UNCHANGED <<diskVars, table, watcher, link, adds, mixed>>

\* adjustTorrentHandle
AddAdjusts(h) ==
    /\ At(h, "adjust")
    /\ Adjust(Subject(h), handler[h].file)
    /\ Done(h)
    /\ UNCHANGED <<diskVars, session, link, mixed>>

-----------------------------------------------------------------------------
(* handleDelTorrentsRequest *)

\* findTorrentHandle, of a name: any of the torrents with that name.
DelFinds(h, t) ==
    /\ At(h, "idle")
    /\ t \in session
    /\ handler' = [handler EXCEPT ![h] =
                      [step |-> "remove", torrent |-> t, file |-> NoFile, info |-> NoInfo]]
    /\ mixed' = mixed \cup {u \in {t} : Adding(u)}
    /\ UNCHANGED <<diskVars, session, table, watcher, link, adds>>

\* A torrent that was removed: its watchers end, and the thread that waits for its metadata
\* at its next look.
Leaves(t) ==
    /\ session' = session \ {t}
    /\ watcher' = [watcher EXCEPT ![t] = NoWatcher]
    /\ link' = [link EXCEPT ![t] = IF @ = "wait" THEN "none" ELSE @]

\* Mutant: the torrent is removed only if its data is to be deleted as well.
DelRemovesWithData(h) ==
    /\ At(h, "remove")
    /\ IF Subject(h) \in session THEN Goto(h, "rm") ELSE Done(h)
    /\ Leaves(Subject(h)) \/ UNCHANGED <<session, watcher, link>>
    /\ UNCHANGED <<diskVars, table, adds, mixed>>

\* remove_torrent: the threads find the handle invalid, and end.  A handle that is
\* invalid already has no name, and nothing more is done; nor is there more to do for a link
\* without metadata, under whose temporary name there is no info.
DelRemoves(h) ==
    /\ At(h, "remove")
    /\ \/ Subject(h) \in session /\ Goto(h, "rm") /\ UNCHANGED deleted
       \/ Subject(h) \notin session /\ Done(h) /\ UNCHANGED deleted
       \/ /\ link[Subject(h)] = "wait"
          /\ Done(h)
          /\ deleted' = deleted \cup {Subject(h)}
    /\ Leaves(Subject(h))
    /\ UNCHANGED <<disk, table, adds, mixed>>

\* The info of that name is looked up, and its file removed, which fails for a link's;
\* without an info nothing more is done.
DelRms(h) ==
    /\ At(h, "rm")
    /\ deleted' = deleted \cup {Subject(h)}
    /\ LET info == table[NameOfSubject(h)]
       IN  IF info = NoInfo
           THEN Done(h) /\ UNCHANGED disk
           ELSE /\ handler' = [handler EXCEPT ![h].step = "forget", ![h].info = info]
                /\ disk' = [f \in Files |-> IF f = info.file THEN NoTorrent ELSE disk[f]]
    /\ UNCHANGED <<session, table, watcher, link, adds, mixed>>

\* Mutant: the info stays in the table.
DelForgetsNothing(h) ==
    /\ At(h, "forget")
    /\ LET info == handler[h].info
       IN  watcher' = IF watcher[info.torrent] = info.id
                      THEN [watcher EXCEPT ![info.torrent] = NoWatcher] ELSE watcher
    /\ Done(h)
    /\ UNCHANGED <<diskVars, session, table, link, adds, mixed>>

\* Its threads are stopped, and whatever is under the name now is forgotten.
DelForgets(h) ==
    /\ At(h, "forget")
    /\ LET info == handler[h].info
       IN  watcher' = IF watcher[info.torrent] = info.id
                      THEN [watcher EXCEPT ![info.torrent] = NoWatcher] ELSE watcher
    /\ table' = [table EXCEPT ![NameOfSubject(h)] = NoInfo]
    /\ Done(h)
    /\ UNCHANGED <<diskVars, session, link, adds, mixed>>

Handler(h) ==
    \/ \E f \in Files : AddFinds(h, f)
    \/ AddAdds(h) \/ AddAdjusts(h)
    \/ \E t \in Torrents : DelFinds(h, t)
    \/ DelRemoves(h) \/ DelRms(h) \/ DelForgets(h)

Next ==
    \/ \E h \in Handlers : Handler(h)
    \/ \E t \in Torrents, f \in Files : GetTorrent(t, f)
    \/ \E t \in Torrents : ThreadsEnd(t)
    \/ \E t \in Magnets : GetMagnet(t) \/ LinkReady(t) \/ LinkAdjusts(t) \/ LinkGivesUp(t)
    \/ Restart

Spec == Init /\ [][Next]_vars

-----------------------------------------------------------------------------
(* Properties *)

Settled(t) == ~Adding(t) /\ ~Deleting(t) /\ link[t] = "none" /\ t \notin mixed

\* However the requests for different torrents interleave, and wherever the daemon
\* stops: a torrent of the session has its info in the table, no threads but that info's,
\* as long as they last, watch it, so that deleting it stops them, and its file is there for
\* the next start, or it was added by a link.  Not so for a torrent that shares its name or
\* its file with another, or that was added and deleted at once.
Managed ==
    \A t \in session : Settled(t) =>
        LET info == table[NameOf[t]]
        IN  /\ info # NoInfo
            /\ info.torrent = t
            /\ watcher[t] \in {info.id, NoWatcher}
            /\ info.file = LinkFile \/ disk[info.file] = t

\* Under the same conditions a torrent that was deleted is gone for good: no file that a
\* restart would load, no info, no threads.
DeletedIsGone ==
    \A t \in deleted : Settled(t) =>
        /\ t \notin session
        /\ ~OnDisk(t)
        /\ watcher[t] = NoWatcher
        /\ table[NameOf[t]] # NoInfo => table[NameOf[t]].torrent # t

=============================================================================
