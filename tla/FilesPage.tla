------------------------------ MODULE FilesPage ------------------------------
(***************************************************************************)
(* The files page (www/code.js with sinatra/views/files.haml): the data    *)
(* directory, one directory at a time.  The list is asked for on a timer   *)
(* and by each click on a directory; every answer names the directory it   *)
(* lists.  The directory of the next request, `cd', is changed by clicks   *)
(* at once and by answers when they arrive, while the rows shown may be of *)
(* another directory.  A path is the sequence of names below the data      *)
(* directory.                                                              *)
(***************************************************************************)
EXTENDS PageHandler, FiniteSets, SequencesExt

CONSTANTS
    Dirs, Files,        \* the paths there can be, of directories and of files
    RankOf,             \* position of each name, and of "..", in alphabetical order
    WithPlus, Mangled,  \* the names that have a "+" in them, and what such a name is sent as
    Beginnings,         \* the daemon's files when the page is opened
    Slots,              \* bound: requests for the list under way
    NoModify,
    MaxClicks,          \* bound: clicks on directories between two answers
    MaxEvents           \* bound: changes of the files by others, deletions the user asks
                        \* for, and requests that fail or get lost

Up == ".."
Outside == <<Up>>       \* a directory above the data directory
Paths == Dirs \cup Files

ASSUME FilesPageAssumption ==
    /\ Paths \subseteq Seq(DOMAIN RankOf) /\ Null \notin Paths
    /\ <<>> \in Dirs /\ Dirs \cap Files = {}
    /\ \A p \in Paths \ {<<>>} : Front(p) \in Dirs /\ Last(p) # Up
    /\ \A p \in Paths : \A i \in DOMAIN p : p[i] # Mangled
    /\ Beginnings \subseteq SUBSET Paths
    /\ MaxClicks \in Nat /\ MaxEvents \in Nat

VARIABLES
    tree,         \* the paths that exist
    events,       \* how many of MaxEvents there have been
    requests,     \* requests for the list under way
    modify,       \* the request for a deletion under way
    cd,           \* currentFilesDir_g
    title,        \* the directory in the page's title: the one of the last list
    files,        \* currentFiles_g, and the page handler's items
    currentPage,  \* pageHandler_g.currentPage
    rows,         \* the table: names, and what the links lead to
    label,        \* the page label
    note,         \* whether the error paragraph is shown
    clicked       \* history: the directories clicked since the last list arrived

screen == <<cd, title, files, currentPage, rows, label, clicked>>
vars == <<tree, events, requests, modify, screen, note>>

-----------------------------------------------------------------------------
\* The daemon.  A path is followed name by name; above the data directory no name is known.
Step(T, dir, name) ==
    IF dir = Null \/ (dir = Outside /\ name # Up) THEN Null
    ELSE IF name = Up THEN IF dir \in {<<>>, Outside} THEN Outside ELSE Front(dir)
    ELSE IF Append(dir, name) \in T \cap Dirs THEN Append(dir, name) ELSE Null

Resolve(T, path) ==
    LET reached[i \in 0..Len(path)] ==
          IF i = 0 THEN <<>> ELSE Step(T, reached[i - 1], path[i])
    IN  reached[Len(path)]

Children(T, dir) == {Last(p) : p \in {q \in T \ {<<>>} : Front(q) = dir}}
Under(p, q) == IsPrefix(p, q)

\* handleListFilesRequest: without a directory, and above the data directory, the data
\* directory; directories first, "..", then files, each in alphabetical order.
IsDir(dir, name) == name = Up \/ Append(dir, name) \in Dirs
Before(dir, a, b) ==
    LET class(n) == IF IsDir(dir, n) THEN 0 ELSE 1
    IN  class(a) < class(b) \/ (class(a) = class(b) /\ RankOf[a] < RankOf[b])
Names(T, dir) == Children(T, dir) \cup (IF dir = <<>> THEN {} ELSE {Up})
Listing ==
    [T \in SUBSET Paths |->
       [dir \in Dirs |-> SetToSortSeq(Names(T, dir), LAMBDA a, b : Before(dir, a, b))]]

Requested(T, dir) == IF dir = Null THEN <<>> ELSE Resolve(T, dir)
Canonical(dir) == IF dir = Outside THEN <<>> ELSE dir

\* localEncodeURI: the first "+" is encoded twice, and the server decodes it once.
LocalEncodeURI(path) ==
    LET at == {i \in DOMAIN path : path[i] \in WithPlus}
    IN  IF at = {} THEN path ELSE [path EXCEPT ![Min(at)] = Mangled]

\* makeElementWithIconForFile and addRowTds: a directory's link only tells its name to the
\* click handler, a file's link holds the path to download.
Row(dir, name, isDir) ==
    [name |-> name, link |-> IF isDir THEN Null ELSE LocalEncodeURI(Append(dir, name))]

\* refillTable builds all rows anew, and their links from currentFilesDir_g.
RefillTable(shown, dir, infos) ==
    {Row(dir, infos[i], IsDir(shown, infos[i])) : i \in DOMAIN infos}

UpdateFiles ==
    LET infos == GetItemsVisible(files', currentPage')
    IN  /\ label' = UpdatePagesUi(files', currentPage')
        /\ rows' = RefillTable(title', cd', infos)

-----------------------------------------------------------------------------
Idle == [phase |-> "idle", dir |-> Null, answer |-> Null]

Init ==
    /\ tree \in Beginnings
    /\ events = 0
    /\ requests = [s \in Slots |-> Idle]
    /\ modify = NoModify
    /\ cd = Null /\ title = Null /\ files = Null /\ currentPage = 1
    /\ rows = {} /\ clicked = <<>>
    /\ label = [page |-> 1, pages |-> 1]
    /\ note = FALSE

\* Torrents and other users add and remove files and directories.
Change(p) ==
    /\ events < MaxEvents
    /\ p # <<>>
    /\ tree' = IF p \in tree THEN {q \in tree : ~ Under(p, q)}
                ELSE tree \cup {q \in Paths : Under(q, p)}
    /\ events' = events + 1
    /\ UNCHANGED <<requests, modify, screen, note>>

\* getFilesUsingAjax
Send(s, dir) ==
    /\ requests[s].phase = "idle"
    /\ requests' = [requests EXCEPT ![s] = [phase |-> "asked", dir |-> dir, answer |-> Null]]

\* repeatedlyGetFilesUsingAjax, and the refresh button.
Poll(s) ==
    /\ Send(s, cd)
    /\ UNCHANGED <<tree, events, modify, screen, note>>

\* handleClickedFile: the directory counts as entered before anything is known about it.
Click(s, row) ==
    /\ row.link = Null
    /\ Len(clicked) < MaxClicks
    /\ cd' = Append(cd, row.name)
    /\ clicked' = Append(clicked, row.name)
    /\ Send(s, cd')
    /\ UNCHANGED <<tree, events, modify, title, files, currentPage, rows, label, note>>

\* The web server answers with the listing, or with the error that there is no such directory.
Answer(s) ==
    /\ requests[s].phase = "asked"
    /\ LET found == Requested(tree, requests[s].dir)
           dir   == Canonical(found)
       IN  requests' = [requests EXCEPT ![s] =
              IF found = Null
                THEN [@ EXCEPT !.phase = "refused"]
                ELSE [@ EXCEPT !.phase = "answered",
                               !.answer = [dir |-> dir, files |-> Listing[tree][dir]]]]
    /\ UNCHANGED <<tree, events, modify, screen, note>>

AnswerFails(s) ==
    /\ requests[s].phase = "asked"
    /\ events < MaxEvents
    /\ \E phase \in {"refused", "lost"} :
          requests' = [requests EXCEPT ![s].phase = phase]
    /\ events' = events + 1
    /\ UNCHANGED <<tree, modify, screen, note>>

\* Mutant: an answer does not set the directory again.
ReceiveListLeavingDir(s) ==
    LET a == requests[s].answer
    IN  /\ requests[s].phase = "answered"
        /\ cd' = IF cd = Null THEN a.dir ELSE cd
        /\ title' = a.dir
        /\ currentPage' = IF cd # a.dir THEN SetPage(files, currentPage, 1) ELSE currentPage
        /\ files' = a.files
        /\ UpdateFiles
        /\ clicked' = <<>>
        /\ requests' = [requests EXCEPT ![s] = Idle]
        /\ UNCHANGED <<tree, events, modify, note>>

\* Mutant: an answer for the directory that is shown is ignored.
ReceiveListOfOtherDir(s) ==
    LET a == requests[s].answer
    IN  /\ requests[s].phase = "answered"
        /\ cd' = a.dir
        /\ title' = a.dir
        /\ currentPage' = IF cd # a.dir THEN SetPage(files, currentPage, 1) ELSE currentPage
        /\ files' = IF title = a.dir THEN files ELSE a.files
        /\ UpdateFiles
        /\ clicked' = <<>>
        /\ requests' = [requests EXCEPT ![s] = Idle]
        /\ UNCHANGED <<tree, events, modify, note>>

\* handleRetrievedFiles: the first page is asked of the handler while it has the old files,
\* and only if the directory is another than the one that was asked for last.
ReceiveList(s) ==
    LET a == requests[s].answer
    IN  /\ requests[s].phase = "answered"
        /\ cd' = a.dir
        /\ title' = a.dir
        /\ currentPage' = IF cd # a.dir THEN SetPage(files, currentPage, 1) ELSE currentPage
        /\ files' = a.files
        /\ UpdateFiles
        /\ clicked' = <<>>
        /\ requests' = [requests EXCEPT ![s] = Idle]
        /\ UNCHANGED <<tree, events, modify, note>>

\* setJavascriptErrorToFirstElem: the error is shown, beside the old list.
ReceiveError(s) ==
    /\ requests[s].phase = "refused"
    /\ note' = TRUE
    /\ requests' = [requests EXCEPT ![s] = Idle]
    /\ UNCHANGED <<tree, events, modify, screen>>

\* A failure is reported in a table that this page does not have.
ReceiveNothing(s) ==
    /\ requests[s].phase = "lost"
    /\ requests' = [requests EXCEPT ![s] = Idle]
    /\ UNCHANGED <<tree, events, modify, screen, note>>

-----------------------------------------------------------------------------
TurnTo(page) ==
    /\ currentPage' = page
    /\ UNCHANGED <<cd, title, files, clicked>>
    /\ UpdateFiles
    /\ UNCHANGED <<tree, events, requests, modify, note>>

NextPage == HasNextPage(files, currentPage) /\ TurnTo(currentPage + 1)
PrevPage == HasPrevPage(currentPage) /\ TurnTo(currentPage - 1)

\* removeSelectedDatadirFiles, once confirmed.  The rows' checkboxes are cleared by every
\* refill, so the selection is made of the rows as they are.
RemoveSelected ==
    /\ modify = NoModify
    /\ events < MaxEvents
    /\ \E selected \in SUBSET rows :
          modify' = [phase |-> "asked", paths |-> {Append(cd, r.name) : r \in selected},
                     seen |-> title, moved |-> clicked # <<>>]
    /\ events' = events + 1
    /\ UNCHANGED <<tree, requests, screen, note>>

\* handleDelFileRequest for each path.  What it cannot find or remove as a whole it refuses,
\* with a part of it removed: all that is below, at most.
Target(path) == IF Last(path) # Up /\ Resolve(tree, Front(path)) \in tree
                     /\ Append(Resolve(tree, Front(path)), Last(path)) \in tree
                  THEN Append(Resolve(tree, Front(path)), Last(path))
                  ELSE Resolve(tree, path)
Targets == {Target(path) : path \in modify.paths}
Removable == /\ \A path \in modify.paths : Last(path) # Up
             /\ Targets \subseteq tree
Below == {q \in tree \ {<<>>} : \E p \in Targets : p \in tree /\ Under(p, q)}

ModifyDone ==
    /\ modify # NoModify /\ modify.phase = "asked"
    /\ Removable
    /\ tree' = tree \ Below
    /\ modify' = [modify EXCEPT !.phase = "success"]
    /\ UNCHANGED <<events, requests, screen, note>>

ModifyFails ==
    /\ modify # NoModify /\ modify.phase = "asked"
    /\ Removable => events < MaxEvents
    /\ events' = IF Removable THEN events + 1 ELSE events
    /\ \E gone \in SUBSET Below :
          /\ \A p \in gone, q \in tree : Under(p, q) => q \in gone
          /\ tree' = tree \ gone
    /\ modify' = [modify EXCEPT !.phase = "refused"]
    /\ UNCHANGED <<requests, screen, note>>

\* The outcome, and reloadFilesAfterModify.
ReceiveModified(s) ==
    /\ modify # NoModify /\ modify.phase \in {"success", "refused"}
    /\ note' = (modify.phase = "refused")
    /\ modify' = NoModify
    /\ Send(s, cd)
    /\ UNCHANGED <<tree, events, screen>>

Proceed(s) ==
    \/ Poll(s) \/ Answer(s) \/ AnswerFails(s)
    \/ ReceiveList(s) \/ ReceiveError(s) \/ ReceiveNothing(s)

Next ==
    \/ \E p \in Paths : Change(p)
    \/ \E s \in Slots : Proceed(s) \/ ReceiveModified(s)
    \/ \E s \in Slots, row \in rows : Click(s, row)
    \/ NextPage \/ PrevPage
    \/ RemoveSelected \/ ModifyDone \/ ModifyFails

\* As of the torrents page: the timer goes on, and every request comes to some end.
Fairness == \A s \in Slots : WF_requests(Proceed(s))

Spec == Init /\ [][Next]_vars /\ Fairness

-----------------------------------------------------------------------------
\* What a page of one directory does about another: only after a click on a directory whose
\* list has not arrived.  Otherwise the rows' links lead to the files of their names in the
\* directory in the title, or to no file at all where there is a "+" on the way; and what is
\* deleted is of the directory that the title showed, whatever answers arrive late
\* (handleRetrievedFiles, refillTable, localEncodeURI, removeSelectedDatadirFiles).
PageActsOnDirShown ==
    /\ title # Null => cd = title \o clicked
    /\ clicked = <<>> =>
          \A r \in {row \in rows : row.link # Null} :
             IF ToSet(Append(title, r.name)) \intersect WithPlus = {}
               THEN r.link = Append(title, r.name)
               ELSE r.link \notin Paths
    /\ modify # NoModify /\ ~ modify.moved =>
          \A path \in modify.paths : Front(path) = modify.seen

\* Once nothing changes the files, the names shown become and stay those of the directory in
\* the title; or the page asks for a directory that does not exist, and never leaves it by
\* itself (repeatedlyGetFilesUsingAjax, handleClickedFile).
FilesCatchUpOrStuck ==
    <>[](\/ title # Null /\ files = Listing[tree][title]
         \/ Requested(tree, cd) = Null)
=============================================================================
