---------------------------- MODULE TorrentsPage ----------------------------
(***************************************************************************)
(* The torrents page (www/code.js with sinatra/views/index.haml).  The     *)
(* browser asks for the list on a timer, without waiting for the last      *)
(* answer, and again after every operation; answers arrive in any order,   *)
(* late or as errors.  Each one replaces the list, and with it the page's  *)
(* table, page label and status line, while the user turns pages, checks   *)
(* boxes and presses the buttons.  One action is one event handler: the    *)
(* script has a single thread.                                             *)
(***************************************************************************)
EXTENDS PageHandler, FiniteSets

CONSTANTS
    Torrents, NameOf,   \* names as integers, ordered as the strings are
    Beginnings,         \* the daemon's torrents when the page is opened
    States,             \* the daemon's states of a torrent
    Slots,              \* bound: requests for the list under way
    NoAnswer, NoModify,
    MaxEvents           \* bound: changes of the daemon's torrents by others, operations the
                        \* user asks for, and requests that fail or get lost

Names == {NameOf[t] : t \in Torrents}
Absent == "absent"
Snapshots == [Torrents -> States \cup {Absent}]
Items == [name : Names, state : States]
Operations == {"remove", "pause"}    \* with the files or without, it is the same list
Phases == {"asked", "success", "refused", "failed"}

ASSUME TorrentsPageAssumption ==
    /\ IsFiniteSet(Torrents) /\ NameOf \in [Torrents -> Int]
    /\ Absent \notin States
    /\ Beginnings \subseteq Snapshots
    /\ Null \notin Seq(Items)
    /\ MaxEvents \in Nat

ASSUME NothingAssumption == /\ NoAnswer \notin Snapshots
                            /\ NoModify \notin [names : SUBSET Names, op : Operations,
                                                phase : Phases]

VARIABLES
    daemon,       \* state of each torrent in the daemon
    events,       \* how many of MaxEvents there have been
    requests,     \* requests for the list under way
    modify,       \* the request for an operation under way
    torrents,     \* ajaxRetrievedTorrents_g
    items,        \* pageHandler_g.items
    currentPage,  \* pageHandler_g.currentPage
    rows,         \* rows of the table, without the header and the "loading" row
    label,        \* the page label
    status,       \* the status line: active and complete torrents
    note,         \* whether the error paragraph of an operation is shown
    marked        \* history: names the user checked, as long as they stay on the screen

shown == <<items, rows, label, status, marked>>
vars == <<daemon, events, requests, modify, torrents, items, currentPage, rows, label,
          status, note, marked>>

-----------------------------------------------------------------------------
\* torrentStateToSortingNum; the states counted by updateStatusLine.
Waiting == {"checking_files", "queued_for_checking", "connecting_to_tracker",
            "downloading_metadata", "allocating"}
Active == Waiting \cup {"downloading"}
Complete == {"seeding", "finished"}

TorrentStateToSortingNum(state) ==
    CASE state \in Waiting -> 0
      [] state = "downloading" -> 1
      [] state = "seeding" -> 2
      [] state = "finished" -> 3
      [] OTHER -> 4

TorrentSort(a, b) ==
    LET ts(x) == TorrentStateToSortingNum(x.state)
    IN  ts(a) < ts(b) \/ (ts(a) = ts(b) /\ a.name <= b.name)

\* The lists that sorting the torrents of an answer can give: the order of equals is open.
Present(snapshot) == {t \in Torrents : snapshot[t] # Absent}
Item(snapshot, t) == [name |-> NameOf[t], state |-> snapshot[t]]
Sorted ==
    [snapshot \in Snapshots |->
       LET n == Cardinality(Present(snapshot))
           orders == {q \in [1..n -> Present(snapshot)] :
                        \A i, j \in 1..n : i < j =>
                           /\ q[i] # q[j]
                           /\ TorrentSort(Item(snapshot, q[i]), Item(snapshot, q[j]))}
       IN  {[i \in 1..n |-> Item(snapshot, q[i])] : q \in orders}]

\* updateTable: a row whose code is a name on the page is updated, with the last torrent
\* of that name, its checkbox is left alone; rows are added for the others, and the rows
\* of no torrent deleted.
NamesIn(infos) == {infos[i].name : i \in DOMAIN infos}
LastNamed(infos, n) ==
    infos[CHOOSE i \in DOMAIN infos : /\ infos[i].name = n
                                      /\ \A j \in DOMAIN infos : infos[j].name = n => j <= i]
Codes(R) == {r.code : r \in R}

SetRowValues(row, infos) ==
    [code |-> row.code, value |-> row.code, state |-> LastNamed(infos, row.code).state,
     checked |-> row.checked]
NewRow(n) == [code |-> n, value |-> "torrent_name", state |-> Absent, checked |-> FALSE]

\* Mutant: the rows of torrents that are gone stay.
UpdateTableKeepingAll(R, infos) ==
    LET new == NamesIn(infos) \ Codes(R)
    IN  {IF r.code \in NamesIn(infos) THEN SetRowValues(r, infos) ELSE r : r \in R}
           \cup {SetRowValues(NewRow(n), infos) : n \in new}

\* Mutant: a row of a torrent that is gone is used again, with its checkbox.
UpdateTableRecycling(R, infos) ==
    LET kept == {r \in R : r.code \in NamesIn(infos)}
        free == R \ kept
        new  == NamesIn(infos) \ Codes(R)
        box  == IF free = {} THEN FALSE ELSE (CHOOSE r \in free : TRUE).checked
    IN  {SetRowValues(r, infos) : r \in kept}
           \cup {SetRowValues([NewRow(n) EXCEPT !.checked = box], infos) : n \in new}

UpdateTable(R, infos) ==
    LET kept == {r \in R : r.code \in NamesIn(infos)}
        new  == NamesIn(infos) \ Codes(R)
    IN  {SetRowValues(r, infos) : r \in kept} \cup {SetRowValues(NewRow(n), infos) : n \in new}

CountIn(list, S) == Cardinality({i \in DOMAIN list : list[i].state \in S})
StatusLine(list) == [active |-> CountIn(list, Active), complete |-> CountIn(list, Complete)]

\* updateTorrents: without a list, getItemsVisibleOnCurrentPage throws before anything is shown.
UpdateTorrents ==
    /\ items' = torrents'
    /\ IF torrents' = Null
         THEN UNCHANGED <<rows, label, status, marked>>
         ELSE LET infos == GetItemsVisible(torrents', currentPage')
              IN  /\ label' = UpdatePagesUi(torrents', currentPage')
                  /\ rows' = UpdateTable(rows, infos)
                  /\ status' = StatusLine(torrents')
                  /\ marked' = marked \cap NamesIn(infos)

-----------------------------------------------------------------------------
Idle == [phase |-> "idle", answer |-> NoAnswer]

Init ==
    /\ daemon \in Beginnings
    /\ events = 0
    /\ requests = [s \in Slots |-> Idle]
    /\ modify = NoModify
    /\ torrents = Null /\ items = Null /\ currentPage = 1
    /\ rows = {} /\ marked = {}
    /\ label = [page |-> 1, pages |-> 1]
    /\ status = [active |-> 0, complete |-> 0]
    /\ note = FALSE

\* The daemon: torrents come, go and change state.
Change(t) ==
    /\ events < MaxEvents
    /\ \E state \in (States \cup {Absent}) \ {daemon[t]} :
          daemon' = [daemon EXCEPT ![t] = state]
    /\ events' = events + 1
    /\ UNCHANGED <<requests, modify, torrents, currentPage, shown, note>>

\* getTorrentsUsingAjax sends a request.
Send(s) ==
    /\ requests[s].phase = "idle"
    /\ requests' = [requests EXCEPT ![s].phase = "asked"]

\* repeatedlyGetTorrentsUsingAjax: the timer does not look whether a request is under way.
Poll(s) ==
    /\ Send(s)
    /\ UNCHANGED <<daemon, events, modify, torrents, currentPage, shown, note>>

\* The web server answers with the daemon's torrents at that moment ...
Answer(s) ==
    /\ requests[s].phase = "asked"
    /\ requests' = [requests EXCEPT ![s] = [phase |-> "answered", answer |-> daemon]]
    /\ UNCHANGED <<daemon, events, modify, torrents, currentPage, shown, note>>

\* ... or with an error; or there is no body to evaluate, because it cannot be reached.
AnswerFails(s) ==
    /\ requests[s].phase = "asked"
    /\ events < MaxEvents
    /\ \E phase \in {"failed", "lost"} :
          requests' = [requests EXCEPT ![s].phase = phase]
    /\ events' = events + 1
    /\ UNCHANGED <<daemon, modify, torrents, currentPage, shown, note>>

\* onSuccess with a list; onSuccess with an error, and onFailure.
ReceiveList(s) ==
    /\ requests[s].phase = "answered"
    /\ torrents' \in Sorted[requests[s].answer]
    /\ requests' = [requests EXCEPT ![s] = Idle]
    /\ UNCHANGED currentPage
    /\ UpdateTorrents
    /\ UNCHANGED <<daemon, events, modify, note>>

ReceiveFailure(s) ==
    /\ requests[s].phase = "failed"
    /\ torrents' = <<>>
    /\ requests' = [requests EXCEPT ![s] = Idle]
    /\ UNCHANGED currentPage
    /\ UpdateTorrents
    /\ UNCHANGED <<daemon, events, modify, note>>

\* Mutant: a request without an answer is waited for.
ReceiveNothingEver(s) == requests[s].phase = "lost" /\ UNCHANGED vars

\* evalJSON throws in onSuccess, and Ajax.Request drops the exception.
ReceiveNothing(s) ==
    /\ requests[s].phase = "lost"
    /\ requests' = [requests EXCEPT ![s] = Idle]
    /\ UNCHANGED <<daemon, events, modify, torrents, currentPage, shown, note>>

-----------------------------------------------------------------------------
TurnTo(page) ==
    /\ currentPage' = page
    /\ UNCHANGED torrents
    /\ UpdateTorrents
    /\ UNCHANGED <<daemon, events, requests, modify, note>>

NextPage == HasNextPage(items, currentPage) /\ TurnTo(currentPage + 1)
PrevPage == HasPrevPage(currentPage) /\ TurnTo(currentPage - 1)

\* The user checks or unchecks the box beside a name.
Toggle(row) ==
    /\ rows' = (rows \ {row}) \cup {[row EXCEPT !.checked = ~ @]}
    /\ marked' = IF row.checked THEN marked \ {row.code} ELSE marked \cup {row.code}
    /\ UNCHANGED <<daemon, events, requests, modify, torrents, items, currentPage, label,
                   status, note>>

GetSelectedNames == {r.value : r \in {q \in rows : q.checked}}

\* removeSelectedTorrents, removeSelectedTorrentsFiles (once confirmed), pauseSelectedTorrents.
Modify(op) ==
    /\ modify = NoModify
    /\ events < MaxEvents
    /\ modify' = [names |-> GetSelectedNames, op |-> op, phase |-> "asked"]
    /\ events' = events + 1
    /\ UNCHANGED <<daemon, requests, torrents, currentPage, shown, note>>

\* The web server has the daemon remove one torrent of each name ("pause" leaves the list
\* as it is) and answers with success, or with an error if there is none of some name; or
\* it fails with a part of them removed.
Removed(victims) == [t \in Torrents |-> IF t \in victims THEN Absent ELSE daemon[t]]
OneOfEach(victims, names) ==
    /\ victims \subseteq Present(daemon)
    /\ \A t \in victims : NameOf[t] \in names
    /\ \A t, u \in victims : NameOf[t] = NameOf[u] => t = u

ModifyDone ==
    /\ modify # NoModify /\ modify.phase = "asked"
    /\ \E victims \in SUBSET Torrents :
          /\ OneOfEach(victims, modify.names)
          /\ {NameOf[t] : t \in victims} = modify.names \cap {NameOf[t] : t \in Present(daemon)}
          /\ daemon' = IF modify.op = "pause" THEN daemon ELSE Removed(victims)
    /\ modify' = [modify EXCEPT !.phase = IF modify.names \subseteq {NameOf[t] : t \in Present(daemon)}
                                            THEN "success" ELSE "refused"]
    /\ UNCHANGED <<events, requests, torrents, currentPage, shown, note>>

ModifyFails ==
    /\ modify # NoModify /\ modify.phase = "asked"
    /\ events < MaxEvents
    /\ \E victims \in SUBSET Torrents :
          /\ OneOfEach(victims, modify.names)
          /\ daemon' = IF modify.op = "pause" THEN daemon ELSE Removed(victims)
    /\ \E phase \in {"refused", "failed"} : modify' = [modify EXCEPT !.phase = phase]
    /\ events' = events + 1
    /\ UNCHANGED <<requests, torrents, currentPage, shown, note>>

\* onSuccess of modifyTorrentsUsingAjax, with reloadTorrentsAfterModify: the list is asked
\* for again, and what is known already is shown once more.  An operation that was refused
\* leaves a note, one that succeeded clears it.
ReceiveModified(s) ==
    /\ modify # NoModify /\ modify.phase \in {"success", "refused"}
    /\ note' = (modify.phase = "refused")
    /\ modify' = NoModify
    /\ Send(s)
    /\ UNCHANGED <<torrents, currentPage>>
    /\ UpdateTorrents
    /\ UNCHANGED <<daemon, events>>

\* onFailure adds a message only, and without a body nothing happens at all.
ReceiveNotModified ==
    /\ modify # NoModify /\ modify.phase = "failed"
    /\ modify' = NoModify
    /\ UNCHANGED <<daemon, events, requests, torrents, currentPage, shown, note>>

\* A request for the list, from one step to the next.
Proceed(s) ==
    \/ Poll(s) \/ Answer(s) \/ AnswerFails(s)
    \/ ReceiveList(s) \/ ReceiveFailure(s) \/ ReceiveNothing(s)

Next ==
    \/ \E t \in Torrents : Change(t)
    \/ \E s \in Slots : Proceed(s) \/ ReceiveModified(s)
    \/ NextPage \/ PrevPage
    \/ \E row \in rows : Toggle(row)
    \/ \E op \in Operations : Modify(op)
    \/ ModifyDone \/ ModifyFails \/ ReceiveNotModified

\* The timer never ends, every request is answered, fails or is lost, and the browser runs
\* the handler of what arrived.  Nothing is assumed of the user or of operations.
Fairness == \A s \in Slots : WF_requests(Proceed(s))

Spec == Init /\ [][Next]_vars /\ Fairness

-----------------------------------------------------------------------------
Rows == [code : Names, value : Names, state : States, checked : BOOLEAN]
Requests == [phase : {"idle", "asked", "answered", "failed", "lost"},
             answer : Snapshots \cup {NoAnswer}]

\* The variables have their types, and an answered request has an answer.
TypeOK ==
    /\ daemon \in Snapshots
    /\ events \in 0..MaxEvents
    /\ requests \in [Slots -> Requests]
    /\ \A s \in Slots : requests[s].phase = "answered" => requests[s].answer \in Snapshots
    /\ modify \in [names : SUBSET Names, op : Operations, phase : Phases] \cup {NoModify}
    /\ torrents \in Seq(Items) \cup {Null}
    /\ items = torrents
    /\ currentPage \in Nat \ {0}
    /\ rows \in SUBSET Rows
    /\ label \in [page : Nat, pages : Nat]
    /\ status \in [active : Nat, complete : Nat]
    /\ note \in BOOLEAN
    /\ marked \in SUBSET Names

\* Whatever order answers, page turns and operations come in, all that is on the screen is
\* of one list, the last one received, and of the current page: one row for each name on
\* that page, with the state of a torrent of that name, the number of pages, and the counts
\* (updateTable, updatePagesUi, updateStatusLine).
ScreenShowsOneList ==
    torrents # Null =>
      LET infos == GetItemsVisible(torrents, currentPage)
      IN  /\ Codes(rows) = NamesIn(infos)
          /\ \A r \in rows :
                /\ \A q \in rows : q.code = r.code => q = r
                /\ \E i \in DOMAIN infos : infos[i].name = r.code /\ infos[i].state = r.state
          /\ label = UpdatePagesUi(torrents, currentPage)
          /\ status = StatusLine(torrents)

\* The names an operation is asked for are those the user checked and that have been on the
\* screen ever since: no refresh moves a check to another torrent (updateTable keeps the
\* rows by name, getSelectedNamesInTable reads the value of the checked boxes).
SelectedIsMarked == GetSelectedNames = marked

\* Once torrents stop changing, the list becomes and stays the daemon's, although answers
\* arrive late and in another order: the polling outlives errors and lost requests
\* (repeatedlyGetTorrentsUsingAjax).
ListCatchesUp == <>[](torrents \in Sorted[daemon])
=============================================================================
