--------------------------- MODULE MessageDisplay ---------------------------
(***************************************************************************)
(* The messages and the status line of the web pages (www/code.js).        *)
(* Messages are notices, which disappear after some seconds, and the       *)
(* daemon's alarms, which stay as long as they are raised.  Notices come   *)
(* from request handlers, from the download form and from uploads.  Each   *)
(* update of the status line asks for the alarms, for the space on the     *)
(* disk and for the usage, and the answers arrive in any order.  The table *)
(* of messages and the usage are on the torrents page only.                *)
(***************************************************************************)
EXTENDS Integers, FiniteSets

CONSTANTS
    Notices,     \* ids of notices: "getTorrents", "modifyFiles", "iframeLoad", ...
    Download,    \* the id of those of the download form: "downloadtorrent"
    Alarms,      \* "alarm" and the id of an alarm
    Urls, Empty, \* what the form's input field can hold
    Timeout,     \* this.timeout, in seconds (6)
    Cells,       \* the parts of the status line that are asked for: "disk", "usage"
    Values,      \* what there is to say of them,
    Beginnings,  \* and what there is when the page is opened
    Requests,    \* bound: requests under way
    KindOf,      \* what each of them asks for: "alarms" or a cell
    Null,
    MaxEvents    \* bound: changes of alarms and values, and requests that fail

Forever == -1      \* the age of a message that does not expire: its timestamp is null
Ages == -1..Timeout + 1
Texts == {"notice", "retrieved", "failed", "alarm"}
Ids == Notices \cup {Download} \cup Alarms

ASSUME MessageDisplayAssumption ==
    /\ Timeout \in Nat /\ MaxEvents \in Nat
    /\ Download \notin Notices /\ Alarms \cap (Notices \cup {Download}) = {}
    /\ Empty \notin Urls
    /\ Cells \subseteq {"disk", "usage"}
    /\ KindOf \in [Requests -> Cells \cup {"alarms"}]
    /\ Empty \notin Values /\ Beginnings \subseteq Values
    /\ Null \notin [text : Texts, age : Ages]

VARIABLES
    raised,      \* the alarms raised in the daemon
    info,        \* what the daemon would say for each cell
    events,      \* how many of MaxEvents there have been
    hasTable,    \* whether the page has a table for messages
    messages,    \* this.messages: text and age of each message, or Null
    rows,        \* the table's rows
    alarms,      \* the ids in alarms_g
    cells,       \* the status line: what each cell says
    requests,    \* the requests under way: what they will answer
    input,       \* the form's input field
    download     \* whether a download is under way

display == <<messages, rows>>
daemon == <<raised, info, events>>
page == <<hasTable, display, alarms, cells, input, download>>
vars == <<raised, info, events, hasTable, display, alarms, cells, requests, input, download>>

Registered(M) == {id \in Ids : M[id] # Null}
Message(text) == [text |-> text, age |-> 0]
NonexpiringMessage(text) == [text |-> text, age |-> Forever]

\* addMessageObj: a message whose id is registered is not added, nor its row.
Put(D, ids, message) ==
    LET new == ids \ Registered(D.messages)
    IN  [messages |-> [id \in Ids |-> IF id \in new THEN message ELSE D.messages[id]],
         rows |-> D.rows \cup (IF hasTable THEN {[id |-> id, text |-> message.text] : id \in new}
                                           ELSE {})]

\* Mutant: the row is deleted, the message stays registered.
DropRows(D, ids) ==
    [D EXCEPT !.rows = {r \in @ : r.id \notin ids}]

\* Mutant: a message is forgotten, its row stays.
DropMessages(D, ids) ==
    [D EXCEPT !.messages = [id \in Ids |-> IF id \in ids THEN Null ELSE @[id]]]

\* delMessage and removeExpired: a page without a table forgets nothing.
Drop(D, ids) ==
    IF ~ hasTable THEN D
    ELSE LET gone == {r.id : r \in D.rows} \cap ids \cap Registered(D.messages)
         IN  [messages |-> [id \in Ids |-> IF id \in gone THEN Null ELSE D.messages[id]],
              rows |-> {r \in D.rows : r.id \notin gone}]

Displayed == [messages |-> messages, rows |-> rows]
Display(D) == \E d \in {D} : messages' = d.messages /\ rows' = d.rows

AddMessage(id, text) == Display(Put(Displayed, {id}, Message(text)))

-----------------------------------------------------------------------------
Idle == [phase |-> "idle", answer |-> {}]

Init ==
    /\ raised \in SUBSET Alarms
    /\ info \in [Cells -> Beginnings]
    /\ events = 0
    /\ hasTable \in BOOLEAN
    /\ messages = [id \in Ids |-> Null]
    /\ rows = {} /\ alarms = {}
    /\ cells = [c \in Cells |-> Empty]
    /\ requests = [s \in Requests |-> Idle]
    /\ input = Empty /\ download = FALSE

\* Time passes; a message that has expired stays until it is removed.
Age(m) == IF m = Null \/ m.age \in {Forever, Timeout + 1} THEN m
                                                          ELSE [m EXCEPT !.age = @ + 1]
Tick ==
    /\ messages' = [id \in Ids |-> Age(messages[id])]
    /\ UNCHANGED <<daemon, hasTable, rows, alarms, cells, requests, input, download>>

Expired == {id \in Registered(messages) : messages[id].age = Timeout + 1}

\* The timer of every second.
RemoveExpired ==
    /\ Display(Drop(Displayed, Expired))
    /\ UNCHANGED <<daemon, hasTable, alarms, cells, requests, input, download>>

\* A handler has something to tell, or an upload has been answered in its frame.
Notice(id) ==
    /\ AddMessage(id, "notice")
    /\ UNCHANGED <<daemon, hasTable, alarms, cells, requests, input, download>>

-----------------------------------------------------------------------------
\* The form: downloadTorrentFromForm and downloadTorrentUsingAjax.  A success clears the
\* field, whatever was typed there in the meantime.
Type(url) ==
    /\ hasTable
    /\ input' = url
    /\ UNCHANGED <<daemon, hasTable, display, alarms, cells, requests, download>>

DownloadFromForm ==
    /\ hasTable /\ ~ download
    /\ download' = TRUE
    /\ UNCHANGED <<daemon, hasTable, display, alarms, cells, requests, input>>

DownloadEnds ==
    /\ download
    /\ \/ AddMessage(Download, "retrieved") /\ input' = Empty
       \/ AddMessage(Download, "failed") /\ UNCHANGED input
       \/ UNCHANGED <<display, input>>    \* no answer at all
    /\ download' = FALSE
    /\ UNCHANGED <<daemon, hasTable, alarms, cells, requests>>

-----------------------------------------------------------------------------
\* The daemon raises and lowers alarms; the usage and the space on the disk change.
Alarm(a) ==
    /\ events < MaxEvents
    /\ raised' = IF a \in raised THEN raised \ {a} ELSE raised \cup {a}
    /\ events' = events + 1
    /\ UNCHANGED <<info, page, requests>>

Use(c) ==
    /\ events < MaxEvents
    /\ \E v \in Values \ {info[c]} : info' = [info EXCEPT ![c] = v]
    /\ events' = events + 1
    /\ UNCHANGED <<raised, page, requests>>

\* updateStatusLine: getAlarms, getFsInfo, getUsageInfo.
Ask(s) ==
    /\ requests[s].phase = "idle"
    /\ requests' = [requests EXCEPT ![s].phase = "asked"]
    /\ UNCHANGED <<daemon, page>>

Answer(s) ==
    /\ requests[s].phase = "asked"
    /\ requests' = [requests EXCEPT ![s] =
                      [phase |-> "answered",
                       answer |-> IF KindOf[s] = "alarms" THEN raised ELSE info[KindOf[s]]]]
    /\ UNCHANGED <<daemon, page>>

\* The daemon has an error to tell instead: not of the alarms, but a cell becomes empty.
AnswerFails(s) ==
    /\ requests[s].phase = "asked"
    /\ events < MaxEvents
    /\ requests' = [requests EXCEPT ![s] = IF KindOf[s] = "alarms" THEN Idle
                                           ELSE [phase |-> "answered", answer |-> Empty]]
    /\ events' = events + 1
    /\ UNCHANGED <<raised, info, page>>

\* A request that fails is not told of.
Lost(s) ==
    /\ requests[s].phase = "asked"
    /\ events < MaxEvents
    /\ requests' = [requests EXCEPT ![s] = Idle]
    /\ events' = events + 1
    /\ UNCHANGED <<raised, info, page>>

\* Mutant: alarms are only added.
ReceiveNewAlarms(s) ==
    LET answer == requests[s].answer
    IN  /\ requests[s].phase = "answered" /\ KindOf[s] = "alarms"
        /\ Display(Put(Displayed, answer \ alarms, NonexpiringMessage("alarm")))
        /\ alarms' = alarms \cup answer
        /\ requests' = [requests EXCEPT ![s] = Idle]
        /\ UNCHANGED <<daemon, hasTable, cells, input, download>>

\* updateDisplayedAlarms, with what an answer says.
ReceiveAlarms(s) ==
    LET answer == requests[s].answer
    IN  /\ requests[s].phase = "answered" /\ KindOf[s] = "alarms"
        /\ \E D \in {Put(Displayed, answer \ alarms, NonexpiringMessage("alarm"))} :
              Display(Drop(D, alarms \ answer))
        /\ alarms' = answer
        /\ requests' = [requests EXCEPT ![s] = Idle]
        /\ UNCHANGED <<daemon, hasTable, cells, input, download>>

\* The cell is set, or emptied after an error.  On a page without it the handler throws.
ReceiveInfo(s) ==
    LET c == KindOf[s]
    IN  /\ requests[s].phase = "answered" /\ c # "alarms"
        /\ cells' = IF c = "disk" \/ hasTable THEN [cells EXCEPT ![c] = requests[s].answer]
                                               ELSE cells
        /\ requests' = [requests EXCEPT ![s] = Idle]
        /\ UNCHANGED <<daemon, hasTable, display, alarms, input, download>>

Proceed(s) ==
    \/ Ask(s) \/ Answer(s) \/ AnswerFails(s) \/ Lost(s)
    \/ ReceiveAlarms(s) \/ ReceiveInfo(s)

Next ==
    \/ Tick \/ RemoveExpired
    \/ \E id \in Notices : Notice(id)
    \/ \E url \in Urls : Type(url)
    \/ DownloadFromForm \/ DownloadEnds
    \/ \E a \in Alarms : Alarm(a)
    \/ \E c \in Cells : Use(c)
    \/ \E s \in Requests : Proceed(s)

\* Time passes and timers fire, the status line is updated again and again by the polling of
\* the page, and its requests come to an end.
Fairness ==
    /\ WF_messages(Tick) /\ WF_messages(RemoveExpired)
    /\ \A s \in Requests : WF_requests(Proceed(s))

Spec == Init /\ [][Next]_vars /\ Fairness

-----------------------------------------------------------------------------
\* The variables have their types.
TypeOK ==
    /\ raised \in SUBSET Alarms /\ alarms \in SUBSET Alarms
    /\ events \in 0..MaxEvents
    /\ hasTable \in BOOLEAN
    /\ messages \in [Ids -> [text : Texts, age : Ages] \cup {Null}]
    /\ rows \in SUBSET [id : Ids, text : Texts]
    /\ requests \in [Requests -> [phase : {"idle", "asked", "answered"},
                                 answer : (SUBSET Alarms) \cup Values \cup {Empty}]]
    /\ \A s \in Requests :
          requests[s].phase = "answered" =>
            requests[s].answer \in IF KindOf[s] = "alarms" THEN SUBSET Alarms
                                                           ELSE Values \cup {Empty}
    /\ info \in [Cells -> Values] /\ cells \in [Cells -> Values \cup {Empty}]
    /\ input \in Urls \cup {Empty}
    /\ download \in BOOLEAN

\* On a page with a table there is one row for each registered message, with its text, and
\* the alarms among them are those of the answer that was applied last, whatever arrived,
\* expired and was told in between (addMessageObj, removeExpired, delMessage,
\* updateDisplayedAlarms).
RowsAreMessages ==
    hasTable =>
      /\ rows = {[id |-> id, text |-> messages[id].text] : id \in Registered(messages)}
      /\ Registered(messages) \cap Alarms = alarms
      /\ \A a \in alarms : messages[a].age = Forever

\* Once nothing changes in the daemon, its alarms are the ones displayed and the status line
\* says what it would say, although answers arrive late and in another order, or as errors.
StatusCatchesUp ==
    <>[](hasTable => /\ {r.id : r \in rows} \cap Alarms = raised
                     /\ cells = info)

\* Every notice leaves the table again, and makes room for the next one with its id
\* (removeExpired; addMessageObj drops what comes before that).
NoticesDisappear ==
    \A id \in Notices \cup {Download} :
        hasTable /\ messages[id] # Null ~> messages[id] = Null
=============================================================================
