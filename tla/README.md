# Torrentflow in TLA+

Torrentflow is a torrent downloader with a daemon (`daemon/`, Ruby, on top of
libtorrent), a web application that talks to the daemon over TCP (`sinatra/`,
`www-lib/`, the older `www/*.rhtml`) and a browser page (`www/code.js`).  This
directory specifies the parts of it that are stateful, concurrent or
failure-prone, checks them with TLC and proves the main properties with TLAPS.
Paths below are relative to the repository.

## 1. The system

| component | state | operations | talks to |
|---|---|---|---|
| connection threads: `GenericTcpServer`, `RequestHandler.manage`/`handle` | one thread per connection; one handler object shared by all | receive a request, handle it, send the answer | everything below, by plain calls, mostly without locks |
| protocol client: `DaemonClient`, `GenericTcpMessageHandler` | socket, read timeout, last error | send and receive; reconnect | the connection threads |
| web application: `sinatra/server.rb`, `www-lib/functions.rb` | a session id in a cookie | check the session, then make calls | one `DaemonClient` per web request |
| authentication: `Authentication.rb` | accounts, sessions, password file | log in, log out, check a session, audit; `adduser`, `deluser` | connection threads; other processes through the file |
| torrents: `RasterbarLibtorrentRequestHandler` | `.torrent` files, libtorrent session, `@torrentInfo`, threads per torrent | fetch, add, delete, pause, magnet links, load at start | libtorrent, the file system |
| usage tracker: `UsageTracker.rb` | daily and monthly buckets, an adjustment, two Mongo documents | update, save, load | the usage thread (every ten seconds), libtorrent's counters, Mongo |
| usage limits and alarms: `checkLimits` | the last usage, the alarms | compare with the limits, pause or resume all torrents, raise or lower an alarm | the session's handles, at the same time as users' requests |
| traffic graph: `TimeSampleHolder.rb`, `GraphDataThread` | generations of samples | add a sample, compact | one thread per torrent; graph requests, under a mutex |
| seeding stop: `SeedingStopThread` | one thread per torrent | pause after a time of seeding | the torrent's handle |
| other requests | caches, alerts | files, downloads, TV shows, file system, alerts | the file system |
| browser pages: `www/code.js` | lists, pages, selections, messages, alarms, an overlay with tabs and a graph; timers | poll, apply answers, turn pages, act, display | the web application, through `Ajax.Request` |
| script of the pages: `www/prototype.js` | requests, responders, a counter of active requests, periodical updaters; arrays, hashes, forms | make requests, call back; enumerate, serialize | the web application |

What is hard in it:

* **Concurrency.**  All connections share one handler object; only sessions,
  the usage tracker and the samples have a mutex.  Looking a torrent up and
  acting on it are separate steps; the accounts are reloaded in place; the
  limit check loops over handles that users toggle and delete.
* **Crashes.**  The daemon can stop at any point: between the removes and
  inserts of the two usage documents, between the session, the file and the
  table of a deletion, between running a request and answering it.
* **Time-outs.**  A call that times out keeps its connection, and its answer; an
  answer that begins and does not go on is waited for without a timeout.
* **Order of answers.**  The pages poll on timers without waiting for the last
  answer, and what an answer is applied to may have changed meanwhile: the page
  was turned, another directory clicked, another torrent's details opened, a
  graph is still being drawn.  Exceptions of handlers are swallowed.
* **Numbers.**  Crossing limits with strict comparisons; the calendar; counters
  that start from zero at each start of the daemon; halving of samples.

What makes each part correct: a byte is charged to one day and one month, once,
across restarts (usage tracker); above a limit nothing runs against the users'
will, within it nothing is held back, and both are noticed (limits); a call is
executed at most once, in order, after the session check, and none waits for ever
for an answer that does not begin (protocol); a login is judged by the file
(authentication); the four places a torrent is kept in agree (torrents); samples
stay in order and in bounds (graph); what a page shows is of one answer, what it
acts on is what it shows, and it catches up with the daemon (pages); callbacks
come once and in order, and parameters arrive as they were given (script of the
pages).

## 2. Modules

| module | models | run | proofs |
|---|---|---|---|
| `UsageTracker` | `daemon/UsageTracker.rb` and the round of its thread | `UsageTracker` (through `MCUsageTracker`) | `Usage_proofs` |
| `UsageLedger` | what the tracker promises of one period type, abstractly | implemented by `UsageTracker` | |
| `UsageLimits` | `checkLimits`, the alarms, and what else pauses and resumes | `UsageLimits` (through `MCUsageLimits`) | `Usage_proofs` |
| `DaemonProtocol` | one web request's calls over one connection after another | `DaemonProtocol` | `WebRequest_proofs` |
| `Authentication` | logins, sessions and the password file | `Authentication` (through `MCAuthentication`) | `Authentication_proofs` |
| `TorrentRegistry` | fetch, add, delete and load torrents, magnet links | `TorrentRegistry` (through `MCTorrentRegistry`) | `TorrentRegistry_proofs` |
| `TimeSampleHolder` | samples and the graph data thread | `TimeSampleHolder` | `TrafficGraph_proofs` |
| `PageHandler` | the class of this name in `www/code.js` | in the two below | |
| `TorrentsPage` | the page with the torrents, and the web application's part of it | `TorrentsPage` (through `MCTorrentsPage`) | `TorrentsPage_proofs` |
| `FilesPage` | the page with the files, and the daemon's listing and deletion | `FilesPage` (through `MCFilesPage`) | `FilesPage_proofs` |
| `TorrentOverlay` | the overlay: details, tabs, the graph in two elements | `TorrentOverlay` | `TrafficGraph_proofs` |
| `MessageDisplay` | notices, alarms, the status line, the download form | `MessageDisplay` (through `MCMessageDisplay`) | `MessageDisplay_proofs` |
| `Enumerable` | arrays, ranges and hashes of `www/prototype.js` | in the modules below | |
| `Form` | query strings and form serialization of `www/prototype.js` | in `Collections` | |
| `Collections` | any list, hash and form, for the laws of the two above | `Collections` (through `MCCollections`) | `WebRequest_proofs` |
| `AjaxRequest` | `Ajax.Request` and `Ajax.Responders` | in `PeriodicalUpdater` | `WebRequest_proofs` |
| `PeriodicalUpdater` | `Ajax.Updater` and `Ajax.PeriodicalUpdater` on top of it | `AjaxRequest` (through `MCAjaxRequest`) | `WebRequest_proofs` |

`UsageTracker` and `UsageLimits` are two halves of one thread: the first ends
where the second's action `Update` begins, and the second sees the first only
as "the current buckets grow by the same amount, or begin anew", which is what
`Contiguous` and the ledger say of it.  `DaemonProtocol` carries the requests
that the handlers of the other modules execute: an action such as `DelFinds`
or `Open` is the beginning of a `Handle` there.  The four modules of the pages
see the daemon as a snapshot that others change, and requests as what
`AjaxRequest` makes of them: an answer is handled once, fails, or is lost;
requests are not ordered among one another.

A definition whose name follows the comment "Mutant" is not part of a
specification: it is a plausible bug in the definition below it, kept to show
that a property would notice it.  `PROJECT.json` pairs them, and maps every
definition to the lines it translates.

Components that work for one thing share a module of proofs: the two halves of
the usage thread (`Usage_proofs`), the two legs of a web request and the
parameters it carries (`WebRequest_proofs`), the traffic graph from its samples
to its drawing (`TrafficGraph_proofs`).  That is why names such as `LimitsInit`
or `HolderSpec` say which component they are of.

What the code computes by recursion or by a loop (`Resolve` of a path,
`Compact` of the generations, `inject` of prototype.js) is written as a recursive
function, which the provers can unfold, unlike a `RECURSIVE` operator.

### UsageTracker

One action per call that can be separated from the next by a stop or a failure:
`UpdateDaily` and `UpdateMonthly` (`UsageTracker#update`), the two removes and
the two inserts of `saveBucketsToMongo`, `MongoFails` (a call raises; the loop's
rescue ends the round), `Stop` (anywhere) and `Start` (the constructor's
connection to Mongo, without which the daemon goes on if it cannot be made, and
`loadBucketsFromMongo`).  So `haveMongo` is decided anew at each start.
`Tick` and `Transfer` are the clock and libtorrent.  `Rolled`, `Shifted` and
`SetValue` are the three parts of `PeriodicBuckets#update`.

Time is counted in days on a calendar whose months all have `DaysInMonth` days;
`Time.new > criteriaData`, with `criteriaData` at midnight, is `now >= ` on
days.  Label and reset date are numbers.

`UsageLedger` is a ledger with one copy of itself.  It may lose the copy while it
saves, because the code removes a document before it inserts the new one, and
after a restart it goes on from the copy or, detached from it, begins again: the
code prevents neither.  What is left to promise is that the copy is always
the whole ledger of one moment, that a restart never goes on from half of it, and
that every amount is charged once and to the newest entry.  `astray` is a history
variable for the one exception: a monthly document that is found without a daily
one, whose next charge may be negative.

### UsageLimits

The thread's `Update` lets the tracker's buckets grow; `UpdateFails` is the same
with an exception at its end, from the save to Mongo, which skips the check.
`Check` decides; `PauseNext` and `ResumeNext` visit one handle at a time;
`RaiseAlarm` and `LowerAlarm` end the check and remember the usage; `CheckFails`
is an exception on the way.  Failures and restarts are not bounded.
`PauseRequestTests` and `PauseRequestActs` are the two halves of a user's
toggle; `Add`, `Delete`, `StopSeeding`, `Restart` and `Constructed` (the
constructor's last line, which runs after the thread was started) the rest.
`userResumed`, `heldBack`, `cutShort` and `failing` are history variables that
say what the properties excuse: torrents a user took into his own hands, rounds
that raised half way, and the time after a failure or a restart until a round is
completed.  A request that was decided before the thread paused the torrents,
and resumes one afterwards, counts as a user's.

### DaemonProtocol

The client's side is `sendAndRecv` cut at its waits: `Send`, `ReadLen`,
`ReadData`, and the ways out of a wait, `Timeout`, `EndOfStream` and `Truncated`
(the connection ends within a length or an object); the daemon's
side is `Recv`, `Handle`, `SendLen`, `SendData`, with `Exit` and `Start` of the
process.  Calls are numbered so that a property can say which call an answer was
made for; the code has no such number.  What the daemon sends is read as it
arrives, in parts (`Arrive`, `arrived`): the timeout is that of the two calls of
`select`, which return at the first byte, while the reads that follow wait for all
the bytes they want.  `garbled` says that a timeout fell
between a length and its object, so that the client will take the object for
a length: what it then reads is not modelled further than that it may block or
end in an exception.  A handler that raises answers with the value of the rescue
clause, which is not a response: the client's own rescue makes a failure of it.

### Authentication

`Open`, `Load` (one line), `Loaded` and `Lookup` are the steps of `authorize`
that other connections can get between; `StartSession` or `Reject` ends the
request.  `AddAccount` and `DelAccount` are the scripts, one step each: a line
is appended to the file, which a handler that is reading it will come to as well;
a copy without the login's line is moved over the file, and a handler that has
the old one open goes on reading that (`replaced`).  `lines` is what a handler has
still to read, and the history variable `snapshot` all it has to read.  The
audit runs when it is due (`Tick` waits for it): its delay of ten seconds is far
shorter than the hour of a session, the assumption `AuditDelay < SessionLife`.

### TorrentRegistry

A handler's request is cut at each call that touches a shared place: `AddFinds`,
`AddAdds`, `AddAdjusts`; `DelFinds`, `DelRemoves`, `DelRms`, `DelForgets`.
`GetTorrent` writes a file; `Restart` loads the directory, in any order.
Torrents are info hashes, with names that need not be unique, because the table
is by name and the session by hash.  The threads of an info are represented by
`watcher`, the id of the info of whose threads at least one runs: they end when
the info is stopped or the handle becomes invalid, and by themselves at any time
(`ThreadsEnd`), the seeding thread after it has paused its torrent, the graph
thread when a sample cannot be added; nothing starts them again.  A magnet link
is added to the session at once (`GetMagnet`), and a thread of its own waits for
its metadata: `LinkReady` is the end of its loop, `LinkAdjusts` what it does
then, `LinkGivesUp` the removal after ten minutes.  Its info has the file name
`LinkFile` (`"Magnet File"` in the code), of which there is no file, so that a
restart does not bring the torrent back.  The session is taken to refuse a
torrent it has, by file or by link, as the comment at `requesthandler.rb:1246`
says and the wrapper's `rb_raise` allows; so one thread waits for each torrent.
Temporary names are left out: torrents are found by info hash.  `mixed` is a
history variable: the torrents whose name, file or requests got in another's
way; the properties say nothing of these.

### TimeSampleHolder

A sample is the interval of measurements it stands for, so that order and
overlap are visible.  `CompactGen`, `Compact` and `AddSample` are the methods of
these names.  The class of samples is a parameter, because the daemon's own
class lacks the method that averaging calls: with it the holder never gets past
its first compaction (`AddRaises`).

### TorrentsPage and PageHandler

The script of a page runs one handler at a time, so a handler is one action:
`Poll` (the timer), `ReceiveList`, `ReceiveFailure` and `ReceiveNothing` (the
ways an answer ends), `NextPage`, `PrevPage`, `Toggle` (a checkbox), `Modify`
and what comes back from it.  `Answer` and `ModifyDone` are the web application
with the daemon.  Every one of the page's handlers ends in `UpdateTorrents`,
the function that brings the table, the page label and the status line up to
the list.  The table is a set of rows by name, as `updateTable` keeps it;
torrents of one name share a row.  Names are numbers, for their order only.
`Sorted` has all lists a sort may give: the order of equals is open.
`marked` is a history variable: what the user checked and has not lost sight of.

### FilesPage

A path is a sequence of names; `Resolve` follows it as the daemon does, ".."
and the way out of the data directory included, and `Listing` is what it
answers.  `cd` is the directory of the next request: `Click` moves it at once,
and the answer moves it again when it arrives, in the order of the code.
`clicked` is a history variable, the directories clicked since the last answer;
`modify` remembers which title the user saw when he asked for a deletion.  Names
with a plus sign are encoded twice in the links: `LocalEncodeURI` makes of them
the name `Mangled`, which no file has.

### TorrentOverlay

`TorrentDetailsClicked`, `TabClicked` and `HideOverlay` are the user;
`TimerUpdates` and `TimerEnds` one chain of timers, of which each click starts
another; `LoadOverlayContents`, `AddAlertsToOverlay` and `RequestFails` the ends
of requests; `GraphDrawn` and `GraphLost` those of a drawing.  What is visible
is kept apart for each element, because the code sets each on its own:
`SetVisible` and `Swap` are the methods of `DoubleBuffer`.  A drawing whose
element was drawn to again in the meantime is no longer `placed`.  `lastDrawn`
is a history variable.

### MessageDisplay

`Put`, `Drop` and `RemoveExpired` are the methods of the message display, with
the table and the registered messages kept apart as in the code; a message has
an age, or stays forever.  Alarms, usage and disk are asked for by one request
each (`Ask`, `Answer`, `AnswerFails`, `Lost`, `ReceiveAlarms`, `ReceiveInfo`).
The download form (`Type`, `DownloadFromForm`, `DownloadEnds`) is the source of
the one message whose text changes.

### Enumerable, Form and Collections

The functions of `www/prototype.js` that the pages rely on (and those these are
made of), as operators on sequences and on lists of pairs.  What the script does
at an edge is kept: null and undefined are one value to some functions and two
to others; a `lastIndexOf` that starts beyond the array gives a shifted index;
the last slice is shorter; a parameter without a value, or with the empty key; a
list of several options in a form.  The state of `Collections` is one list, one
hash and one form: `Push` makes every list, `Store`, `Unset` and `Merge` every
history of a hash, and the laws compare the functions with what they are for in
every state.  What a query string carries is what the script's own
`toQueryParams` reads of it; the parser of the web application is a library's,
and not modelled.

### AjaxRequest and PeriodicalUpdater

`Request` is the constructor, `Loading` the deferred event, `ReadyStateChange`
the transport's; what is called is recorded in `calls`.  Every callback and
every call of the transport may throw: a request is made with a set of `faults`,
and the code's own `try` clauses decide how far it then gets.  `StartUpdater`,
`Timer`, `UpdateComplete` and `Stop` are `Ajax.PeriodicalUpdater`; `StopInside`
is a stop called by a script in the inserted content.

## 3. What is checked

Every property is stated in natural language above its definition.  In short:

* **UsageTracker** (1.3 million states).  `Contiguous`: a bucket begins
  where the one before ended, in memory and in Mongo.  `Agreement`: days and
  months account for the same usage, and two saved documents are of the same
  update, which is what makes the one adjustment right for both.
  `OneBucketPerMonth`: December is the month that is reset more than once, and the
  only one.  `Ledgers`: each period type implements `UsageLedger`, in which every
  amount is charged to the newest entry and old entries never change, through
  starts with and without Mongo and saves cut anywhere.  Bounds: months of two days,
  years of two months, six days (three months: a December and the January after
  it), two buckets, one byte per session, two stops.  These reach a new year, a
  shift, a restart on another day, a second restart on damaged documents, and
  every place a save can be cut; the operators on buckets depend on no further
  size.
* **UsageLimits** (809 thousand states).  `AlarmWhileAbove`, `PausedWhileAbove`,
  `NoneHeldBack`: what holds after a check that found usage above, or within,
  the limits.  `AlarmsLag`: which alarms are up although their limit is
  respected; the monthly one, once raised, until the daemon restarts.
  `LimitsAreNoticed`: once failures and restarts have ended, usage that stays
  above, or within, the limits is acted on.  While every save fails, none is: the
  check is skipped.  Bounds: two torrents, both limits 1, buckets up to 2 (below,
  at and above the limit, and jumps over it); failures and restarts are unbounded.
* **DaemonProtocol** (103 thousand states).  `ExecutedOnceInOrder`,
  `OnlyWithValidSession`; `AnswersLagByTimeouts` says exactly how wrong the
  answers are: as many calls behind as calls have timed out on the connection.
  `EveryCallReturns`: a call that never returns hangs in one of the two reads that
  have no timeout, after some bytes have come; no wait for the first byte is for
  ever.  Bounds: four calls, two exits; a timeout, the answer
  it displaces, a reconnection and a call after it all fit.
* **Authentication** (1.3 million states up to symmetry).  `LoginCorrect`: a
  login is decided by the file that was opened, as it was when its end was read,
  unless another login reloads the table in between.  `NoSessionLost`.  Bounds:
  two connections, two users, two passwords, one sid, two changes of the file, a
  life of two units.
* **TorrentRegistry** (1.7 million states up to symmetry).  `Managed`: a torrent
  of the session has its info and its file, and is watched by that info's
  threads or by none; that they go on is not claimed.  `DeletedIsGone`: what was
  deleted does not come back at a restart.  Bounds: two connections, three
  torrents of which two have one name and the third has a magnet link, two
  files, two additions between starts.  The constraint `SomeAreNotMixed` cuts
  states in which all torrents are `mixed`: these stay so, and the properties
  then hold trivially.  The constraint on actions `MixedAreWatched` leaves out
  that the threads of a mixed torrent end: no other step depends on them, and no
  property speaks of them.  `DeletedIsGone` begins when the file is removed: a
  daemon that stops before that has not answered the deletion, and loads the
  torrent again.
* **TimeSampleHolder** (5 thousand states, deterministic).  `SamplesAreKept`: in
  order, without overlap, the last measurement as it is, and at least a third of
  the limit once it was reached.  `CountLagsByLoneMoves`; `SamplingEndsAtLimit`:
  which thread dies, and when.  Twelve limits (the daemon's 100 among them) and
  400 measurements, many compactions each.
* **TorrentsPage** (59 thousand states).  `ScreenShowsOneList`: table, label and
  status line are of one list.  `SelectedIsMarked`: an operation acts on the
  names the user checked.  `ListCatchesUp`: liveness.  Bounds: three torrents,
  two of one name, two of them in a page, two requests under way, two events;
  a page that empties, a torrent that returns and overtaking answers all fit.
* **FilesPage** (57 thousand states).  `PageActsOnDirShown`: links and deletions
  are of the directory in the title, unless a click is unanswered.
  `FilesCatchUpOrStuck`: liveness, and the one way out of it.  Bounds: a
  directory in the data directory, two files, one with a plus sign, two requests,
  two clicks, one event.
* **TorrentOverlay** (463 thousand states).  `OnlyOpenTabShows`,
  `ShowsLastFinishedGraph` up to the first overlap of drawings, `DetailsCatchUp`.
  Bounds: two torrents, two tabs, two of each kind of request, two chains of
  timers, two drawings (the overlap needs no more), one failure.
* **MessageDisplay** (102 thousand states).  `RowsAreMessages`: one row for each
  registered message.  `StatusCatchesUp`, `NoticesDisappear`: liveness.  Bounds:
  one notice, one alarm, one cell, three requests (two of them for alarms), one
  event; a timeout of one unit, so that notices meet at every age.
* **AjaxRequest** (1.5 million states up to symmetry).  `ActiveCount`: which
  requests the counter counts, those it never stops counting included.
  `RespondersAgree`, `CallbacksInOrder`, `UpdaterGoesOn`.  Bounds: two requests
  with a transport that cannot be made or opened, a callback of the outcome or
  of the completion that throws, or a header that is no JSON, some of them with
  an `onException` that throws as well (the theorems are about any set of the
  faults that the model names, those in sending and in an evaluated script too);
  one event of partial data, a responder registered or unregistered twice.
* **Collections** (60 thousand states).  `ArrayLaws` (tests and the order they
  keep, slices, searches, sets, pairs, numbers), `HashLaws`, `FormLaws`.
  Bounds: lists of up to four of three numbers, two keys besides the empty one,
  forms of up to three elements of every kind: empty, single and repeated
  elements, and a slice that does not come out even.

In these places the repository says one thing and the code does another.  The last
column names the property that states what the code does, where there is one:

| module | what the repository says | what happens | property |
|---|---|---|---|
| `UsageTracker` | the usage resets on one day of the month | in December it resets at every update | `OneBucketPerMonth` |
| `UsageLimits` | a lowered or raised alarm tells whether the condition is present | the monthly alarm is never lowered | `AlarmsLag` |
| `DaemonProtocol` | the response is passed on if it was received, else false | after a timeout, the late response answers the next request | `AnswersLagByTimeouts` |
| `Authentication` | expired sessions are removed periodically | they are looked for once, before any can have expired | `NoSessionLost` |
| `TorrentRegistry` | a torrent is not added when it is in the session | two connections can both find it absent | none: both get to `AddAdds` |
| `TimeSampleHolder` | at the limit, every second sample is removed | the sampling thread ends | `SamplingEndsAtLimit` |
| `FilesPage` | the first page is shown when the directory has changed | not after a click: the directory has changed before the answer is there (`www/code.js:1734`) | none: the order of assignments in `Click` and `ReceiveList` |
| `FilesPage` | the plus sign is handled properly | it is encoded twice, and the link leads nowhere (`www/code.js:1309`) | `PageActsOnDirShown` |
| `TorrentOverlay` | the next draw is done to the hidden element | if drawings overlap, it is done to the one that becomes visible (`www/code.js:1380`) | `ShowsLastFinishedGraph`, up to the first overlap only |

`OneBucketPerMonth`, `AlarmsLag`, `AnswersLagByTimeouts`, `SamplingEndsAtLimit` and
`PageActsOnDirShown` would fail if the code did what is said in their rows.
`NoSessionLost` says when a session may go; a further audit that did no more than
remove one expired session could not be told from a logout.
`ShowsLastFinishedGraph` would hold all the same if drawings could not overlap.

And these are exceptions that the properties of the page's script name:
`activeRequestCount` stays too high when `onComplete` throws, or when
`onException` throws while it is told of an earlier exception; an updater stopped
by the content it inserts goes on; an array of a list of several is nested in
another when a name occurs again in a form; a page whose directory was deleted
asks for it until it is loaded anew.

Deadlock is checked everywhere except in `DaemonProtocol`, whose web request
ends, `TimeSampleHolder`, whose thread may end and whose measurements are
bounded, and `AjaxRequest`, whose requests are used up.

### Fairness

* `UsageLimits!FairLimitsSpec`: weak fairness of the thread's steps (a loop that
  sleeps ten seconds and rescues every exception), whether they fail or not, and
  of the constructor.  Nothing is assumed of users.  That failures and restarts
  end is the hypothesis of `LimitsAreNoticed`, not fairness.
* `DaemonProtocol!FairSpec`: weak fairness of the client's own steps only: it reads
  what has arrived, and its waits for the first byte have a timeout.  Nothing is
  assumed of the daemon, nor that what it sends arrives (`Arrive`), nor that a
  blocked read ends (`GarbageEnds`, `Truncated`).
* `TorrentsPage!Fairness`, `FilesPage!Fairness`: each request for the list goes
  through its steps, again and again: the timer is set anew before each request
  is made, so that no answer can end the polling, and a browser ends every
  request in an answer, a failure or without either.  Which one is left open.
* `TorrentOverlay!Fairness`: timers fire, answers and drawings end.  Nothing is
  assumed of the user; that failures are few is the bound `MaxEvents`.
* `MessageDisplay!Fairness`: time passes, the timer that removes expired
  messages fires, and the status line's requests go through their steps.

The others need no fairness: their properties are invariants and properties of
steps.

## 4. What is proved

For all values of the constants, from the named assumptions of each module
(types of the constants, `ResetDay \in 1..DaysInMonth`, limits that are natural
numbers, values such as `Null` that are unlike all others), TLAPS checks:

* `Usage_proofs`, of the tracker: `TypeOK`, `Contiguous` and `Agreement` are
  invariants.  None is inductive alone.  That the daily and the monthly buckets
  account for the same usage at the end of a round needs what each step has
  brought up to date (`RoundOK`); that documents agree needs which of them are
  missing at each step of a save (`SaveOK`): an insert of the second document
  finds the first inserted in the same round, because both were removed before.
  The facts about rolling, shifting and setting are lemmas about sequences, used
  once per period type.  `OneBucketPerMonth` needs the calendar (`MonthsInv`):
  no bucket is of a month still to come, and a bucket is reset in a later month
  than its own, so that the next one has another label, exactly if it is not a
  December's.  `Ledgers`, the implementation of `UsageLedger` by both period
  types, is proved step by step: every step of the tracker is a step of the
  ledger or leaves it as it is.  For that the counter that is reported next must
  never be below the sum of the buckets (`LedgerInv`), except for monthly
  buckets that were loaded alone (`astray`); nothing is excused of a start
  without Mongo or of a save that was cut short.
* `Usage_proofs`, of the limits: `LimitsTypeOK`, `AlarmWhileAbove`,
  `PausedWhileAbove`, `NoneHeldBack` and `AlarmsLag`.  The invariant adds
  `ThreadOK`, what the thread knows while it works through the handles: which
  are paused, or excused, or still to be visited.  `NotCrossed` and
  `CrossedBack` are the arithmetic of crossing: where no limit is crossed, what
  is above stays above.  For `AlarmsLag` the invariant is that the daily alarm
  is up only if the last check that was completed found a limit exceeded
  (`DailyAlarmOK`); that the monthly alarm stays is a fact about each step
  (`NextMonthlyAlarm`).
* `WebRequest_proofs`, of the protocol: `ExecutedOnceInOrder`,
  `OnlyWithValidSession` and `AnswersLagByTimeouts`.  The first rests on one
  order through the whole pipeline: executed, being handled, under way, made.
  The second adds that before the second call all answers under way are to the
  first, so that even an answer out of step cannot be taken for the session's.
  The third (`LagInv`) says of a connection which call the next answer is to
  (`Due`: the call being made, less the calls that have timed out on it), and
  that the lengths and objects sent, the request being handled and the requests
  under way are for that call and its successors, without a gap: so the client,
  which takes whatever comes first, falls behind by one with each timeout and
  never catches up.
* `WebRequest_proofs`, of the page's requests: `ActiveCount`, `RespondersAgree`,
  `CallbacksInOrder` and `UpdaterGoesOn`.  Everything a handler calls is followed
  in the order of the code, each callback throwing or not, as a sequence of small
  operators (`Call`, `Dispatch`, `Respond`): a lemma for each says what it adds to
  the request's calls and to the counters.  `RequestsInv` then ties the calls a
  request has made to how far its transport has come (`Story`), so that what comes
  next is of a higher rank; `CountersInv` ties the two counters to the set of
  requests under way, of which a step adds or removes one; `UpdaterInv` ties the
  updater's timer to its last request.
* `WebRequest_proofs`, of parameters: `HashLaws`.  `HashInv` says that the pairs of
  the hash are those of `map`, one for each key.  A query string is built and
  parsed by one loop each; `FindAllSteps`, `QueryStringSteps` and their like turn
  a loop into the sequence of what it has after each value, and the proof goes
  along that sequence: after so many pairs, what has been read are the values of
  these pairs (`HashCarried`).
* `WebRequest_proofs`, of forms: `FormLaws`, for any forms of the kinds of
  controls that are modelled (`FormsAssumption`: a field has one text, the texts
  of a list differ, and a list of one has at most one selected) and any texts
  but the values that stand for null and for no text (`TextsAssumption`).
  `FormInv` says that a form stays a sequence of such controls.  The controls
  are followed one by one through both passes over them (`FormFollows`): after
  each, the hash gives under every name (`Gives`) the texts offered for it so
  far, which is one text as long as there is one and an array after that, and
  `submitted` says whether a submit button has been sent.  An array that is
  pushed ends that, so `Nested` forms are excepted, as in the property.  What
  the hash gives is what is read back (`HashCarried`, of any hash).
* `WebRequest_proofs`, of arrays: all parts of `ArrayLaws` but one, each a theorem
  of its own, for any values, any numbers and any bound on the length.  The
  invariant is that an array holds values (`ArrayInv`).  What a function of the
  script builds in a loop is the last of the sequence of what it has after each
  value, and the proof goes along that sequence (`PartitionIs`, `UniqIs`, `MaxIs`).
  A range is a recursive function: a function that solves its equation is shown,
  and then it is that one (`RangeIs`).  Which slice a value is in is found by
  division (`SlicesAre`).  `NumbersAssumption` says that the value that stands for
  undefined is no number.
* `Authentication_proofs`: `LoginCorrect` and `NoSessionLost`.  While a handler
  that nobody disturbs loads the file, what the lines that are left say, and the
  table where they say nothing, is what the whole file says (`LoadsSnapshot`),
  also when a line is appended to both (`PasswordOfAppend`).  That the last line
  of a login counts needs the greatest element of a set of line numbers, which
  the library gives as the least of a well-founded relation.  Of sessions more
  is proved than is checked (`SessionsEndByLogout`): the audit runs once, before
  the first session can expire, so it ends none, and no session ever ends by
  itself.
* `TorrentRegistry_proofs`: `Managed` and `DeletedIsGone`.  The invariant says of
  every torrent that is not mixed (`Clear`) what the handlers and the waiting
  threads that work on it have done so far, that only it uses its file and its
  name, and that at most one of them is at a step that only one may be at.  Most
  steps are about another torrent, of which a lemma (`UntouchedStaysClear`) shows
  that nothing changes; each action's lemma then treats the torrent it is about.
* `TorrentsPage_proofs`: `TypeOK`, `ScreenShowsOneList` and `SelectedIsMarked`.
  The lemmas are about `UpdateTable`: whatever rows it is given, if there is one
  for each name then there is one for each name of the new page, with the state
  of a torrent of that name, and a kept row keeps its check.  Every handler ends
  in it, so a step is either an instance of the lemmas or leaves list, page and
  table as they are.
* `TrafficGraph_proofs`, of the overlay: `TypeOK`, `OnlyOpenTabShows` and
  `ShowsLastFinishedGraph`.  For the second the invariant relates the widget,
  the tabs and the buffer (`VisibleInv`): `Swap` shows the new element exactly
  when the buffer is visible.  For the third it adds that, while no drawings
  have overlapped, the only drawing under way goes to the hidden element and is
  still in its place (`DrawnInv`).
* `TrafficGraph_proofs`, of the samples: `SamplesAreKept`, `CountLagsByLoneMoves`
  and `SamplingEndsAtLimit`, for every limit and any number of measurements.
  The invariant (`HolderInv`) is that all samples are in the youngest and the
  oldest generation, in order within each and the old before the young.  A
  compaction moves the young through the generations between, one by one, and
  what it moves is either one sample or at most half (`CompactGenDoes`); at
  the end the oldest generation is halved if it is too long, so that what is left
  is still a third of the limit (`HalfIsEnough`).
* `FilesPage_proofs`: `PageActsOnDirShown`, for any tree of directories.  The lemmas
  are about `Resolve`: a name, the way back and the way out of the data directory.
  The invariant adds what holds on the way to the page: an answer that arrives is
  the listing of a directory that is known, the page's rows and its title are of one
  answer, and the links lead from the title (`Shown`, `AnswersKnown`, `RowsLead`).
* `MessageDisplay_proofs`: `TypeOK` and `RowsAreMessages`, from lemmas about
  `Put` and `Drop`, of a set of messages at a time: a message is put into both
  the table and the register, replacing what has its id in both.

Only model-checked: the liveness properties (`LimitsAreNoticed`,
`EveryCallReturns`, `ListCatchesUp`, `FilesCatchUpOrStuck`, `DetailsCatchUp`,
`StatusCatchesUp`, `NoticesDisappear`), because fairness and what is enabled are
out of the prover's reach; and of `ArrayLaws` the part `KeepsOrder`, which
compares functions of the script with `SelectSeq` and with a sorted sequence of
the library: of these two the provers have neither the definition nor a fact to
cite.  `ArrayLaws` as a whole is therefore no theorem.  No theorem of induction
is used: where a loop or a recursion must be followed, a set of numbers that has
0, and with each number the next one, has them all because the least one missing
cannot exist (`LeastNumber`, `Reached`).

## 5. Plan

In this order:

1. Proofs: `KeepsOrder`, of `ArrayLaws`, from facts about sorted sequences.
2. `TemporaryNames`: the names shared by handlers and the threads that wait for
   metadata (unique while in use, and given back); the alerts' lists.
3. `FileStream`: a download on the connection of the messages, with a file that
   grows or shrinks meanwhile, and messages after it.
4. `ShowRanges`: `createRanges` against a reference definition (the ranges cover
   exactly the episodes; no two touch), for all small sets of episodes.
5. The cached file system information; how long a torrent has been seeding.
6. `deluser` in steps.

## 6. Not modelled

Torrent listing and formatting (no state), the parsing of TV show names (text),
configuration, options and logging, the command-line client (one call), the
templates, packaging, the test doubles and the libtorrent wrapper.  Of
`prototype.js`, classes, DOM elements, selectors, events, templates and layout:
they change the document of a browser, whose behaviour is not in the repository.
`dygraph-combined.js` is a single line of minified code that draws; from its use
`TorrentOverlay` takes that a drawing ends some time after it began, or never.
Of the pages, styles, icons, progress bars and the texts of cells, and the pages
for settings and TV shows.  libtorrent is taken as the daemon relies on it: a set
of torrents by info hash, handles that become invalid when their torrent is
removed, and counters that start from zero.
