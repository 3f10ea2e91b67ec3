--------------------------- MODULE PeriodicalUpdater ---------------------------
(***************************************************************************)
(* Ajax.Updater and Ajax.PeriodicalUpdater of www/prototype.js, on top of  *)
(* AjaxRequest: each answer is put into the page and sets the timer for    *)
(* the next request, until the updater is stopped.  The page makes other   *)
(* requests at the same time.  How long the timer waits is left out.       *)
(***************************************************************************)
EXTENDS AjaxRequest

VARIABLES running,  \* the updater was started, and not stopped since
          timers,   \* the requests whose timers are still to come
          timer,    \* this.timer: the one that was set last
          updater,  \* this.updater: the request that was made last
          updaters, \* the requests whose onComplete goes on with the updater
          inside    \* history: the updater was stopped by what it put into the page

updating == <<running, timers, timer, updater, updaters, inside>>

-----------------------------------------------------------------------------
UpdaterInit ==
    /\ AjaxInit
    /\ running = FALSE
    /\ timers = {} /\ timer = Null
    /\ updater = Null
    /\ updaters = {}
    /\ inside = FALSE

\* onTimerEvent makes a request; where onException throws, the constructor does.
OnTimerEvent(r) ==
    /\ Request(r)
    /\ updaters' = updaters \union {r}
    /\ LET faults == requests'[r].faults
       IN  updater' = IF "exception" \in faults /\ faults \intersect {"create", "open", "send"} # {}
                      THEN updater ELSE r

\* start.
StartUpdater(r) ==
    /\ ~ running
    /\ running' = TRUE
    /\ OnTimerEvent(r)
    /\ UNCHANGED <<timers, timer, inside>>

\* The timer that a complete request set has run out.
Timer(r) ==
    /\ \E set \in timers : timers' = timers \ {set}
    /\ OnTimerEvent(r)
    /\ UNCHANGED <<running, timer, inside>>

\* A handler of the transport has put the answer into the page: onComplete does so, and goes
\* on unless that throws.
Completed(r) ==
    /\ Occurrences(requests'[r], {"Complete"}) # Occurrences(requests[r], {"Complete"})
    /\ "complete" \notin requests[r].faults

\* updateComplete sets the timer.
UpdateComplete(r) ==
    /\ Loading(r) \/ ReadyStateChange(r)
    /\ IF r \in updaters /\ Completed(r) THEN timers' = timers \union {r} /\ timer' = r
       ELSE UNCHANGED <<timers, timer>>
    /\ UNCHANGED <<running, updater, updaters, inside>>

\* Mutant: only the timer is stopped.
StopTimer ==
    /\ running
    /\ running' = FALSE
    /\ timers' = timers \ {timer}
    /\ UNCHANGED <<ajaxVars, timer, updater, updaters, inside>>

\* stop: the request under way loses its onComplete, and the timer is cleared.
Stop ==
    /\ running /\ updater # Null
    /\ running' = FALSE
    /\ requests' = IF requests[updater].complete THEN requests
                   ELSE [requests EXCEPT ![updater].faults = @ \ {"complete"}]
    /\ updaters' = updaters \ {updater}
    /\ timers' = timers \ {timer}
    /\ UNCHANGED <<responders, activeRequestCount, watched, countBefore, registrations,
                   timer, updater, inside>>

\* The content that is put into the page calls stop: updateComplete is run all the same.
StopInside(r) ==
    /\ r = updater /\ r \in updaters /\ running
    /\ ReadyStateChange(r)
    /\ Completed(r)
    /\ running' = FALSE
    /\ timers' = (timers \ {timer}) \union {r}
    /\ timer' = r
    /\ inside' = TRUE
    /\ updaters' = updaters \ {r}
    /\ UNCHANGED updater

UpdaterNext ==
    \/ \E r \in Requests :
          \/ Request(r) /\ UNCHANGED updating
          \/ StartUpdater(r) \/ Timer(r)
          \/ UpdateComplete(r) \/ StopInside(r)
    \/ Stop
    \/ (Register \/ Unregister) /\ UNCHANGED updating

UpdaterSpec == UpdaterInit /\ [][UpdaterNext]_<<ajaxVars, updating>>

-----------------------------------------------------------------------------
UnderWay(r) == requests[r].sent /\ requests[r].readyState < 4

\* An updater that runs has one timer or one request under way, never both, unless a request of
\* its broke; a stopped one has none, unless it was stopped while it put an answer into the
\* page: then it goes on (stop, updateComplete, onTimerEvent).
UpdaterGoesOn ==
    ~ inside =>
      LET pending == Cardinality(timers) + Cardinality({r \in updaters : UnderWay(r)})
      IN  /\ pending <= 1
          /\ running /\ (\A r \in updaters : requests[r].faults = {}) => pending = 1
          /\ ~ running => pending = 0
=============================================================================
