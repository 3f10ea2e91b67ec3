----------------------------- MODULE UsageLimits -----------------------------
(***************************************************************************)
(* The usage tracking thread of daemon/requesthandler.rb enforcing the     *)
(* daily and monthly limits, against everything that runs beside it in the *)
(* daemon: the constructor that started it, the handlers of user requests  *)
(* that toggle, add and delete torrents, the threads that stop seeding,    *)
(* failing calls and restarts.  No lock is shared between them: the        *)
(* thread's mutex only guards the tracker.  The tracker is seen through    *)
(* the value of its current buckets (module UsageTracker has the rest).    *)
(***************************************************************************)
EXTENDS Integers

CONSTANTS
    Torrents,
    Limited,     \* the period types whose limit is configured (not nil)
    Limit,       \* dailyLimit, monthlyLimit
    MaxBucket    \* bound of the model: the most a bucket may hold

PeriodTypes == {"daily", "monthly"}

ASSUME LimitAssumption ==
    /\ Limited \subseteq PeriodTypes
    /\ Limit \in [PeriodTypes -> Nat]
    /\ MaxBucket \in Nat

VARIABLES
    phase,        \* where the usage tracking thread is
    tracked,      \* value of the tracker's current bucket of each period type
    lastUsage,    \* @lastUsage
    todo,         \* handles setPauseStateForAllTorrents has yet to visit
    torrents,     \* the session's torrents
    paused,       \* those that are paused
    toggling,     \* what each torrent's pause request, between its test and its act, will do
    alarms,       \* @alarms: the ids raised; NoTable until the constructor makes it
    userResumed,  \* history: resumed by a user, or added, since the thread last paused it
    heldBack,     \* history: paused by the thread and not resumed since
    cutShort,     \* history: the changes of state that failed since the last that succeeded
    failing       \* history: a failure or a restart, and no round was completed since

limitsVars == <<phase, tracked, lastUsage, todo, torrents, paused, toggling, alarms,
                userResumed, heldBack, cutShort, failing>>

threadVars == <<phase, tracked, lastUsage, todo, cutShort>>

NoTable == {"nil"}
Zero == [p \in PeriodTypes |-> 0]

-----------------------------------------------------------------------------
(* checkLimit *)

CrossedUpwards(p, last, cur) == last[p] <= Limit[p] /\ cur[p] > Limit[p]

\* Mutant: usage that falls back to exactly the limit does not cross it.
CrossedDownwardsStrictly(p, last, cur) == last[p] > Limit[p] /\ cur[p] < Limit[p]

CrossedDownwards(p, last, cur) == last[p] > Limit[p] /\ cur[p] <= Limit[p]

Crossed(last, cur) ==
    \E p \in Limited : CrossedUpwards(p, last, cur) \/ CrossedDownwards(p, last, cur)

Above(p, cur) == p \in Limited /\ cur[p] > Limit[p]

AboveAny(cur) == \E p \in PeriodTypes : Above(p, cur)

-----------------------------------------------------------------------------
LimitsInit ==
    /\ phase = "asleep"
    /\ tracked \in [PeriodTypes -> 0..MaxBucket]  \* what Mongo remembers
    /\ lastUsage = Zero
    /\ todo = {}
    /\ torrents \in SUBSET Torrents
    /\ paused = {}
    /\ toggling = [t \in Torrents |-> "none"]
    /\ alarms = NoTable
    /\ userResumed = {}
    /\ heldBack = {}
    /\ cutShort = {}
    /\ failing = FALSE

\* The last line of the constructor, which runs after it started the thread.
Constructed ==
    /\ alarms = NoTable
    /\ alarms' = {}
    /\ UNCHANGED <<threadVars, torrents, paused, toggling, userResumed, heldBack, failing>>

\* The thread's UsageTracker.update: d more bytes; the periods in R begin a new bucket.
Track ==
    /\ \E d \in 0..MaxBucket, R \in SUBSET PeriodTypes :
          /\ tracked' = [p \in PeriodTypes |-> IF p \in R THEN d ELSE tracked[p] + d]
          /\ \A p \in PeriodTypes : tracked'[p] <= MaxBucket
    /\ UNCHANGED <<lastUsage, todo, torrents, paused, toggling, alarms,
                   userResumed, heldBack, cutShort>>

Update ==
    /\ phase = "asleep"
    /\ phase' = "check"
    /\ Track
    /\ UNCHANGED failing

\* The session's status, or the save to Mongo that ends the update, raises: the buckets
\* may have changed, and the loop's rescue skips the check.
UpdateFails ==
    /\ phase = "asleep"
    /\ Track
    /\ failing' = TRUE
    /\ UNCHANGED phase

\* Mutant: the usage is remembered before the torrents are dealt with.
CheckRemembersFirst ==
    /\ phase = "check"
    /\ lastUsage' = tracked
    /\ IF Crossed(lastUsage, tracked)
       THEN /\ phase' = IF AboveAny(tracked) THEN "pausing" ELSE "unpausing"
            /\ todo' = torrents
            /\ UNCHANGED failing
       ELSE /\ phase' = "asleep"
            /\ failing' = FALSE
            /\ UNCHANGED todo
    /\ UNCHANGED <<tracked, torrents, paused, toggling, alarms,
                   userResumed, heldBack, cutShort>>

\* Mutant: only a limit that is crossed upwards is acted on.
CheckNeverResumes ==
    /\ phase = "check"
    /\ IF Crossed(lastUsage, tracked) /\ AboveAny(tracked)
       THEN /\ phase' = "pausing"
            /\ todo' = torrents
            /\ UNCHANGED <<lastUsage, failing>>
       ELSE /\ phase' = "asleep"
            /\ lastUsage' = tracked
            /\ failing' = FALSE
            /\ UNCHANGED todo
    /\ UNCHANGED <<tracked, torrents, paused, toggling, alarms,
                   userResumed, heldBack, cutShort>>

\* checkLimits up to the choice of what to do.
Check ==
    /\ phase = "check"
    /\ IF Crossed(lastUsage, tracked)
       THEN /\ phase' = IF AboveAny(tracked) THEN "pausing" ELSE "unpausing"
            /\ todo' = torrents
            /\ UNCHANGED <<lastUsage, failing>>
       ELSE /\ phase' = "asleep"
            /\ lastUsage' = tracked
            /\ failing' = FALSE
            /\ UNCHANGED todo
    /\ UNCHANGED <<tracked, torrents, paused, toggling, alarms,
                   userResumed, heldBack, cutShort>>

\* setPauseState of one handle.  Pausing a handle whose torrent was deleted under the
\* loop has no effect, or raises (CheckFails).
PauseNext(t) ==
    /\ phase = "pausing"
    /\ t \in todo
    /\ todo' = todo \ {t}
    /\ paused' = paused \cup ({t} \cap torrents)
    /\ heldBack' = heldBack \cup ({t} \cap torrents)
    /\ userResumed' = userResumed \ {t}
    /\ UNCHANGED <<phase, tracked, lastUsage, torrents, toggling, alarms, cutShort, failing>>

ResumeNext(t) ==
    /\ phase = "unpausing"
    /\ t \in todo
    /\ todo' = todo \ {t}
    /\ paused' = paused \ {t}
    /\ heldBack' = heldBack \ {t}
    /\ UNCHANGED <<phase, tracked, lastUsage, torrents, toggling, alarms, userResumed,
                   cutShort, failing>>

\* The end of checkLimits: the alarm, and @lastUsage.  raiseAlarm raises while the
\* constructor has not made the table.
Remember ==
    /\ phase' = "asleep"
    /\ lastUsage' = tracked
    /\ cutShort' = {}
    /\ failing' = FALSE
    /\ UNCHANGED <<tracked, todo, torrents, paused, toggling, userResumed, heldBack>>

\* Mutant: the daily alarm for any limit.
RaiseDailyAlarm ==
    /\ phase = "pausing" /\ todo = {} /\ alarms # NoTable
    /\ alarms' = alarms \cup {"daily"}
    /\ Remember

RaiseAlarm ==
    /\ phase = "pausing" /\ todo = {} /\ alarms # NoTable
    /\ alarms' = alarms \cup {IF Above("daily", tracked) THEN "daily" ELSE "monthly"}
    /\ Remember

\* Mutant: the alarm for the limit that is exceeded is lowered.
LowerOtherAlarm ==
    /\ phase = "unpausing" /\ todo = {} /\ alarms # NoTable
    /\ alarms' = alarms \ {IF Above("daily", tracked) THEN "daily" ELSE "monthly"}
    /\ Remember

LowerAlarm ==
    /\ phase = "unpausing" /\ todo = {} /\ alarms # NoTable
    /\ alarms' = alarms \ {IF Above("daily", tracked) THEN "monthly" ELSE "daily"}
    /\ Remember

\* A call of the check raises (it must while there is no table to raise the alarm in),
\* and the loop's rescue ends it: the torrents visited so far stay as they are, and
\* @lastUsage is not updated.
CheckFails ==
    /\ phase \in {"pausing", "unpausing"}
    /\ phase' = "asleep"
    /\ todo' = {}
    /\ cutShort' = cutShort \cup {phase}
    /\ failing' = TRUE
    /\ UNCHANGED <<tracked, lastUsage, torrents, paused, toggling, alarms, userResumed, heldBack>>

-----------------------------------------------------------------------------
(* The rest of the daemon; its handlers run once the constructor is done. *)

\* handlePauseRequest tests handle.paused? ...
PauseRequestTests(t) ==
    /\ alarms # NoTable
    /\ t \in torrents
    /\ toggling[t] = "none"
    /\ toggling' = [toggling EXCEPT ![t] = IF t \in paused THEN "resume" ELSE "pause"]
    /\ UNCHANGED <<threadVars, torrents, paused, alarms, userResumed, heldBack, failing>>

\* ... and then acts on what it saw.
PauseRequestActs(t) ==
    /\ toggling[t] # "none"
    /\ toggling' = [toggling EXCEPT ![t] = "none"]
    /\ IF toggling[t] = "resume"
       THEN /\ paused' = paused \ {t}
            /\ userResumed' = userResumed \cup ({t} \cap torrents)
            /\ heldBack' = heldBack \ {t}
       ELSE /\ paused' = paused \cup ({t} \cap torrents)
            /\ UNCHANGED <<userResumed, heldBack>>
    /\ UNCHANGED <<threadVars, torrents, alarms, failing>>

\* A torrent is added, running.
Add(t) ==
    /\ alarms # NoTable
    /\ t \notin torrents
    /\ torrents' = torrents \cup {t}
    /\ userResumed' = userResumed \cup {t}
    /\ UNCHANGED <<threadVars, paused, toggling, alarms, heldBack, failing>>

Delete(t) ==
    /\ alarms # NoTable
    /\ t \in torrents
    /\ torrents' = torrents \ {t}
    /\ paused' = paused \ {t}
    /\ userResumed' = userResumed \ {t}
    /\ heldBack' = heldBack \ {t}
    /\ UNCHANGED <<threadVars, toggling, alarms, failing>>

\* A SeedingStopThread pauses its torrent.
StopSeeding(t) ==
    /\ t \in torrents \ paused
    /\ paused' = paused \cup {t}
    /\ UNCHANGED <<threadVars, torrents, toggling, alarms, userResumed, heldBack, failing>>

\* The daemon restarts: the torrents are loaded again, running; the tracked usage is
\* what Mongo remembers, or nothing.
Restart ==
    /\ phase' = "asleep"
    /\ tracked' \in [PeriodTypes -> 0..MaxBucket]
    /\ lastUsage' = Zero
    /\ todo' = {}
    /\ paused' = {}
    /\ toggling' = [t \in Torrents |-> "none"]
    /\ alarms' = NoTable
    /\ userResumed' = {}
    /\ heldBack' = {}
    /\ cutShort' = {}
    /\ failing' = TRUE
    /\ UNCHANGED torrents

Thread ==
    \/ Update \/ UpdateFails \/ Check
    \/ \E t \in Torrents : PauseNext(t) \/ ResumeNext(t)
    \/ RaiseAlarm \/ LowerAlarm
    \/ CheckFails

Environment ==
    \/ \E t \in Torrents :
          \/ PauseRequestTests(t) \/ PauseRequestActs(t)
          \/ Add(t) \/ Delete(t) \/ StopSeeding(t)
    \/ Restart

LimitsNext == Constructed \/ Thread \/ Environment

LimitsSpec == LimitsInit /\ [][LimitsNext]_limitsVars

\* The thread keeps running its loop, whether its rounds fail or not, and the constructor
\* returns; nobody has to make a request.
FairLimitsSpec == LimitsSpec /\ WF_limitsVars(Thread) /\ WF_limitsVars(Constructed)

-----------------------------------------------------------------------------
(* Properties *)

\* The thread's variables are well typed; only torrents of the session are paused, held
\* back or resumed.
LimitsTypeOK ==
    /\ phase \in {"asleep", "check", "pausing", "unpausing"}
    /\ tracked \in [PeriodTypes -> Nat]
    /\ lastUsage \in [PeriodTypes -> Nat]
    /\ todo \in SUBSET Torrents
    /\ torrents \in SUBSET Torrents
    /\ paused \in SUBSET torrents
    /\ toggling \in [Torrents -> {"none", "pause", "resume"}]
    /\ alarms = NoTable \/ alarms \in SUBSET PeriodTypes
    /\ userResumed \in SUBSET torrents
    /\ heldBack \in SUBSET paused
    /\ cutShort \in SUBSET {"pausing", "unpausing"}
    /\ failing \in BOOLEAN

\* Whenever the last completed check found usage above a limit, the alarm that
\* checkLimits chooses for it is raised: the daily one if the daily limit is exceeded,
\* the monthly one if only the monthly limit is.
AlarmWhileAbove ==
    AboveAny(lastUsage) =>
        (IF Above("daily", lastUsage) THEN "daily" ELSE "monthly") \in alarms

\* Whenever the last completed check found usage above a limit, no torrent runs that a
\* user has not resumed or added since the thread paused the torrents (unless an
\* attempt to resume them all failed half way).
PausedWhileAbove ==
    AboveAny(lastUsage) /\ phase # "unpausing" /\ "unpausing" \notin cutShort =>
        torrents \subseteq paused \cup userResumed

\* No torrent paused by the thread stays paused once the last completed check found
\* usage at or below the limits (unless an attempt to pause them all failed half way).
NoneHeldBack ==
    ~AboveAny(lastUsage) /\ phase # "pausing" /\ "pausing" \notin cutShort => heldBack = {}

\* Once failures and restarts have ended: usage above a limit is noticed, that is, an alarm is
\* raised, or the usage falls again; and torrents that the thread paused are resumed, by it or
\* by a user, when usage is within the limits again, unless a change of state that failed
\* half way was never made good.  (While the saves keep failing, no limit is ever checked.)
LimitsAreNoticed ==
    <>[]~failing =>
        /\ AboveAny(tracked) ~> (alarms \notin {NoTable, {}} \/ ~AboveAny(tracked))
        /\ heldBack # {} /\ ~AboveAny(tracked) /\ cutShort = {} ~>
              heldBack = {} \/ AboveAny(tracked) \/ cutShort # {}

\* When a check has found usage within both limits, the daily alarm is down; between checks
\* an alarm that is raised for a limit no longer exceeded is the monthly one, or the daily one
\* while the monthly limit is exceeded ...
LagOfAlarms ==
    phase = "asleep" /\ cutShort = {} /\ alarms # NoTable =>
        \A p \in alarms :
            Above(p, lastUsage) \/ p = "monthly" \/ Above("monthly", lastUsage)

MonthlyAlarmStays == "monthly" \in alarms => "monthly" \in alarms' \/ alarms' = NoTable

\* ... and the monthly alarm, once raised, is up until the daemon restarts (checkLimits lowers
\* the alarm of one limit only, and only when neither is exceeded: the daily one).
AlarmsLag == LagOfAlarms /\ [][LagOfAlarms' /\ MonthlyAlarmStays]_limitsVars
=============================================================================
