---------------------------- MODULE UsageTracker ----------------------------
(***************************************************************************)
(* daemon/UsageTracker.rb, run by the loop of UsageTrackingBackgroundThread *)
(* (daemon/requesthandler.rb).  The libtorrent session reports the bytes   *)
(* moved since the session was created; the tracker turns that counter     *)
(* into per-day and per-month buckets and rewrites both Mongo collections  *)
(* after every update.  The daemon may stop, and Mongo may fail, between   *)
(* any two steps; whether there is a Mongo to use is found out anew each   *)
(* time the daemon starts.  Time is counted in days, on a calendar of      *)
(* MonthsInYear months of DaysInMonth days.                                *)
(***************************************************************************)
EXTENDS Integers, Sequences

CONSTANTS
    DaysInMonth, MonthsInYear,  \* the calendar
    ResetDay,                   \* usage_monthly_reset_day, a day of the month
    MaxBuckets,                 \* maxBuckets of each PeriodicBuckets
    MaxDay, MaxUsage, MaxStops  \* bounds of the model: days, bytes per session, stops

Periods == {"daily", "monthly"}

ASSUME CalendarAssumption ==
    /\ DaysInMonth \in Nat \ {0}
    /\ MonthsInYear \in Nat \ {0}
    /\ ResetDay \in 1..DaysInMonth

ASSUME BucketsAssumption == MaxBuckets \in [Periods -> Nat \ {0}]

ASSUME BoundsAssumption == MaxDay \in Nat /\ MaxUsage \in Nat /\ MaxStops \in Nat

VARIABLES
    now,          \* the day it is
    pc,           \* where the usage tracking thread is in its round
    used,         \* bytes moved since the libtorrent session was created
    buckets,      \* @buckets: a sequence of buckets for each period type
    adjustment,   \* @usageForAllTimeAdjustment
    reported,     \* the absolute usage of this daemon's last update, or NoUpdate
    haveMongo,    \* @mongoDb of the running daemon: it is configured and was reached
    mongo,        \* the saved document of each period type; <<>> when there is none
    stops,        \* how often the daemon has stopped
    astray        \* history: monthly buckets were loaded alone, and not updated since

vars == <<now, pc, used, buckets, adjustment, reported, haveMongo, mongo, stops, astray>>

NoUpdate == -1

\* The round is: update the daily buckets, update the monthly ones, then
\* remove and insert the two documents, in this order.
SaveSteps == {"removeDaily", "removeMonthly", "insertDaily", "insertMonthly"}
Steps == {"idle", "updateMonthly", "down"} \cup SaveSteps

-----------------------------------------------------------------------------
(* The calendar, as the change criteria use it. *)

DayOfMonth(t) == (t % DaysInMonth) + 1
Month(t) == t \div DaysInMonth              \* months since the start of time
DaysInYear == DaysInMonth * MonthsInYear
IsDecember(month) == month % MonthsInYear = MonthsInYear - 1

\* Mutant: the reset day of the present month.
NextResetThisMonth == Month(now) * DaysInMonth + ResetDay - 1

\* MonthlyBucketChangeCriteria.criteriaData: the reset day of the month
\* now.mon % 12 + 1, of the current year (so in December a past January).
NextReset ==
    (now \div DaysInYear) * DaysInYear
      + ((Month(now) + 1) % MonthsInYear) * DaysInMonth
      + ResetDay - 1

Bucket == [label : Nat, criteriaData : Nat, start : Int, value : Int]

\* newBucket of the two criteria, given absoluteUsageAtStartOfBucket.  The
\* labels stand for "%b %e" and "%b %Y".
NewBucket(p, start) ==
    [label        |-> IF p = "daily" THEN now % DaysInYear ELSE Month(now),
     criteriaData |-> IF p = "daily" THEN now ELSE NextReset,
     start        |-> start,
     value        |-> 0]

\* newBucket? of the two criteria.
IsTimeForNewBucket(p, b) ==
    IF p = "daily" THEN DayOfMonth(b.criteriaData) # DayOfMonth(now)
                   ELSE now >= b.criteriaData

-----------------------------------------------------------------------------
(* PeriodicBuckets *)

Current(s) == s[Len(s)]

\* The absolute usage a bucket reaches to.
Reach(b) == b.start + b.value

Total(s) == IF s = <<>> THEN 0 ELSE Reach(Current(s))

\* Mutant: setAbsoluteUsage forgets the previous bucket's value.
RolledAtStart(p, s, abs) ==
    IF s = <<>> THEN <<NewBucket(p, abs)>>
    ELSE IF IsTimeForNewBucket(p, Current(s))
         THEN Append(s, NewBucket(p, Current(s).start))
         ELSE s

\* The push of update, with setAbsoluteUsage.
Rolled(p, s, abs) ==
    IF s = <<>> THEN <<NewBucket(p, abs)>>
    ELSE IF IsTimeForNewBucket(p, Current(s))
         THEN Append(s, NewBucket(p, Reach(Current(s))))
         ELSE s

\* Mutant: the shift allows one bucket too many.
ShiftedLate(p, s) == IF Len(s) > MaxBuckets[p] + 1 THEN Tail(s) ELSE s

\* The shift of update.
Shifted(p, s) == IF Len(s) > MaxBuckets[p] THEN Tail(s) ELSE s

\* setValue of the last bucket.
SetValue(s, abs) == [s EXCEPT ![Len(s)].value = abs - s[Len(s)].start]

Updated(p, s, abs) == SetValue(Shifted(p, Rolled(p, s, abs)), abs)

NoBuckets == [p \in Periods |-> <<>>]

-----------------------------------------------------------------------------
Init ==
    /\ now = 0
    /\ pc = "idle"
    /\ used = 0
    /\ buckets = NoBuckets
    /\ adjustment = 0
    /\ reported = NoUpdate
    /\ haveMongo \in BOOLEAN
    /\ mongo = NoBuckets
    /\ stops = 0
    /\ astray = FALSE

\* A day passes.
Tick ==
    /\ now < MaxDay
    /\ now' = now + 1
    /\ UNCHANGED <<pc, used, buckets, adjustment, reported, haveMongo, mongo, stops, astray>>

\* libtorrent moves bytes.
Transfer ==
    /\ pc # "down"
    /\ used < MaxUsage
    /\ used' = used + 1
    /\ UNCHANGED <<now, pc, buckets, adjustment, reported, haveMongo, mongo, stops, astray>>

\* Mutant: the usage loaded from Mongo is not added.
UpdateDailyOfSession ==
    /\ pc = "idle"
    /\ reported' = used
    /\ buckets' = [buckets EXCEPT !["daily"] = Updated("daily", @, reported')]
    /\ pc' = "updateMonthly"
    /\ UNCHANGED <<now, used, adjustment, haveMongo, mongo, stops, astray>>

\* The thread wakes, reads the session's counters and updates @buckets[:daily].
UpdateDaily ==
    /\ pc = "idle"
    /\ reported' = used + adjustment
    /\ buckets' = [buckets EXCEPT !["daily"] = Updated("daily", @, reported')]
    /\ pc' = "updateMonthly"
    /\ UNCHANGED <<now, used, adjustment, haveMongo, mongo, stops, astray>>

UpdateMonthly ==
    /\ pc = "updateMonthly"
    /\ buckets' = [buckets EXCEPT !["monthly"] = Updated("monthly", @, reported)]
    /\ pc' = IF haveMongo THEN "removeDaily" ELSE "idle"
    /\ astray' = FALSE
    /\ UNCHANGED <<now, used, adjustment, reported, haveMongo, mongo, stops>>

\* saveBucketsToMongo: one step for each call to Mongo.
SaveStep(at, next, p, doc) ==
    /\ pc = at
    /\ pc' = next
    /\ mongo' = [mongo EXCEPT ![p] = doc]
    /\ UNCHANGED <<now, used, buckets, adjustment, reported, haveMongo, stops, astray>>

\* Mutant: the daily collection is emptied twice, the monthly one never.
RemoveDailyAgain == SaveStep("removeMonthly", "insertDaily", "daily", <<>>)

RemoveDaily   == SaveStep("removeDaily", "removeMonthly", "daily", <<>>)
RemoveMonthly == SaveStep("removeMonthly", "insertDaily", "monthly", <<>>)
InsertDaily   == SaveStep("insertDaily", "insertMonthly", "daily", buckets["daily"])
InsertMonthly == SaveStep("insertMonthly", "idle", "monthly", buckets["monthly"])

\* A call to Mongo raises; the loop's rescue logs it and the round is over.
MongoFails ==
    /\ pc \in SaveSteps
    /\ pc' = "idle"
    /\ UNCHANGED <<now, used, buckets, adjustment, reported, haveMongo, mongo, stops, astray>>

\* The daemon stops or dies at any point: what it held in memory is gone.
Stop ==
    /\ pc # "down"
    /\ stops < MaxStops
    /\ stops' = stops + 1
    /\ pc' = "down"
    /\ used' = 0
    /\ buckets' = NoBuckets
    /\ adjustment' = 0
    /\ reported' = NoUpdate
    /\ haveMongo' = FALSE
    /\ astray' = FALSE
    /\ UNCHANGED <<now, mongo>>

\* The daemon connects to Mongo; when that fails it goes on without
\* (TorrentflowRequestHandler#initialize).  With it, loadBucketsFromMongo: what is
\* found is loaded, and the usage it reaches to is added to every later report.  (A
\* load that raises ends the daemon that is being started: it stays down.)
Start ==
    /\ pc = "down"
    /\ pc' = "idle"
    /\ haveMongo' \in BOOLEAN
    /\ buckets' = IF haveMongo' THEN mongo ELSE NoBuckets
    /\ adjustment' = Total(buckets'["daily"])
    /\ astray' = (buckets'["daily"] = <<>> /\ buckets'["monthly"] # <<>>)
    /\ UNCHANGED <<now, used, reported, mongo, stops>>

Next ==
    \/ Tick \/ Transfer
    \/ UpdateDaily \/ UpdateMonthly
    \/ RemoveDaily \/ RemoveMonthly \/ InsertDaily \/ InsertMonthly
    \/ MongoFails \/ Stop \/ Start

Spec == Init /\ [][Next]_vars

-----------------------------------------------------------------------------
(* Properties *)

\* The tracker's state is well formed, and no more buckets are kept or saved than
\* maxBuckets allows.
TypeOK ==
    /\ now \in Nat
    /\ pc \in Steps
    /\ used \in Nat
    /\ buckets \in [Periods -> Seq(Bucket)]
    /\ \A p \in Periods : Len(buckets[p]) <= MaxBuckets[p]
    /\ adjustment \in Int
    /\ reported \in Int
    /\ haveMongo \in BOOLEAN
    /\ mongo \in [Periods -> Seq(Bucket)]
    /\ \A p \in Periods : Len(mongo[p]) <= MaxBuckets[p]
    /\ stops \in Nat
    /\ astray \in BOOLEAN

IsContiguous(s) == \A i \in 1..(Len(s) - 1) : s[i + 1].start = Reach(s[i])

\* Each bucket begins at the absolute usage where the bucket before it ended, in
\* memory and in Mongo: whatever restarts, failed saves and shifts happen, no byte
\* is in two buckets of a period and none falls between two (setAbsoluteUsage and
\* setValue of PeriodicBuckets).
Contiguous == \A p \in Periods : IsContiguous(buckets[p]) /\ IsContiguous(mongo[p])

\* Once this daemon has updated both period types they account for the same
\* absolute usage, even when they were loaded from documents of different ages.
CountersAgree ==
    reported # NoUpdate /\ pc # "updateMonthly" =>
        \A p \in Periods : Total(buckets[p]) = reported

\* When Mongo holds both documents they are of the same update: the order of the two
\* removes and the two inserts of saveBucketsToMongo never leaves a new document
\* beside an old one.
DocsAgree ==
    (\A p \in Periods : mongo[p] # <<>>) => Total(mongo["daily"]) = Total(mongo["monthly"])

\* Both period types account for the same usage: in memory after an update, in Mongo whenever
\* both documents are there (UsageTracker#update, saveBucketsToMongo).
Agreement == CountersAgree /\ DocsAgree

\* A month gets a second monthly bucket, and its usage is reset twice, exactly when it is
\* a December: the reset of any other month's bucket lies in a later month, that of a
\* December's bucket in the January before, so that another bucket is always due
\* (criteriaData and newBucket? of MonthlyBucketChangeCriteria).
OneBucketPerMonth ==
    LET s == buckets["monthly"]
    IN  /\ \A i \in 1..Len(s) :
              IsDecember(s[i].label) <=> s[i].criteriaData < (s[i].label + 1) * DaysInMonth
        /\ \A i, j \in 1..Len(s) :
              i < j /\ s[i].label = s[j].label => IsDecember(s[i].label)

-----------------------------------------------------------------------------
(* Each period type is a ledger, with its document as the persistent copy. *)

Values(s) == [i \in 1..Len(s) |-> s[i].value]

Ledger(s) == [entries |-> Values(s), total |-> Total(s)]

Mode == IF pc = "down" THEN "down" ELSE IF haveMongo THEN "attached" ELSE "detached"

Daily == INSTANCE UsageLedger WITH
    MaxEntries <- MaxBuckets["daily"],
    entries    <- Values(buckets["daily"]),
    total      <- Total(buckets["daily"]),
    copy       <- Ledger(mongo["daily"]),
    mode       <- Mode,
    astray     <- FALSE

Monthly == INSTANCE UsageLedger WITH
    MaxEntries <- MaxBuckets["monthly"],
    entries    <- Values(buckets["monthly"]),
    total      <- Total(buckets["monthly"]),
    copy       <- Ledger(mongo["monthly"]),
    mode       <- Mode,
    astray     <- astray

\* The buckets of a day, and of a month, implement a ledger that charges every byte
\* once, to the newest period, and that continues from its document after a restart that
\* finds Mongo, wherever the round before it was cut short.  The daily ledger never goes
\* backwards; the monthly one does so once after a restart that found its document
\* but no daily one, whose total the session's counters are added to.
Ledgers == Daily!LedgerSpec /\ Monthly!LedgerSpec
=============================================================================
