----------------------------- MODULE Usage_proofs -----------------------------
(***************************************************************************)
(* Proofs about the two halves of the usage tracking thread.               *)
(*                                                                         *)
(* The tracker, for every calendar, every maxBuckets and every bound.  Its *)
(* inductive invariant says, beside the types, that buckets follow on one  *)
(* another in memory and in Mongo, what each step of a round has already   *)
(* brought up to date, and which documents are missing at each step of a   *)
(* save.  From it follow, with invariants of their own, that months are    *)
(* distinct (an argument about the calendar) and that each period type     *)
(* implements UsageLedger (an argument about the sums of its buckets).     *)
(*                                                                         *)
(* The enforcement of the limits, for every set of torrents, all limits    *)
(* and every bound on usage: what the thread knows of the torrents while   *)
(* it changes them, and which alarms can be up when their limits are       *)
(* respected.                                                              *)
(***************************************************************************)
EXTENDS UsageTracker, UsageLimits, TLAPS, SequenceTheorems

-----------------------------------------------------------------------------
(* The calendar and the operators on buckets. *)

\* A month number and a reset date computed from a day are numbers.
LEMMA CalendarType ==
    ASSUME now \in Nat
    PROVE  /\ Month(now) \in Nat
           /\ DaysInYear \in Nat \ {0}
           /\ now % DaysInYear \in Nat
           /\ NextReset \in Nat
<1>1. DaysInMonth \in Nat \ {0} /\ MonthsInYear \in Nat \ {0} /\ ResetDay \in Nat \ {0}
  BY CalendarAssumption
<1>2. DaysInYear \in Nat \ {0}
  BY <1>1 DEF DaysInYear
<1>3. Month(now) \in Nat
  BY <1>1 DEF Month
<1>4. now % DaysInYear \in Nat
  BY <1>2
<1>5. now \div DaysInYear \in Nat
  BY <1>2
<1>6. (now \div DaysInYear) * DaysInYear \in Nat
  BY <1>2, <1>5
<1>7. (Month(now) + 1) % MonthsInYear \in Nat
  BY <1>1, <1>3
<1>8. ((Month(now) + 1) % MonthsInYear) * DaysInMonth \in Nat
  BY <1>1, <1>7
<1>9. NextReset \in Nat
  BY <1>1, <1>6, <1>8 DEF NextReset
<1> QED BY <1>2, <1>3, <1>4, <1>9

\* A new bucket is a bucket, and is empty.
LEMMA NewBucketType ==
    ASSUME now \in Nat, NEW p \in Periods, NEW start \in Int
    PROVE  /\ NewBucket(p, start) \in Bucket
           /\ NewBucket(p, start).start = start
  BY CalendarType DEF NewBucket, Bucket

\* The push of update keeps buckets contiguous.
LEMMA RolledFacts ==
    ASSUME now \in Nat, NEW p \in Periods, NEW s \in Seq(Bucket), NEW abs \in Int,
           IsContiguous(s)
    PROVE  /\ Rolled(p, s, abs) \in Seq(Bucket)
           /\ Rolled(p, s, abs) # <<>>
           /\ Len(Rolled(p, s, abs)) <= Len(s) + 1
           /\ s = <<>> => Len(Rolled(p, s, abs)) = 1
           /\ IsContiguous(Rolled(p, s, abs))
<1>1. CASE s = <<>>
  BY <1>1, NewBucketType DEF Rolled, IsContiguous
<1>2. CASE s # <<>> /\ ~IsTimeForNewBucket(p, Current(s))
  BY <1>2 DEF Rolled
<1>3. CASE s # <<>> /\ IsTimeForNewBucket(p, Current(s))
  <2> DEFINE b == NewBucket(p, Reach(Current(s)))
             r == Append(s, b)
  <2>1. Current(s) \in Bucket /\ Len(s) \in Nat \ {0}
    BY <1>3 DEF Current
  <2>2. Reach(Current(s)) \in Int
    BY <2>1 DEF Reach, Bucket
  <2>3. b \in Bucket /\ b.start = Reach(Current(s))
    BY <2>2, NewBucketType
  <2>4. Rolled(p, s, abs) = r
    BY <1>3 DEF Rolled
  <2> HIDE DEF b
  <2>5. /\ r \in Seq(Bucket) /\ Len(r) = Len(s) + 1 /\ r[Len(s) + 1] = b
        /\ \A i \in 1..Len(s) : r[i] = s[i]
    BY <2>1, <2>3
  <2>6. IsContiguous(r)
    <3> SUFFICES ASSUME NEW i \in 1..(Len(r) - 1)
                 PROVE  r[i + 1].start = Reach(r[i])
      BY DEF IsContiguous
    <3>1. CASE i = Len(s)
      BY <3>1, <2>1, <2>3, <2>5 DEF Current
    <3>2. CASE i < Len(s)
      BY <3>2, <2>1, <2>5 DEF IsContiguous
    <3> QED BY <3>1, <3>2, <2>1, <2>5
  <2>7. r # <<>>
    BY <2>5, <2>1
  <2> QED BY <1>3, <2>4, <2>5, <2>6, <2>7
<1> QED BY <1>1, <1>2, <1>3

\* The shift of update leaves at most maxBuckets, contiguous.
LEMMA ShiftedFacts ==
    ASSUME NEW p \in Periods, NEW s \in Seq(Bucket), s # <<>>,
           Len(s) <= MaxBuckets[p] + 1, IsContiguous(s)
    PROVE  /\ Shifted(p, s) \in Seq(Bucket)
           /\ Shifted(p, s) # <<>>
           /\ Len(Shifted(p, s)) <= MaxBuckets[p]
           /\ IsContiguous(Shifted(p, s))
<1>1. MaxBuckets[p] \in Nat \ {0} /\ Len(s) \in Nat \ {0}
  BY BucketsAssumption
<1>2. CASE Len(s) <= MaxBuckets[p]
  BY <1>1, <1>2 DEF Shifted
<1>3. CASE Len(s) > MaxBuckets[p]
  <2> DEFINE t == Tail(s)
  <2>1. Shifted(p, s) = t
    BY <1>3 DEF Shifted
  <2>2. /\ t \in Seq(Bucket) /\ Len(t) = Len(s) - 1
        /\ \A i \in 1..Len(t) : t[i] = s[i + 1]
    BY <1>1
  <2> HIDE DEF t
  <2>3. IsContiguous(t)
    <3> SUFFICES ASSUME NEW i \in 1..(Len(t) - 1)
                 PROVE  t[i + 1].start = Reach(t[i])
      BY DEF IsContiguous
    <3>1. t[i] = s[i + 1] /\ t[i + 1] = s[(i + 1) + 1] /\ i + 1 \in 1..(Len(s) - 1)
      BY <1>1, <2>2
    <3> QED BY <3>1 DEF IsContiguous
  <2>4. t # <<>> /\ Len(t) <= MaxBuckets[p]
    BY <1>1, <1>3, <2>2
  <2> QED BY <2>1, <2>2, <2>3, <2>4
<1> QED BY <1>1, <1>2, <1>3

\* A bucket given another value.
LEMMA BucketValue ==
    ASSUME NEW x \in Bucket, NEW v \in Int
    PROVE  /\ [x EXCEPT !.value = v] \in Bucket
           /\ [x EXCEPT !.value = v].start = x.start
           /\ [x EXCEPT !.value = v].value = v
  BY DEF Bucket

\* setValue changes the last bucket's value only, and makes it reach abs.
LEMMA SetValueFacts ==
    ASSUME NEW s \in Seq(Bucket), s # <<>>, NEW abs \in Int, IsContiguous(s)
    PROVE  /\ SetValue(s, abs) \in Seq(Bucket)
           /\ Len(SetValue(s, abs)) = Len(s)
           /\ SetValue(s, abs) # <<>>
           /\ IsContiguous(SetValue(s, abs))
           /\ Total(SetValue(s, abs)) = abs
<1> DEFINE n == Len(s)
           b == [s[n] EXCEPT !.value = abs - s[n].start]
           r == SetValue(s, abs)
<1>1. n \in Nat \ {0} /\ s[n] \in Bucket
  OBVIOUS
<1>2. b \in Bucket /\ b.start = s[n].start /\ b.value = abs - s[n].start
  <2>1. s[n].start \in Int
    BY <1>1 DEF Bucket
  <2>2. abs - s[n].start \in Int
    BY <2>1
  <2> QED BY <1>1, <2>2, BucketValue
<1>3. r = [s EXCEPT ![n] = b]
  BY DEF SetValue
<1>4. r \in Seq(Bucket) /\ Len(r) = n
  BY <1>1, <1>2, <1>3
<1>5. r[n] = b /\ \A i \in 1..(n - 1) : r[i] = s[i]
  BY <1>1, <1>3
<1>6. Total(r) = abs
  <2>1. r # <<>>
    BY <1>1, <1>4
  <2>2. Total(r) = b.start + b.value
    BY <2>1, <1>4, <1>5 DEF Total, Current, Reach
  <2> QED BY <2>2, <1>1, <1>2 DEF Bucket
<1>7. IsContiguous(r)
  <2> SUFFICES ASSUME NEW i \in 1..(n - 1)
               PROVE  r[i + 1].start = Reach(r[i])
    BY <1>4 DEF IsContiguous
  <2>1. s[i + 1].start = Reach(s[i])
    BY DEF IsContiguous
  <2>2. r[i] = s[i] /\ i + 1 \in 1..n
    BY <1>1, <1>5
  <2>3. r[i + 1].start = s[i + 1].start
    <3>1. CASE i + 1 = n
      BY <3>1, <1>2, <1>5
    <3>2. CASE i + 1 # n
      BY <3>2, <1>1, <1>5
    <3> QED BY <3>1, <3>2
  <2> QED BY <2>1, <2>2, <2>3
<1> HIDE DEF r
<1> QED BY <1>1, <1>4, <1>6, <1>7 DEF r

\* PeriodicBuckets.update as a whole.
LEMMA UpdatedFacts ==
    ASSUME now \in Nat, NEW p \in Periods, NEW s \in Seq(Bucket), NEW abs \in Int,
           Len(s) <= MaxBuckets[p], IsContiguous(s)
    PROVE  /\ Updated(p, s, abs) \in Seq(Bucket)
           /\ Len(Updated(p, s, abs)) <= MaxBuckets[p]
           /\ IsContiguous(Updated(p, s, abs))
           /\ Total(Updated(p, s, abs)) = abs
<1> DEFINE r == Rolled(p, s, abs)
           t == Shifted(p, r)
<1>1. MaxBuckets[p] \in Nat \ {0} /\ Len(s) \in Nat
  BY BucketsAssumption
<1>2. r \in Seq(Bucket) /\ r # <<>> /\ Len(r) <= Len(s) + 1 /\ IsContiguous(r)
  BY RolledFacts
<1>3. Len(r) <= MaxBuckets[p] + 1
  <2>1. Len(r) \in Nat
    BY <1>2
  <2> HIDE DEF r
  <2> QED BY <1>1, <1>2, <2>1
<1> HIDE DEF r
<1>4. t \in Seq(Bucket) /\ t # <<>> /\ Len(t) <= MaxBuckets[p] /\ IsContiguous(t)
  BY <1>2, <1>3, ShiftedFacts
<1> HIDE DEF t
<1>5. Updated(p, s, abs) = SetValue(t, abs)
  BY DEF Updated, r, t
<1> QED BY <1>4, <1>5, SetValueFacts

\* What a period type's buckets reach to is a number.
LEMMA TotalType == \A s \in Seq(Bucket) : Total(s) \in Int
<1> SUFFICES ASSUME NEW s \in Seq(Bucket) PROVE Total(s) \in Int
  OBVIOUS
<1>1. CASE s = <<>>
  BY <1>1 DEF Total
<1>2. CASE s # <<>>
  <2>1. Current(s) \in Bucket
    BY <1>2 DEF Current
  <2> QED BY <1>2, <2>1 DEF Total, Reach, Bucket
<1> QED BY <1>1, <1>2

-----------------------------------------------------------------------------
(* The inductive invariant. *)

\* What the present step of the round has already brought up to date.
RoundOK ==
    /\ pc = "updateMonthly" => Total(buckets["daily"]) = reported
    /\ pc \in SaveSteps => \A p \in Periods : Total(buckets[p]) = reported

\* Which documents are missing at each step of a save, and that they agree otherwise.
SaveOK ==
    /\ pc = "removeMonthly" => mongo["daily"] = <<>>
    /\ pc = "insertDaily" => mongo["monthly"] = <<>>
    /\ pc = "insertMonthly" => mongo["monthly"] = <<>> /\ mongo["daily"] = buckets["daily"]
    /\ pc = "down" => reported = NoUpdate /\ used = 0 /\ buckets = NoBuckets

IInv == TypeOK /\ Contiguous /\ CountersAgree /\ RoundOK /\ SaveOK /\ DocsAgree

LEMMA InitIInv == Init => IInv
<1> SUFFICES ASSUME Init PROVE IInv
  OBVIOUS
<1> USE DEF Init
<1>1. TypeOK
  <2>1. <<>> \in Seq(Bucket) /\ Len(<<>>) = 0
    OBVIOUS
  <2>2. \A p \in Periods : MaxBuckets[p] \in Nat
    BY BucketsAssumption
  <2>3. haveMongo \in BOOLEAN /\ astray \in BOOLEAN
    OBVIOUS
  <2>4. NoBuckets \in [Periods -> Seq(Bucket)] /\ \A p \in Periods : NoBuckets[p] = <<>>
    BY <2>1 DEF NoBuckets
  <2>5. NoUpdate \in Int /\ "idle" \in Steps
    BY DEF NoUpdate, Steps
  <2> QED BY <2>1, <2>2, <2>3, <2>4, <2>5 DEF TypeOK
<1>2. Contiguous
  BY DEF Contiguous, IsContiguous, NoBuckets
<1>3. CountersAgree /\ RoundOK /\ SaveOK
  BY DEF CountersAgree, RoundOK, SaveOK, SaveSteps
<1>4. DocsAgree
  BY DEF DocsAgree, Periods, NoBuckets
<1> QED BY <1>1, <1>2, <1>3, <1>4 DEF IInv

\* Both updates of a round keep the buckets of both period types well formed.
LEMMA UpdateOfOneType ==
    ASSUME IInv, NEW p \in Periods, NEW abs \in Int,
           buckets' = [buckets EXCEPT ![p] = Updated(p, buckets[p], abs)]
    PROVE  /\ buckets' \in [Periods -> Seq(Bucket)]
           /\ \A q \in Periods : Len(buckets'[q]) <= MaxBuckets[q]
           /\ \A q \in Periods : IsContiguous(buckets'[q])
           /\ Total(buckets'[p]) = abs
           /\ \A q \in Periods \ {p} : buckets'[q] = buckets[q]
<1>1. /\ now \in Nat
      /\ buckets \in [Periods -> Seq(Bucket)]
      /\ \A q \in Periods : Len(buckets[q]) <= MaxBuckets[q] /\ IsContiguous(buckets[q])
  BY DEF IInv, TypeOK, Contiguous
<1> DEFINE u == Updated(p, buckets[p], abs)
<1>2. u \in Seq(Bucket) /\ Len(u) <= MaxBuckets[p] /\ IsContiguous(u) /\ Total(u) = abs
  BY <1>1, UpdatedFacts
<1> HIDE DEF u
<1>3. buckets' = [buckets EXCEPT ![p] = u]
  BY DEF u
<1>4. buckets'[p] = u /\ \A q \in Periods \ {p} : buckets'[q] = buckets[q]
  BY <1>1, <1>3
<1> QED BY <1>1, <1>2, <1>3, <1>4

\* Each step of the thread, of libtorrent, of Mongo and of the clock keeps IInv.
LEMMA NextIInv == IInv /\ [Next]_vars => IInv'
<1> SUFFICES ASSUME IInv, [Next]_vars PROVE IInv'
  OBVIOUS
<1> USE DEF IInv
<1>0. TypeOK /\ Contiguous /\ CountersAgree /\ RoundOK /\ SaveOK /\ DocsAgree
  OBVIOUS
<1>1. CASE Tick
  <2>1. now' \in Nat
    BY <1>0, <1>1 DEF Tick, TypeOK
  <2>2. TypeOK'
    BY <1>0, <1>1, <2>1 DEF Tick, TypeOK
  <2> QED BY <1>0, <1>1, <2>2 DEF Tick, Contiguous, CountersAgree, RoundOK, SaveOK, DocsAgree
<1>2. CASE Transfer
  <2>1. TypeOK'
    BY <1>0, <1>2 DEF Transfer, TypeOK
  <2> QED BY <1>0, <1>2, <2>1
          DEF Transfer, Contiguous, CountersAgree, RoundOK, SaveOK, DocsAgree
<1>3. CASE UpdateDaily
  <2>1. /\ buckets' = [buckets EXCEPT !["daily"] = Updated("daily", buckets["daily"], reported')]
        /\ reported' = used + adjustment
        /\ pc' = "updateMonthly"
        /\ UNCHANGED <<now, used, adjustment, haveMongo, mongo, stops, astray>>
    BY <1>3 DEF UpdateDaily
  <2>2. reported' \in Int
    BY <1>0, <2>1 DEF TypeOK
  <2>3. /\ buckets' \in [Periods -> Seq(Bucket)]
        /\ \A q \in Periods : Len(buckets'[q]) <= MaxBuckets[q]
        /\ \A q \in Periods : IsContiguous(buckets'[q])
        /\ Total(buckets'["daily"]) = reported'
    <3>1. "daily" \in Periods
      BY DEF Periods
    <3> HIDE DEF IInv
    <3> QED BY <3>1, <2>1, <2>2, UpdateOfOneType
  <2>4. TypeOK'
    BY <1>0, <2>1, <2>2, <2>3 DEF TypeOK, Steps
  <2>5. Contiguous'
    BY <1>0, <2>1, <2>3 DEF Contiguous
  <2>6. CountersAgree' /\ RoundOK' /\ SaveOK'
    BY <2>1, <2>3 DEF CountersAgree, RoundOK, SaveOK, SaveSteps
  <2>7. DocsAgree'
    BY <1>0, <2>1 DEF DocsAgree
  <2> QED BY <2>4, <2>5, <2>6, <2>7
<1>4. CASE UpdateMonthly
  <2>1. /\ buckets' = [buckets EXCEPT !["monthly"] = Updated("monthly", buckets["monthly"], reported)]
        /\ pc = "updateMonthly"
        /\ pc' \in {"removeDaily", "idle"} /\ astray' = FALSE
        /\ UNCHANGED <<now, used, adjustment, reported, haveMongo, mongo, stops>>
    BY <1>4 DEF UpdateMonthly
  <2>2. reported \in Int
    BY <1>0 DEF TypeOK
  <2>3. /\ buckets' \in [Periods -> Seq(Bucket)]
        /\ \A q \in Periods : Len(buckets'[q]) <= MaxBuckets[q]
        /\ \A q \in Periods : IsContiguous(buckets'[q])
        /\ Total(buckets'["monthly"]) = reported
        /\ buckets'["daily"] = buckets["daily"]
    <3>1. "monthly" \in Periods /\ "daily" \in Periods \ {"monthly"}
      BY DEF Periods
    <3> HIDE DEF IInv
    <3> QED BY <3>1, <2>1, <2>2, UpdateOfOneType
  <2>4. TypeOK'
    BY <1>0, <2>1, <2>3 DEF TypeOK, Steps, SaveSteps
  <2>5. Contiguous'
    BY <1>0, <2>1, <2>3 DEF Contiguous
  <2>6. \A p \in Periods : Total(buckets'[p]) = reported'
    BY <1>0, <2>1, <2>3 DEF RoundOK, Periods
  <2>7. CountersAgree' /\ RoundOK' /\ SaveOK'
    BY <2>1, <2>6 DEF CountersAgree, RoundOK, SaveOK
  <2>8. DocsAgree'
    BY <1>0, <2>1 DEF DocsAgree
  <2> QED BY <2>4, <2>5, <2>7, <2>8
<1>5. ASSUME NEW at, NEW next, NEW p \in Periods, NEW doc \in {<<>>, buckets[p]},
             SaveStep(at, next, p, doc), at \in SaveSteps, next \in SaveSteps \cup {"idle"}
      PROVE  TypeOK' /\ Contiguous' /\ CountersAgree' /\ RoundOK'
  <2>1. /\ pc = at /\ pc' = next
        /\ mongo' = [mongo EXCEPT ![p] = doc]
        /\ UNCHANGED <<now, used, buckets, adjustment, reported, haveMongo, stops, astray>>
    BY <1>5 DEF SaveStep
  <2>2. mongo \in [Periods -> Seq(Bucket)] /\ buckets \in [Periods -> Seq(Bucket)]
    BY <1>0 DEF TypeOK
  <2>3. doc \in Seq(Bucket) /\ Len(doc) <= MaxBuckets[p] /\ IsContiguous(doc)
    <3>1. CASE doc = <<>>
      BY <3>1, BucketsAssumption DEF IsContiguous
    <3>2. CASE doc = buckets[p]
      BY <3>2, <1>0, <2>2 DEF TypeOK, Contiguous
    <3> QED BY <3>1, <3>2
  <2>4. /\ mongo' \in [Periods -> Seq(Bucket)]
        /\ mongo'[p] = doc /\ \A q \in Periods \ {p} : mongo'[q] = mongo[q]
    BY <2>1, <2>2, <2>3
  <2>5. TypeOK'
    BY <1>0, <1>5, <2>1, <2>3, <2>4 DEF TypeOK, Steps
  <2>6. Contiguous'
    BY <1>0, <2>1, <2>3, <2>4 DEF Contiguous
  <2>7. CountersAgree' /\ RoundOK'
    BY <1>0, <1>5, <2>1 DEF CountersAgree, RoundOK, SaveSteps
  <2> QED BY <2>5, <2>6, <2>7
<1>6. CASE RemoveDaily
  <2>1. TypeOK' /\ Contiguous' /\ CountersAgree' /\ RoundOK'
    BY <1>5, <1>6 DEF RemoveDaily, Periods, SaveSteps
  <2>2. mongo'["daily"] = <<>> /\ pc' = "removeMonthly"
    BY <1>0, <1>6 DEF RemoveDaily, SaveStep, TypeOK, Periods
  <2>3. SaveOK' /\ DocsAgree'
    BY <2>2 DEF SaveOK, DocsAgree, Periods
  <2> QED BY <2>1, <2>3
<1>7. CASE RemoveMonthly
  <2>1. TypeOK' /\ Contiguous' /\ CountersAgree' /\ RoundOK'
    BY <1>5, <1>7 DEF RemoveMonthly, Periods, SaveSteps
  <2>2. mongo'["monthly"] = <<>> /\ pc' = "insertDaily"
    BY <1>0, <1>7 DEF RemoveMonthly, SaveStep, TypeOK, Periods
  <2>3. SaveOK' /\ DocsAgree'
    BY <2>2 DEF SaveOK, DocsAgree, Periods
  <2> QED BY <2>1, <2>3
<1>8. CASE InsertDaily
  <2>1. TypeOK' /\ Contiguous' /\ CountersAgree' /\ RoundOK'
    BY <1>5, <1>8 DEF InsertDaily, Periods, SaveSteps
  <2>2. /\ mongo'["daily"] = buckets'["daily"] /\ mongo'["monthly"] = <<>>
        /\ pc' = "insertMonthly"
    BY <1>0, <1>8 DEF InsertDaily, SaveStep, TypeOK, Periods, SaveOK
  <2>3. SaveOK' /\ DocsAgree'
    BY <2>2 DEF SaveOK, DocsAgree, Periods
  <2> QED BY <2>1, <2>3
<1>9. CASE InsertMonthly
  <2>1. TypeOK' /\ Contiguous' /\ CountersAgree' /\ RoundOK'
    BY <1>5, <1>9 DEF InsertMonthly, Periods, SaveSteps
  <2>2. /\ pc = "insertMonthly" /\ pc' = "idle"
        /\ \A p \in Periods : mongo'[p] = buckets[p]
    BY <1>0, <1>9 DEF InsertMonthly, SaveStep, TypeOK, Periods, SaveOK
  <2>3. SaveOK'
    BY <2>2 DEF SaveOK
  <2>4. DocsAgree'
    BY <1>0, <2>2 DEF DocsAgree, RoundOK, SaveSteps, Periods
  <2> QED BY <2>1, <2>3, <2>4
<1>10. /\ \A p \in Periods : NoBuckets[p] = <<>> /\ IsContiguous(NoBuckets[p])
       /\ \A p \in Periods : Len(NoBuckets[p]) <= MaxBuckets[p]
       /\ NoBuckets \in [Periods -> Seq(Bucket)]
  BY BucketsAssumption DEF NoBuckets, IsContiguous
<1>11. CASE MongoFails
  <2>1. TypeOK' /\ Contiguous' /\ DocsAgree'
    BY <1>0, <1>11 DEF MongoFails, TypeOK, Contiguous, DocsAgree, Steps
  <2>2. CountersAgree' /\ RoundOK' /\ SaveOK'
    BY <1>0, <1>11 DEF MongoFails, CountersAgree, RoundOK, SaveOK, SaveSteps
  <2> QED BY <2>1, <2>2
<1>12. CASE Stop
  <2>1. /\ pc' = "down" /\ reported' = NoUpdate /\ buckets' = NoBuckets
        /\ used' = 0 /\ adjustment' = 0 /\ stops' = stops + 1
        /\ haveMongo' = FALSE /\ astray' = FALSE
        /\ UNCHANGED <<now, mongo>>
    BY <1>12 DEF Stop
  <2>2. TypeOK'
    <3>1. haveMongo' \in BOOLEAN /\ astray' \in BOOLEAN
      BY <2>1
    <3>2. NoUpdate \in Int /\ "down" \in Steps /\ stops + 1 \in Nat
      BY <1>0 DEF NoUpdate, Steps, TypeOK
    <3> QED BY <1>0, <1>10, <2>1, <3>1, <3>2 DEF TypeOK
  <2>3. Contiguous' /\ DocsAgree'
    BY <1>0, <1>10, <2>1 DEF Contiguous, DocsAgree
  <2>4. CountersAgree' /\ RoundOK' /\ SaveOK'
    BY <2>1 DEF CountersAgree, RoundOK, SaveOK, SaveSteps
  <2> QED BY <2>2, <2>3, <2>4
<1>13. CASE Start
  <2>1. /\ pc = "down" /\ pc' = "idle" /\ haveMongo' \in BOOLEAN
        /\ buckets' \in {mongo, NoBuckets}
        /\ adjustment' = Total(buckets'["daily"]) /\ astray' \in BOOLEAN
        /\ UNCHANGED <<now, used, reported, mongo, stops>>
    BY <1>13 DEF Start
  <2>2. /\ buckets' \in [Periods -> Seq(Bucket)]
        /\ \A p \in Periods : Len(buckets'[p]) <= MaxBuckets[p] /\ IsContiguous(buckets'[p])
    BY <1>0, <1>10, <2>1 DEF TypeOK, Contiguous
  <2>3. adjustment' \in Int
    BY <2>1, <2>2, TotalType DEF Periods
  <2>4. TypeOK'
    BY <1>0, <2>1, <2>2, <2>3 DEF TypeOK, Steps
  <2>5. Contiguous' /\ DocsAgree'
    BY <1>0, <2>1, <2>2 DEF Contiguous, DocsAgree
  <2>6. CountersAgree' /\ RoundOK' /\ SaveOK'
    BY <1>0, <2>1 DEF CountersAgree, RoundOK, SaveOK, SaveSteps
  <2> QED BY <2>4, <2>5, <2>6
<1>14. CASE UNCHANGED vars
  BY <1>0, <1>14 DEF vars, TypeOK, Contiguous, CountersAgree, RoundOK, SaveOK, DocsAgree
<1> HIDE DEF IInv
<1> QED BY <1>1, <1>2, <1>3, <1>4, <1>6, <1>7, <1>8, <1>9, <1>11, <1>12, <1>13, <1>14 DEF Next

LEMMA InductiveInvariant == Spec => []IInv
  BY InitIInv, NextIInv, PTL DEF Spec

-----------------------------------------------------------------------------
\* The tracker's state is always well formed, and holds at most maxBuckets buckets.
THEOREM TypeCorrect == Spec => []TypeOK
<1>1. IInv => TypeOK
  BY DEF IInv
<1> QED BY <1>1, InductiveInvariant, PTL

\* No byte is in two buckets of a period type, and none falls between two buckets,
\* whatever stops, failed saves and restarts happen (UsageTracker.rb, update and load).
THEOREM BucketsContiguous == Spec => []Contiguous
<1>1. IInv => Contiguous
  BY DEF IInv
<1> QED BY <1>1, InductiveInvariant, PTL

\* Daily and monthly buckets account for the same absolute usage, in memory after an update of
\* this daemon, and in Mongo: saveBucketsToMongo never leaves a new document beside an old one.
THEOREM TrackersAgree == Spec => []Agreement
<1>1. IInv => Agreement
  BY DEF IInv, Agreement
<1> QED BY <1>1, InductiveInvariant, PTL

-----------------------------------------------------------------------------
(* One bucket for each month. *)

\* Quotient and remainder.
LEMMA Division ==
    ASSUME NEW x \in Nat, NEW d \in Nat \ {0}
    PROVE  /\ x \div d \in Nat /\ x % d \in 0..(d - 1)
           /\ x = d * (x \div d) + (x % d)
  OBVIOUS

\* They are the only ones.
LEMMA DivisionIs ==
    ASSUME NEW x \in Nat, NEW d \in Nat \ {0}, NEW q \in Nat, NEW r \in 0..(d - 1), x = d * q + r
    PROVE  x \div d = q /\ x % d = r
<1> DEFINE p == x \div d
           t == x % d
<1>1. p \in Nat /\ t \in 0..(d - 1) /\ x = d * p + t
  BY Division
<1> HIDE DEF p, t
<1>2. d * (p - q) = r - t
  BY <1>1
<1>3. p - q = 0
  <2>1. CASE p - q >= 1
    <3>1. d * (p - q) >= d
      BY <2>1, <1>1
    <3> QED BY <3>1, <1>1, <1>2
  <2>2. CASE q - p >= 1
    <3>1. d * (q - p) >= d
      BY <2>2, <1>1
    <3>2. d * (q - p) = t - r
      BY <1>1
    <3> QED BY <3>1, <3>2, <1>1
  <2> QED BY <2>1, <2>2, <1>1
<1>4. p = q /\ t = r
  BY <1>1, <1>2, <1>3
<1> QED BY <1>4 DEF p, t

LEMMA DivisionByProduct ==
    ASSUME NEW x \in Nat, NEW d \in Nat \ {0}, NEW m \in Nat \ {0}
    PROVE  x \div (d * m) = (x \div d) \div m
<1> DEFINE a == x \div d
           r == x % d
           k == a \div m
           s == a % m
<1>1. a \in Nat /\ r \in 0..(d - 1) /\ x = d * a + r
  BY Division
<1> HIDE DEF a, r
<1>2. k \in Nat /\ s \in 0..(m - 1) /\ a = m * k + s
  BY <1>1, Division
<1> HIDE DEF k, s
<1>3. d * m \in Nat \ {0}
  OBVIOUS
<1>4. x = (d * m) * k + (d * s + r)
  <2>1. d * a = d * (m * k) + d * s
    BY <1>1, <1>2
  <2>2. d * (m * k) = (d * m) * k
    BY <1>2
  <2> QED BY <1>1, <1>2, <2>1, <2>2
<1>5. d * s + r \in 0..(d * m - 1)
  <2>1. d * s <= d * (m - 1)
    BY <1>2
  <2>2. d * (m - 1) = d * m - d
    OBVIOUS
  <2>3. d * s \in Nat
    BY <1>2
  <2> QED BY <1>1, <1>2, <2>1, <2>2, <2>3
<1>6. x \div (d * m) = k
  BY <1>2, <1>3, <1>4, <1>5, DivisionIs
<1> QED BY <1>6 DEF a, k

LEMMA NextRemainder ==
    ASSUME NEW x \in Nat, NEW m \in Nat \ {0}, (x % m) # m - 1
    PROVE  (x + 1) % m = (x % m) + 1
<1> DEFINE k == x \div m
           r == x % m
<1>1. k \in Nat /\ r \in 0..(m - 1) /\ x = m * k + r
  BY Division
<1>2. r # m - 1
  OBVIOUS
<1> HIDE DEF k, r
<1> DEFINE y == x + 1
<1>3. y \in Nat /\ y = m * k + (r + 1) /\ r + 1 \in 0..(m - 1)
  BY <1>1, <1>2
<1> HIDE DEF y
<1>4. y % m = r + 1
  BY <1>1, <1>3, DivisionIs
<1> QED BY <1>4 DEF r, y

\* Except in December, the next reset is not before the next month.
LEMMA ResetIsLater ==
    ASSUME now \in Nat, ~IsDecember(Month(now))
    PROVE  NextReset >= (Month(now) + 1) * DaysInMonth
<1> DEFINE d == DaysInMonth
           m == MonthsInYear
           a == Month(now)
           k == a \div m
           r == a % m
<1>1. d \in Nat \ {0} /\ m \in Nat \ {0} /\ ResetDay \in Nat \ {0} /\ a \in Nat
  BY CalendarAssumption, CalendarType
<1>2. now \div DaysInYear = k
  BY <1>1, DivisionByProduct DEF DaysInYear, Month
<1>3. (a + 1) % m = r + 1
  BY <1>1, NextRemainder DEF IsDecember
<1>4. NextReset = k * (d * m) + (r + 1) * d + ResetDay - 1
  BY <1>2, <1>3 DEF NextReset, DaysInYear
<1> HIDE DEF d, m, a
<1>5. k \in Nat /\ r \in Nat /\ a = m * k + r
  BY <1>1, Division
<1> HIDE DEF k, r
<1>6. (a + 1) * d = k * (d * m) + (r + 1) * d
  <2>1. (m * k) * d = k * (d * m)
    BY <1>1, <1>5
  <2>2. (a + 1) * d = (m * k) * d + (r + 1) * d
    BY <1>1, <1>5
  <2> QED BY <2>1, <2>2
<1>7. k * (d * m) \in Nat /\ (r + 1) * d \in Nat
  BY <1>1, <1>5
<1>8. NextReset >= (a + 1) * d
  BY <1>1, <1>4, <1>6, <1>7
<1> QED BY <1>8 DEF a, d

\* In December, the next reset is not after the month.
LEMMA DecemberReset ==
    ASSUME now \in Nat, IsDecember(Month(now))
    PROVE  NextReset < (Month(now) + 1) * DaysInMonth
<1> DEFINE d == DaysInMonth
           m == MonthsInYear
           a == Month(now)
           k == a \div m
           r == a % m
<1>1. d \in Nat \ {0} /\ m \in Nat \ {0} /\ ResetDay \in 1..d /\ a \in Nat
  BY CalendarAssumption, CalendarType
<1>2. now \div DaysInYear = k
  BY <1>1, DivisionByProduct DEF DaysInYear, Month
<1>3. k \in Nat /\ a = m * k + r /\ r = m - 1
  BY <1>1, Division DEF IsDecember
<1>4. (a + 1) % m = 0
  <2> DEFINE y == a + 1
             q == k + 1
  <2>1. y = m * q + 0 /\ y \in Nat /\ q \in Nat /\ 0 \in 0..(m - 1)
    <3>1. m * q = m * k + m
      BY <1>1, <1>3
    <3> HIDE DEF k, r, m, a
    <3> QED BY <1>1, <1>3, <3>1
  <2> HIDE DEF y, q
  <2>2. y % m = 0
    BY <1>1, <2>1, DivisionIs
  <2> QED BY <2>2 DEF y
<1>5. NextReset = k * (d * m) + 0 * d + ResetDay - 1
  BY <1>2, <1>4 DEF NextReset, DaysInYear
<1> HIDE DEF d, m, a, k, r
<1>6. (a + 1) * d = k * (d * m) + m * d
  <2>1. (m * k) * d = k * (d * m)
    BY <1>1, <1>3
  <2>2. (a + 1) * d = (m * k) * d + m * d
    BY <1>1, <1>3
  <2> QED BY <2>1, <2>2
<1>7. k * (d * m) \in Nat /\ m * d >= d
  BY <1>1, <1>3
<1>8. NextReset < (a + 1) * d
  BY <1>1, <1>5, <1>6, <1>7
<1> QED BY <1>8 DEF a, d

LEMMA ResetOfMonth ==
    ASSUME now \in Nat
    PROVE  IsDecember(Month(now)) <=> NextReset < (Month(now) + 1) * DaysInMonth
<1>1. NextReset \in Nat /\ (Month(now) + 1) * DaysInMonth \in Nat
  BY CalendarType, CalendarAssumption
<1> QED BY <1>1, ResetIsLater, DecemberReset

\* A day on or after the first of a month is in this month or a later one.
LEMMA MonthReached ==
    ASSUME now \in Nat, NEW n \in Nat, now >= n * DaysInMonth
    PROVE  Month(now) >= n
<1> DEFINE d == DaysInMonth
           a == now \div d
           r == now % d
<1>1. d \in Nat \ {0}
  BY CalendarAssumption
<1>2. a \in Nat /\ r \in 0..(d - 1) /\ now = d * a + r
  BY <1>1, Division
<1> HIDE DEF d, a, r
<1>3. ASSUME n >= a + 1 PROVE FALSE
  <2>1. n * d >= (a + 1) * d
    BY <1>1, <1>2, <1>3
  <2>2. (a + 1) * d = d * a + d
    BY <1>1, <1>2
  <2>3. now >= d * a + d
    BY <1>1, <1>2, <2>1, <2>2 DEF d
  <2> QED BY <1>1, <1>2, <2>3
<1> QED BY <1>2, <1>3 DEF Month, a, d

\* The months of a sequence of monthly buckets: none is still to come, each but a December
\* is reset in a later month, a December is not, and only Decembers repeat.
MonthsOK(s, month) ==
    /\ \A i \in 1..Len(s) :
          /\ s[i].label <= month
          /\ IsDecember(s[i].label) <=> s[i].criteriaData < (s[i].label + 1) * DaysInMonth
    /\ \A i, j \in 1..Len(s) : i < j =>
          /\ s[i].label <= s[j].label
          /\ s[i].label = s[j].label => IsDecember(s[i].label)

\* The bucket that is pushed is of a later month than those before it.
LEMMA RolledMonths ==
    ASSUME now \in Nat, NEW s \in Seq(Bucket), NEW abs \in Int, MonthsOK(s, Month(now))
    PROVE  MonthsOK(Rolled("monthly", s, abs), Month(now))
<1>0. /\ "monthly" \in Periods
      /\ \A start : /\ NewBucket("monthly", start).label = Month(now)
                    /\ NewBucket("monthly", start).criteriaData = NextReset
      /\ Month(now) \in Nat /\ NextReset \in Nat
  BY CalendarType DEF Periods, NewBucket
<1>1. CASE s = <<>>
  <2> DEFINE b == NewBucket("monthly", abs)
  <2>1. Rolled("monthly", s, abs) = <<b>>
    BY <1>1 DEF Rolled
  <2>2. b.label = Month(now) /\ b.criteriaData = NextReset
    BY <1>0
  <2> HIDE DEF b
  <2> QED BY <1>0, <2>1, <2>2, ResetOfMonth DEF MonthsOK
<1>2. CASE s # <<>> /\ ~IsTimeForNewBucket("monthly", Current(s))
  BY <1>2 DEF Rolled
<1>3. CASE s # <<>> /\ IsTimeForNewBucket("monthly", Current(s))
  <2> DEFINE n == Len(s)
             c == s[n]
             b == NewBucket("monthly", Reach(c))
             r == Append(s, b)
  <2>1. c \in Bucket /\ n \in Nat \ {0} /\ now >= c.criteriaData
    BY <1>3 DEF Current, IsTimeForNewBucket
  <2>2. Reach(c) \in Int
    BY <2>1 DEF Reach, Bucket
  <2>3. b \in Bucket /\ b.label = Month(now) /\ b.criteriaData = NextReset
    BY <1>0, <2>2, NewBucketType
  <2>4. Rolled("monthly", s, abs) = r
    BY <1>3 DEF Rolled, Current
  <2>5. \A i \in 1..n : s[i] \in Bucket
    OBVIOUS
  <2>6. c.label < Month(now) \/ IsDecember(c.label)
    <3>1. CASE IsDecember(c.label)
      BY <3>1
    <3>2. CASE c.criteriaData >= (c.label + 1) * DaysInMonth
      <4>1. now >= (c.label + 1) * DaysInMonth
        BY <2>1, <3>2, CalendarAssumption DEF Bucket
      <4>2. Month(now) >= c.label + 1
        BY <2>1, <4>1, MonthReached DEF Bucket
      <4> QED BY <1>0, <2>1, <4>2 DEF Bucket
    <3>3. IsDecember(c.label) <=> c.criteriaData < (c.label + 1) * DaysInMonth
      BY <2>1 DEF MonthsOK
    <3>4. c.criteriaData \in Nat /\ (c.label + 1) * DaysInMonth \in Nat
      BY <2>1, CalendarAssumption DEF Bucket
    <3> QED BY <3>1, <3>2, <3>3, <3>4
  <2> HIDE DEF b
  <2>7. /\ r \in Seq(Bucket) /\ Len(r) = n + 1 /\ r[n + 1] = b
        /\ \A i \in 1..n : r[i] = s[i]
    BY <2>1, <2>3
  <2>8. \A i \in 1..n : s[i].label <= c.label /\ (s[i].label = c.label => i = n \/ IsDecember(c.label))
    <3> SUFFICES ASSUME NEW i \in 1..n
                 PROVE  s[i].label <= c.label /\ (s[i].label = c.label => i = n \/ IsDecember(c.label))
      OBVIOUS
    <3>1. CASE i = n
      BY <2>1, <2>5, <3>1 DEF Bucket
    <3>2. CASE i # n
      BY <2>1, <3>2 DEF MonthsOK
    <3> QED BY <3>1, <3>2
  <2>9. ASSUME NEW i \in 1..Len(r)
        PROVE  /\ r[i].label <= Month(now)
               /\ IsDecember(r[i].label) <=> r[i].criteriaData < (r[i].label + 1) * DaysInMonth
    <3>1. CASE i = n + 1
      BY <1>0, <2>3, <2>7, <3>1, ResetOfMonth
    <3>2. CASE i \in 1..n
      BY <2>7, <3>2 DEF MonthsOK
    <3> QED BY <2>1, <2>7, <3>1, <3>2
  <2>10. ASSUME NEW i \in 1..Len(r), NEW j \in 1..Len(r), i < j
         PROVE  r[i].label <= r[j].label /\ (r[i].label = r[j].label => IsDecember(r[i].label))
    <3>1. i \in 1..n
      BY <2>1, <2>7, <2>10
    <3>2. CASE j \in 1..n
      BY <2>7, <2>10, <3>1, <3>2 DEF MonthsOK
    <3>3. CASE j = n + 1
      <4>1. r[i] = s[i] /\ s[i] \in Bucket /\ r[j].label = Month(now)
        BY <2>3, <2>5, <2>7, <3>1, <3>3
      <4>2. c.label <= Month(now) /\ c.label \in Nat /\ s[i].label \in Nat
        <5>1. n \in 1..n
          BY <2>1
        <5>2. c.label <= Month(now)
          BY <5>1 DEF MonthsOK
        <5> QED BY <2>1, <2>5, <3>1, <5>2 DEF Bucket
      <4>3. s[i].label <= c.label
        BY <2>8, <3>1
      <4>4. ASSUME s[i].label = Month(now) PROVE IsDecember(s[i].label)
        <5>1. s[i].label = c.label /\ c.label = Month(now)
          BY <1>0, <4>2, <4>3, <4>4
        <5>2. IsDecember(c.label)
          BY <2>6, <5>1, <1>0
        <5> QED BY <5>1, <5>2
      <4> QED BY <1>0, <4>1, <4>2, <4>3, <4>4
    <3> QED BY <2>1, <2>7, <3>2, <3>3
  <2> HIDE DEF r, c
  <2> QED BY <2>4, <2>9, <2>10 DEF MonthsOK
<1> QED BY <1>1, <1>2, <1>3

\* Nothing is changed by what the shift and setValue do: some of the buckets are left, with
\* the months and resets they had.
LEMMA SomeMonths ==
    ASSUME NEW s, NEW r, NEW month, MonthsOK(s, month), NEW k \in Nat,
           \A i \in 1..Len(r) : /\ i + k \in 1..Len(s)
                                /\ r[i].label = s[i + k].label
                                /\ r[i].criteriaData = s[i + k].criteriaData,
           Len(r) \in Nat
    PROVE  MonthsOK(r, month)
<1>1. \A i, j \in 1..Len(r) : i < j => i + k < j + k
  OBVIOUS
<1> QED BY <1>1 DEF MonthsOK

LEMMA UpdatedMonths ==
    ASSUME now \in Nat, NEW s \in Seq(Bucket), NEW abs \in Int,
           Len(s) <= MaxBuckets["monthly"], IsContiguous(s), MonthsOK(s, Month(now))
    PROVE  MonthsOK(Updated("monthly", s, abs), Month(now))
<1> DEFINE r == Rolled("monthly", s, abs)
           t == Shifted("monthly", r)
           u == SetValue(t, abs)
<1>0. "monthly" \in Periods /\ MaxBuckets["monthly"] \in Nat \ {0} /\ Len(s) \in Nat
  BY BucketsAssumption DEF Periods
<1>1. r \in Seq(Bucket) /\ r # <<>> /\ Len(r) <= Len(s) + 1 /\ IsContiguous(r) /\ MonthsOK(r, Month(now))
  BY <1>0, RolledFacts, RolledMonths
<1> HIDE DEF r
<1>2. Len(r) <= MaxBuckets["monthly"] + 1 /\ Len(r) \in Nat \ {0}
  BY <1>0, <1>1
<1>3. t \in Seq(Bucket) /\ t # <<>> /\ IsContiguous(t)
  BY <1>0, <1>1, <1>2, ShiftedFacts
<1>4. MonthsOK(t, Month(now))
  <2>1. CASE t = r
    BY <1>1, <2>1
  <2>2. CASE t = Tail(r)
    <3> DEFINE v == Tail(r)
    <3>1. Len(v) \in Nat /\ \A i \in 1..Len(v) : v[i] = r[i + 1] /\ i + 1 \in 1..Len(r)
      BY <1>1, <1>2
    <3> HIDE DEF v
    <3>2. 1 \in Nat /\ \A i \in 1..Len(v) : /\ i + 1 \in 1..Len(r)
                                             /\ v[i].label = r[i + 1].label
                                             /\ v[i].criteriaData = r[i + 1].criteriaData
      BY <3>1
    <3>3. MonthsOK(v, Month(now))
      BY <1>1, <3>1, <3>2, SomeMonths
    <3> QED BY <2>2, <3>3 DEF v
  <2> QED BY <2>1, <2>2 DEF Shifted
<1> HIDE DEF t
<1>5. /\ Len(u) = Len(t) /\ Len(t) \in Nat
      /\ \A i \in 1..Len(t) : u[i].label = t[i].label /\ u[i].criteriaData = t[i].criteriaData
  <2> DEFINE n == Len(t)
  <2>1. n \in Nat \ {0} /\ \A i \in 1..n : t[i] \in Bucket
    BY <1>3
  <2>2. u = [t EXCEPT ![n] = [t[n] EXCEPT !.value = abs - t[n].start]]
    BY DEF SetValue
  <2> DEFINE b == [t[n] EXCEPT !.value = abs - t[n].start]
  <2>3. \A i \in 1..n : u[i] = IF i = n THEN b ELSE t[i]
    BY <1>3, <2>1, <2>2
  <2>4. Len(u) = n
    BY <1>3, SetValueFacts
  <2>5. b.label = t[n].label /\ b.criteriaData = t[n].criteriaData
    BY <2>1 DEF Bucket
  <2> HIDE DEF u, b
  <2>6. ASSUME NEW i \in 1..n
        PROVE  u[i].label = t[i].label /\ u[i].criteriaData = t[i].criteriaData
    <3>1. CASE i = n
      BY <2>1, <2>3, <2>5, <3>1
    <3>2. CASE i # n
      BY <2>3, <3>2
    <3> QED BY <3>1, <3>2
  <2> QED BY <2>1, <2>4, <2>6
<1>6. MonthsOK(u, Month(now))
  BY <1>4, <1>5, SomeMonths
<1> QED BY <1>6 DEF Updated, u, t, r

\* In memory and in Mongo.
MonthsInv ==
    MonthsOK(buckets["monthly"], Month(now)) /\ MonthsOK(mongo["monthly"], Month(now))

LEMMA NextMonths == IInv /\ MonthsInv /\ [Next]_vars => MonthsInv'
<1> SUFFICES ASSUME IInv, MonthsInv, [Next]_vars PROVE MonthsInv'
  OBVIOUS
<1>0. /\ now \in Nat /\ reported \in Int /\ "monthly" \in Periods
      /\ buckets \in [Periods -> Seq(Bucket)] /\ mongo \in [Periods -> Seq(Bucket)]
      /\ Len(buckets["monthly"]) <= MaxBuckets["monthly"] /\ IsContiguous(buckets["monthly"])
  BY DEF IInv, TypeOK, Contiguous, Periods
<1>1. ASSUME NEW b \in {buckets["monthly"], mongo["monthly"], <<>>},
             NEW m \in {buckets["monthly"], mongo["monthly"], <<>>},
             now' = now, buckets'["monthly"] = b, mongo'["monthly"] = m
      PROVE  MonthsInv'
  <2>1. MonthsOK(<<>>, Month(now))
    BY DEF MonthsOK
  <2> QED BY <1>1, <2>1 DEF MonthsInv
<1>2. CASE Tick
  <2>1. Month(now) \in Nat /\ Month(now') \in Nat /\ Month(now) <= Month(now')
    <3>1. now' = now + 1 /\ DaysInMonth \in Nat \ {0}
      BY <1>2, CalendarAssumption DEF Tick
    <3>2. now' \in Nat /\ now' >= now
      BY <1>0, <3>1
    <3> DEFINE d == DaysInMonth
               q == now \div d
               p == now' \div d
    <3>3. q \in Nat /\ p \in Nat
      BY <1>0, <3>1, <3>2, Division
    <3>4. now >= d * q
      BY <1>0, <3>1, Division
    <3>5. now' < d * p + d
      <4> DEFINE y == now'
      <4>1. y \in Nat /\ p = y \div d
        BY <3>2
      <4> HIDE DEF y, p
      <4>2. y % d \in 0..(d - 1) /\ y = d * (y \div d) + (y % d)
        BY <3>1, <4>1, Division
      <4> QED BY <3>1, <3>3, <4>1, <4>2 DEF y
    <3> HIDE DEF d, q, p
    <3>6. d \in Nat \ {0}
      BY <3>1 DEF d
    <3>7. ASSUME q >= p + 1 PROVE FALSE
      <4>1. d * q >= d * (p + 1) /\ d * (p + 1) = d * p + d
        BY <3>3, <3>6, <3>7
      <4>2. d * q \in Nat /\ d * p + d \in Nat
        BY <3>3, <3>6
      <4> QED BY <1>0, <3>2, <3>4, <3>5, <4>1, <4>2
    <3> QED BY <3>3, <3>7 DEF Month, p, q, d
  <2>2. ASSUME NEW s \in Seq(Bucket), MonthsOK(s, Month(now))
        PROVE  MonthsOK(s, Month(now'))
    <3>1. \A i \in 1..Len(s) : s[i] \in Bucket
      OBVIOUS
    <3>2. \A i \in 1..Len(s) : s[i].label <= Month(now')
      BY <2>1, <2>2, <3>1 DEF MonthsOK, Bucket
    <3> QED BY <2>2, <3>2 DEF MonthsOK
  <2> QED BY <1>0, <1>2, <2>2 DEF Tick, MonthsInv
<1>3. CASE UpdateMonthly
  <2>1. buckets'["monthly"] = Updated("monthly", buckets["monthly"], reported)
    BY <1>0, <1>3 DEF UpdateMonthly
  <2>2. MonthsOK(buckets'["monthly"], Month(now))
    BY <1>0, <2>1, UpdatedMonths DEF MonthsInv
  <2> QED BY <1>3, <2>2 DEF UpdateMonthly, MonthsInv
<1>4. CASE Transfer \/ MongoFails \/ Start \/ Stop \/ UNCHANGED vars
  <2>1. NoBuckets["monthly"] = <<>>
    BY DEF NoBuckets, Periods
  <2> QED BY <1>1, <1>4, <2>1 DEF Transfer, MongoFails, Start, Stop, vars
<1>5. CASE UpdateDaily
  BY <1>0, <1>1, <1>5 DEF UpdateDaily, Periods
<1>6. CASE RemoveDaily \/ RemoveMonthly \/ InsertDaily \/ InsertMonthly
  BY <1>0, <1>1, <1>6
  DEF RemoveDaily, RemoveMonthly, InsertDaily, InsertMonthly, SaveStep, Periods
<1> QED BY <1>2, <1>3, <1>4, <1>5, <1>6 DEF Next

\* Whatever stops and failures happen, and in any calendar, no month but December has two
\* monthly buckets, because every other month's bucket is reset in a later month, and
\* December's is due from the start (criteriaData and newBucket? of
\* MonthlyBucketChangeCriteria).
THEOREM MonthsAreDistinct == Spec => []OneBucketPerMonth
<1>1. Init => MonthsInv
  BY DEF Init, MonthsInv, MonthsOK, Periods, NoBuckets
<1>2. IInv /\ MonthsInv => OneBucketPerMonth
  BY DEF MonthsInv, MonthsOK, OneBucketPerMonth
<1> QED BY <1>1, <1>2, NextMonths, InductiveInvariant, PTL DEF Spec

-----------------------------------------------------------------------------
(* Each period type is a ledger. *)

\* The values of buckets are those numbers, in order.
LEMMA ValuesType ==
    ASSUME NEW s \in Seq(Bucket)
    PROVE  /\ Values(s) \in Seq(Int)
           /\ Len(Values(s)) = Len(s)
           /\ \A i \in 1..Len(s) : Values(s)[i] = s[i].value
           /\ Values(s) = <<>> <=> s = <<>>
<1>1. Len(s) \in Nat /\ \A i \in 1..Len(s) : s[i].value \in Int
  <2>1. Len(s) \in Nat /\ \A i \in 1..Len(s) : s[i] \in Bucket
    OBVIOUS
  <2> QED BY <2>1 DEF Bucket
<1>2. Values(s) \in Seq(Int)
  BY <1>1 DEF Values
<1>3. Len(Values(s)) = Len(s)
  BY <1>1 DEF Values
<1> QED BY <1>1, <1>2, <1>3, EmptySeq DEF Values

\* What an update does to the values: the first bucket is opened, or the difference to the
\* usage accounted for so far is charged to the last bucket, or to a new one.
LEMMA UpdatedCharges ==
    ASSUME now \in Nat, NEW p \in Periods, NEW s \in Seq(Bucket), NEW abs \in Int,
           Len(s) <= MaxBuckets[p], IsContiguous(s),
           NEW e, e = Values(s), NEW f, f = Values(Updated(p, s, abs)),
           NEW d, d = abs - Total(s)
    PROVE  \/ e = <<>> /\ f = <<0>>
           \/ e # <<>> /\ f = [e EXCEPT ![Len(e)] = @ + d]
           \/ e # <<>> /\ f = IF Len(Append(e, d)) > MaxBuckets[p] THEN Tail(Append(e, d))
                              ELSE Append(e, d)
<1> DEFINE u == Updated(p, s, abs)
<1>0. MaxBuckets[p] \in Nat \ {0} /\ Len(s) \in Nat
  BY BucketsAssumption
<1>1. u \in Seq(Bucket)
  BY UpdatedFacts
<1>2. /\ e \in Seq(Int) /\ Len(e) = Len(s) /\ \A i \in 1..Len(s) : e[i] = s[i].value
      /\ f \in Seq(Int) /\ Len(f) = Len(u) /\ \A i \in 1..Len(u) : f[i] = u[i].value
      /\ e = <<>> <=> s = <<>>
  BY <1>1, ValuesType
<1>3. d \in Int
  BY TotalType
\* setValue, of any buckets.
<1>4. ASSUME NEW t \in Seq(Bucket), t # <<>>, u = SetValue(t, abs)
      PROVE  /\ Len(t) \in Nat \ {0} /\ Len(u) = Len(t)
             /\ \A i \in 1..(Len(t) - 1) : u[i] = t[i]
             /\ u[Len(t)].value = abs - t[Len(t)].start
  <2> DEFINE n == Len(t)
             b == [t[n] EXCEPT !.value = abs - t[n].start]
  <2>1. n \in Nat \ {0} /\ t[n] \in Bucket
    BY <1>4
  <2>2. b.value = abs - t[n].start
    BY <2>1 DEF Bucket
  <2>3. u = [t EXCEPT ![n] = b]
    BY <1>4 DEF SetValue
  <2> HIDE DEF b, u
  <2>4. Len(u) = n /\ u[n] = b /\ \A i \in 1..(n - 1) : u[i] = t[i]
    BY <1>4, <2>1, <2>3
  <2> QED BY <2>1, <2>2, <2>4
<1>5. CASE s = <<>>
  <2> DEFINE b == NewBucket(p, abs)
  <2>1. b \in Bucket /\ b.start = abs
    BY NewBucketType
  <2>2. u = SetValue(<<b>>, abs)
    BY <1>0, <1>5 DEF Updated, Rolled, Shifted
  <2> HIDE DEF b, u
  <2> DEFINE t == <<b>>
  <2>3. t \in Seq(Bucket) /\ t # <<>> /\ Len(t) = 1 /\ t[1] = b
    BY <2>1
  <2>a. u = SetValue(t, abs)
    BY <2>2
  <2> HIDE DEF t
  <2>b. Len(u) = Len(t) /\ u[Len(t)].value = abs - t[Len(t)].start
    BY <1>4, <2>3, <2>a
  <2>4. Len(u) = 1 /\ u[1].value = 0
    BY <2>1, <2>3, <2>b
  <2>5. Len(f) = 1 /\ f[1] = 0
    BY <1>2, <2>4
  <2>6. f = <<0>>
    BY <1>2, <2>5
  <2> QED BY <1>2, <1>5, <2>6
<1>6. CASE s # <<>> /\ ~IsTimeForNewBucket(p, Current(s))
  <2> DEFINE n == Len(s)
             g == [e EXCEPT ![n] = e[n] + d]
  <2>1. u = SetValue(s, abs)
    BY <1>0, <1>6 DEF Updated, Rolled, Shifted
  <2> HIDE DEF u
  <2>2. /\ n \in Nat \ {0} /\ Len(u) = n
        /\ \A i \in 1..(n - 1) : u[i] = s[i]
        /\ u[n].value = abs - s[n].start
    BY <1>4, <1>6, <2>1
  <2>3. d = abs - (s[n].start + s[n].value) /\ s[n] \in Bucket
    BY <1>6, <2>2 DEF Total, Reach, Current
  <2>4. e[n] + d = abs - s[n].start
    <3>1. s[n].start \in Int /\ s[n].value \in Int
      BY <2>3 DEF Bucket
    <3>2. e[n] = s[n].value
      BY <1>2, <2>2
    <3> QED BY <2>3, <3>1, <3>2
  <2>5. g \in Seq(Int) /\ Len(g) = n /\ g[n] = e[n] + d /\ \A i \in 1..(n - 1) : g[i] = e[i]
    BY <1>2, <1>3, <2>2
  <2> HIDE DEF g
  <2>6. \A i \in 1..n : f[i] = g[i]
    <3> SUFFICES ASSUME NEW i \in 1..n PROVE f[i] = g[i]
      OBVIOUS
    <3>0. f[i] = u[i].value /\ e[i] = s[i].value
      BY <1>2, <2>2
    <3>1. CASE i = n
      BY <2>2, <2>4, <2>5, <3>0, <3>1
    <3>2. CASE i # n
      <4>1. i \in 1..(n - 1)
        BY <2>2, <3>2
      <4> QED BY <2>2, <2>5, <3>0, <4>1
    <3> QED BY <3>1, <3>2
  <2>7. f = g
    BY <1>2, <2>2, <2>5, <2>6, SeqEqual
  <2> QED BY <1>2, <1>6, <2>7 DEF g
<1>7. CASE s # <<>> /\ IsTimeForNewBucket(p, Current(s))
  <2> DEFINE n == Len(s)
             b == NewBucket(p, Reach(Current(s)))
             r == Append(s, b)
             a == Append(e, d)
  <2>1. n \in Nat \ {0} /\ Current(s) \in Bucket
    BY <1>7 DEF Current
  <2>2. Reach(Current(s)) \in Int /\ Reach(Current(s)) = Total(s)
    BY <1>7, <2>1 DEF Reach, Bucket, Total
  <2>3. b \in Bucket /\ b.start = Total(s)
    BY <2>2, NewBucketType
  <2>4. u = SetValue(Shifted(p, r), abs)
    BY <1>7 DEF Updated, Rolled
  <2> HIDE DEF b, u
  <2>5. /\ r \in Seq(Bucket) /\ Len(r) = n + 1 /\ r[n + 1] = b
        /\ \A i \in 1..n : r[i] = s[i]
    BY <2>1, <2>3
  <2>6. /\ a \in Seq(Int) /\ Len(a) = n + 1 /\ a[n + 1] = d
        /\ \A i \in 1..n : a[i] = e[i]
    BY <1>2, <1>3, <2>1
  <2> HIDE DEF r, a
  <2>7. CASE n + 1 <= MaxBuckets[p]
    <3>1. u = SetValue(r, abs)
      BY <1>0, <2>1, <2>4, <2>5, <2>7 DEF Shifted
    <3>2. /\ Len(u) = n + 1 /\ \A i \in 1..n : u[i] = r[i]
          /\ u[n + 1].value = abs - b.start
      BY <1>4, <2>1, <2>5, <3>1
    <3>3. \A i \in 1..(n + 1) : f[i] = a[i]
      <4> SUFFICES ASSUME NEW i \in 1..(n + 1) PROVE f[i] = a[i]
        OBVIOUS
      <4>1. CASE i = n + 1
        <5>1. f[i] = u[n + 1].value
          BY <1>2, <2>1, <3>2, <4>1
        <5>2. u[n + 1].value = d
          BY <2>3, <3>2
        <5>3. a[i] = d
          BY <2>6, <4>1
        <5> QED BY <5>1, <5>2, <5>3
      <4>2. CASE i \in 1..n
        <5>1. f[i] = u[i].value
          BY <1>2, <2>1, <3>2
        <5>2. u[i] = s[i]
          BY <2>5, <3>2, <4>2
        <5>3. a[i] = s[i].value
          BY <1>2, <2>6, <4>2
        <5> QED BY <5>1, <5>2, <5>3
      <4> QED BY <2>1, <4>1, <4>2
    <3>4. f = a
      BY <1>2, <2>1, <2>6, <3>2, <3>3, SeqEqual
    <3> QED BY <1>0, <1>2, <1>7, <2>1, <2>6, <2>7, <3>4 DEF a
  <2>8. CASE n + 1 > MaxBuckets[p]
    <3> DEFINE t == Tail(r)
               g == Tail(a)
    <3>1. u = SetValue(t, abs)
      BY <1>0, <2>1, <2>4, <2>5, <2>8 DEF Shifted
    <3>2. t \in Seq(Bucket) /\ Len(t) = n /\ \A i \in 1..n : t[i] = r[i + 1]
      BY <2>1, <2>5
    <3>3. g \in Seq(Int) /\ Len(g) = n /\ \A i \in 1..n : g[i] = a[i + 1]
      BY <2>1, <2>6
    <3> HIDE DEF t, g
    <3>4. t # <<>>
      BY <2>1, <3>2
    <3>5. /\ Len(u) = n /\ \A i \in 1..(n - 1) : u[i] = t[i]
          /\ u[n].value = abs - t[n].start
      BY <1>4, <3>1, <3>2, <3>4
    <3>6. t[n] = b /\ g[n] = d
      BY <2>1, <2>5, <2>6, <3>2, <3>3
    <3>7. \A i \in 1..n : f[i] = g[i]
      <4> SUFFICES ASSUME NEW i \in 1..n PROVE f[i] = g[i]
        OBVIOUS
      <4>1. CASE i = n
        BY <1>2, <2>3, <3>5, <3>6, <4>1
      <4>2. CASE i \in 1..(n - 1)
        <5>1. i + 1 \in 1..n
          BY <2>1, <4>2
        <5>2. f[i] = t[i].value /\ t[i] = s[i + 1]
          BY <1>2, <2>5, <3>2, <3>5, <4>2, <5>1
        <5>3. g[i] = e[i + 1]
          BY <2>6, <3>3, <5>1
        <5> QED BY <1>2, <5>1, <5>2, <5>3
      <4> QED BY <2>1, <4>1, <4>2
    <3>8. f = g
      BY <1>2, <2>1, <3>3, <3>5, <3>7, SeqEqual
    <3> QED BY <1>0, <1>2, <1>7, <2>1, <2>6, <2>8, <3>8 DEF a, g
  <2> QED BY <1>0, <2>1, <2>7, <2>8
<1> QED BY <1>5, <1>6, <1>7

\* How the counters, the buckets and the documents stand to each other at each step: the
\* counter that the next update reports never lies below what is accounted for, but
\* for monthly buckets that were loaded alone.
LedgerInv ==
    /\ adjustment >= 0
    /\ \A p \in Periods : Total(mongo[p]) >= 0
    /\ pc = "idle" =>
          /\ used + adjustment >= Total(buckets["daily"])
          /\ astray \/ used + adjustment >= Total(buckets["monthly"])
    /\ pc \notin {"idle", "down"} => reported >= 0 /\ used + adjustment >= reported
    /\ pc = "updateMonthly" => astray \/ reported >= Total(buckets["monthly"])
    /\ pc \in SaveSteps => ~astray
    /\ pc = "down" => ~astray
    /\ astray => buckets["monthly"] # <<>>

LEMMA NextLedgerInv == IInv /\ LedgerInv /\ [Next]_vars => LedgerInv'
<1> SUFFICES ASSUME IInv, LedgerInv, [Next]_vars PROVE LedgerInv'
  OBVIOUS
<1>0. /\ TypeOK /\ RoundOK /\ SaveOK /\ DocsAgree
      /\ used \in Nat /\ adjustment \in Int /\ reported \in Int
      /\ buckets \in [Periods -> Seq(Bucket)] /\ mongo \in [Periods -> Seq(Bucket)]
  BY DEF IInv, TypeOK
<1>1. "daily" \in Periods /\ "monthly" \in Periods
  BY DEF Periods
<1>2. \A p \in Periods : Total(buckets[p]) \in Int /\ Total(mongo[p]) \in Int
  BY <1>0, TotalType
<1>3. CASE Tick \/ UNCHANGED vars
  BY <1>3 DEF LedgerInv, Tick, vars
<1>4. CASE Transfer
  <2>1. used' + adjustment' >= used + adjustment /\ used' + adjustment' \in Int
    BY <1>0, <1>4 DEF Transfer
  <2>2. UNCHANGED <<now, pc, buckets, adjustment, reported, haveMongo, mongo, stops, astray>>
    BY <1>4 DEF Transfer
  <2>3. used + adjustment \in Int
    BY <1>0
  <2> QED BY <1>0, <1>1, <1>2, <2>1, <2>2, <2>3 DEF LedgerInv
<1>5. CASE UpdateDaily
  <2>1. /\ pc = "idle" /\ pc' = "updateMonthly" /\ reported' = used + adjustment
        /\ buckets' = [buckets EXCEPT !["daily"] = Updated("daily", buckets["daily"], reported')]
        /\ UNCHANGED <<now, used, adjustment, haveMongo, mongo, stops, astray>>
    BY <1>5 DEF UpdateDaily
  <2>2. buckets'["monthly"] = buckets["monthly"]
    BY <1>0, <1>1, <2>1
  <2>3. reported' >= 0 /\ used' + adjustment' >= reported'
    BY <1>0, <2>1 DEF LedgerInv
  <2> QED BY <2>1, <2>2, <2>3 DEF LedgerInv, SaveSteps
<1>6. CASE UpdateMonthly
  <2>1. /\ pc = "updateMonthly" /\ pc' \in {"removeDaily", "idle"} /\ astray' = FALSE
        /\ buckets' = [buckets EXCEPT !["monthly"] = Updated("monthly", buckets["monthly"], reported)]
        /\ UNCHANGED <<now, used, adjustment, reported, haveMongo, mongo, stops>>
    BY <1>6 DEF UpdateMonthly
  <2>2. reported >= 0 /\ used + adjustment >= reported
    BY <2>1 DEF LedgerInv
  <2>3. Total(buckets'["monthly"]) = reported /\ Total(buckets'["daily"]) = reported
    <3>1. "daily" \in Periods \ {"monthly"}
      BY DEF Periods
    <3>2. Total(buckets'["monthly"]) = reported /\ buckets'["daily"] = buckets["daily"]
      BY <1>0, <1>1, <2>1, <3>1, UpdateOfOneType
    <3> QED BY <1>0, <2>1, <3>2 DEF RoundOK
  <2> QED BY <2>1, <2>2, <2>3 DEF LedgerInv, SaveSteps
<1>7. ASSUME NEW at \in SaveSteps, NEW next, NEW p \in Periods, NEW doc \in {<<>>, buckets[p]},
             SaveStep(at, next, p, doc), next \in SaveSteps \cup {"idle"}
      PROVE  LedgerInv'
  <2>1. /\ pc \in SaveSteps /\ pc' = next
        /\ mongo' = [mongo EXCEPT ![p] = doc]
        /\ UNCHANGED <<now, used, buckets, adjustment, reported, haveMongo, stops, astray>>
    BY <1>7 DEF SaveStep
  <2>2. \A q \in Periods : Total(buckets[q]) = reported
    BY <1>0, <2>1 DEF RoundOK
  <2>3. ~astray /\ reported >= 0 /\ used + adjustment >= reported
    BY <2>1 DEF LedgerInv, SaveSteps
  <2>4. Total(doc) >= 0
    BY <2>2, <2>3 DEF Total
  <2>5. \A q \in Periods : Total(mongo'[q]) >= 0
    BY <1>0, <2>1, <2>4 DEF LedgerInv
  <2> QED BY <1>1, <1>7, <2>1, <2>2, <2>3, <2>5 DEF LedgerInv, SaveSteps
<1>8. CASE RemoveDaily \/ RemoveMonthly \/ InsertDaily \/ InsertMonthly
  BY <1>1, <1>7, <1>8 DEF RemoveDaily, RemoveMonthly, InsertDaily, InsertMonthly, SaveSteps
<1>9. CASE MongoFails
  <2>1. /\ pc \in SaveSteps /\ pc' = "idle"
        /\ UNCHANGED <<now, used, buckets, adjustment, reported, haveMongo, mongo, stops, astray>>
    BY <1>9 DEF MongoFails
  <2>2. Total(buckets["daily"]) = reported /\ Total(buckets["monthly"]) = reported
    BY <1>0, <1>1, <2>1 DEF RoundOK
  <2> QED BY <2>1, <2>2 DEF LedgerInv, SaveSteps
<1>10. CASE Stop
  BY <1>10 DEF Stop, LedgerInv, SaveSteps
<1>11. CASE Start
  <2>1. /\ pc = "down" /\ pc' = "idle" /\ adjustment' = Total(buckets'["daily"])
        /\ buckets' \in {mongo, NoBuckets} /\ mongo' = mongo /\ used' = used
        /\ astray' = (buckets'["daily"] = <<>> /\ buckets'["monthly"] # <<>>)
    BY <1>11 DEF Start
  <2>2. used = 0
    BY <1>0, <2>1 DEF SaveOK
  <2>3. \A p \in Periods : NoBuckets[p] = <<>>
    BY DEF NoBuckets
  <2>4. Total(<<>>) = 0
    BY DEF Total
  <2>5. \A p \in Periods : Total(buckets'[p]) \in Int /\ Total(buckets'[p]) >= 0
    BY <1>2, <2>1, <2>3, <2>4 DEF LedgerInv
  <2>6. used' + adjustment' = Total(buckets'["daily"])
    BY <1>1, <2>1, <2>2, <2>5
  <2>7. astray' \/ Total(buckets'["daily"]) >= Total(buckets'["monthly"])
    <3>1. CASE buckets'["monthly"] = <<>>
      BY <1>1, <2>4, <2>5, <3>1
    <3>2. CASE buckets'["daily"] # <<>> /\ buckets'["monthly"] # <<>>
      <4>1. buckets' = mongo
        BY <1>1, <2>1, <2>3, <3>2
      <4>2. Total(mongo["daily"]) = Total(mongo["monthly"])
        BY <1>0, <3>2, <4>1 DEF DocsAgree, Periods
      <4> QED BY <1>1, <1>2, <4>1, <4>2
    <3> QED BY <2>1, <3>1, <3>2
  <2>8. Total(buckets'["daily"]) >= Total(buckets'["daily"])
    BY <1>1, <2>5
  <2>9. mongo' = mongo /\ \A p \in Periods : Total(mongo[p]) >= 0
    BY <2>1 DEF LedgerInv
  <2>10. adjustment' >= 0
    BY <1>1, <2>1, <2>5
  <2>11. astray' => buckets'["monthly"] # <<>>
    BY <2>1
  <2> QED BY <2>1, <2>6, <2>7, <2>8, <2>9, <2>10, <2>11 DEF LedgerInv, SaveSteps
<1> QED BY <1>3, <1>4, <1>5, <1>6, <1>8, <1>9, <1>10, <1>11 DEF Next

\* What an update of period type p does to the ledger that began with buckets s.
Charged(p, s, r) ==
    LET e == Values(s)
        d == Total(r) - Total(s)
        a == Append(e, d)
    IN  \/ e = <<>> /\ Values(r) = <<0>>
        \/ e # <<>> /\ Values(r) = [e EXCEPT ![Len(e)] = @ + d]
        \/ e # <<>> /\ Values(r) = IF Len(a) > MaxBuckets[p] THEN Tail(a) ELSE a

LEMMA UpdateIsCharge ==
    ASSUME IInv, NEW p \in Periods, NEW abs \in Int,
           buckets' = [buckets EXCEPT ![p] = Updated(p, buckets[p], abs)]
    PROVE  /\ Charged(p, buckets[p], buckets'[p])
           /\ Total(buckets'[p]) = abs
           /\ \A q \in Periods \ {p} : buckets'[q] = buckets[q]
<1> DEFINE s == buckets[p]
           f == Values(Updated(p, s, abs))
           e == Values(s)
           d == abs - Total(s)
<1>1. /\ now \in Nat /\ buckets \in [Periods -> Seq(Bucket)]
      /\ s \in Seq(Bucket) /\ Len(s) <= MaxBuckets[p] /\ IsContiguous(s)
  BY DEF IInv, TypeOK, Contiguous
<1>2. /\ Total(buckets'[p]) = abs
      /\ \A q \in Periods \ {p} : buckets'[q] = buckets[q]
  BY UpdateOfOneType
<1>3. Values(buckets'[p]) = f
  BY <1>1
<1>4. \/ e = <<>> /\ f = <<0>>
      \/ e # <<>> /\ f = [e EXCEPT ![Len(e)] = @ + d]
      \/ e # <<>> /\ f = IF Len(Append(e, d)) > MaxBuckets[p] THEN Tail(Append(e, d))
                         ELSE Append(e, d)
  BY <1>1, UpdatedCharges
<1>5. Charged(p, s, buckets'[p])
  BY <1>2, <1>3, <1>4 DEF Charged
<1> QED BY <1>2, <1>5

\* Only a daemon that has found Mongo saves.
SavesToMongo == pc \in SaveSteps => haveMongo

LEMMA NextSavesToMongo == SavesToMongo /\ [Next]_vars => SavesToMongo'
<1> SUFFICES ASSUME SavesToMongo, [Next]_vars PROVE SavesToMongo'
  OBVIOUS
<1>1. CASE Tick \/ Transfer \/ UpdateDaily \/ UpdateMonthly \/ UNCHANGED vars
  BY <1>1 DEF Tick, Transfer, UpdateDaily, UpdateMonthly, vars, SavesToMongo, SaveSteps
<1>2. CASE RemoveDaily \/ RemoveMonthly \/ InsertDaily \/ InsertMonthly
  BY <1>2 DEF RemoveDaily, RemoveMonthly, InsertDaily, InsertMonthly, SaveStep,
              SavesToMongo, SaveSteps
<1>3. CASE MongoFails \/ Stop \/ Start
  BY <1>3 DEF MongoFails, Stop, Start, SavesToMongo, SaveSteps
<1> QED BY <1>1, <1>2, <1>3 DEF Next

\* No buckets are an empty ledger.
LEMMA EmptyLedger == Ledger(<<>>) = [entries |-> <<>>, total |-> 0]
<1>1. Values(<<>>) = <<>>
  <2>1. <<>> \in Seq(Bucket)
    OBVIOUS
  <2> QED BY <2>1, ValuesType
<1> QED BY <1>1 DEF Ledger, Total

\* Every step of the tracker is, for the daily buckets, a step of the ledger or none: an update
\* charges, a save removes and copies, a stop is a crash, and a start resumes or begins again.
LEMMA NextIsDaily ==
    IInv /\ LedgerInv /\ SavesToMongo /\ [Next]_vars => [Daily!LedgerNext]_Daily!ledgerVars
<1> SUFFICES ASSUME IInv, LedgerInv, SavesToMongo, [Next]_vars
             PROVE  [Daily!LedgerNext]_Daily!ledgerVars
  OBVIOUS
<1>0. /\ TypeOK /\ SaveOK
      /\ used \in Nat /\ adjustment \in Int /\ reported \in Int
      /\ buckets \in [Periods -> Seq(Bucket)] /\ mongo \in [Periods -> Seq(Bucket)]
  BY DEF IInv, TypeOK
<1>1. "daily" \in Periods /\ "monthly" \in Periods \ {"daily"} /\ "monthly" \in Periods
  BY DEF Periods
<1>2. Total(buckets["daily"]) \in Int
  BY <1>0, <1>1, TotalType
<1>3. CASE UpdateDaily
  <2>1. /\ pc = "idle" /\ pc' = "updateMonthly" /\ reported' = used + adjustment
        /\ buckets' = [buckets EXCEPT !["daily"] = Updated("daily", buckets["daily"], reported')]
        /\ UNCHANGED <<now, used, adjustment, haveMongo, mongo, stops, astray>>
    BY <1>3 DEF UpdateDaily
  <2>2. reported' \in Int /\ reported' >= Total(buckets["daily"]) /\ reported' >= 0
    BY <1>0, <2>1 DEF LedgerInv
  <2>3. Charged("daily", buckets["daily"], buckets'["daily"]) /\ Total(buckets'["daily"]) = reported'
    BY <1>1, <2>1, <2>2, UpdateIsCharge
  <2>4. Mode # "down" /\ Mode' = Mode /\ UNCHANGED mongo
    BY <2>1 DEF Mode
  <2> DEFINE e == Values(buckets["daily"])
             f == Values(buckets'["daily"])
             d == Total(buckets'["daily"]) - Total(buckets["daily"])
  <2>5. e = <<>> <=> buckets["daily"] = <<>>
    BY <1>0, <1>1, ValuesType
  <2>6. CASE e = <<>> /\ f = <<0>>
    <3>1. Total(buckets["daily"]) = 0
      BY <2>5, <2>6 DEF Total
    <3>2. Total(buckets'["daily"]) >= Total(buckets["daily"])
      BY <2>2, <2>3, <3>1
    <3> QED BY <2>4, <2>6, <3>2 DEF Daily!LedgerNext, Daily!Open
  <2>7. Total(buckets["daily"]) \in Int /\ (d >= 0 )
    BY <1>1, <1>2, <2>2, <2>3
  <2>8. CASE e # <<>> /\ f = [e EXCEPT ![Len(e)] = @ + d]
    BY <2>1, <2>4, <2>7, <2>8 DEF Daily!LedgerNext, Daily!Charge, Daily!ChargeCurrent
  <2>9. CASE e # <<>> /\ f = IF Len(Append(e, d)) > MaxBuckets["daily"] THEN Tail(Append(e, d))
                             ELSE Append(e, d)
    BY <2>1, <2>4, <2>7, <2>9 DEF Daily!LedgerNext, Daily!Charge, Daily!ChargeNext, Daily!Trim
  <2> HIDE DEF e, f, d
  <2> QED BY <2>3, <2>6, <2>8, <2>9 DEF Charged, e, f, d
<1>4. ASSUME UNCHANGED <<buckets["daily"], mongo["daily"], Mode>>
      PROVE  [Daily!LedgerNext]_Daily!ledgerVars
  <2>1. /\ Values(buckets["daily"])' = Values(buckets["daily"])
        /\ Total(buckets["daily"])' = Total(buckets["daily"])
        /\ Ledger(mongo["daily"])' = Ledger(mongo["daily"])
    BY <1>4
  <2> QED BY <1>4, <2>1 DEF Daily!ledgerVars
<1>5. ASSUME UNCHANGED <<buckets, Mode, astray>>, Mode = "attached",
             mongo'["daily"] \in {<<>>, buckets["daily"]}
      PROVE  [Daily!LedgerNext]_Daily!ledgerVars
  <2>1. Ledger(<<>>) = Daily!Nothing
    BY EmptyLedger DEF Daily!Nothing
  <2>2. Ledger(mongo["daily"])' \in {Daily!Nothing, Ledger(buckets["daily"])}
    BY <1>5, <2>1
  <2> QED BY <1>5, <2>2 DEF Daily!LedgerNext, Daily!Save, Ledger
<1>6. CASE UpdateMonthly
  <2>1. /\ UNCHANGED <<haveMongo, mongo>> /\ pc # "down" /\ pc' # "down"
        /\ buckets' = [buckets EXCEPT !["monthly"] = Updated("monthly", buckets["monthly"], reported)]
    BY <1>6 DEF UpdateMonthly
  <2>2. buckets'["daily"] = buckets["daily"] /\ Mode' = Mode
    BY <1>0, <1>1, <2>1 DEF Mode
  <2> QED BY <1>4, <2>1, <2>2
<1>7. CASE RemoveDaily \/ InsertDaily
  <2>1. /\ UNCHANGED <<buckets, haveMongo, astray>> /\ pc \in SaveSteps
        /\ pc' \in SaveSteps \cup {"idle"}
        /\ mongo'["daily"] \in {<<>>, buckets["daily"]}
    BY <1>0, <1>1, <1>7 DEF RemoveDaily, InsertDaily, SaveStep, SaveSteps
  <2>2. Mode = "attached" /\ Mode' = Mode
    BY <2>1 DEF SavesToMongo, Mode, SaveSteps
  <2> QED BY <1>5, <2>1, <2>2
<1>8. CASE RemoveMonthly \/ InsertMonthly
  <2>1. /\ UNCHANGED <<buckets, haveMongo, astray>> /\ pc # "down" /\ pc' # "down"
        /\ mongo'["daily"] = mongo["daily"]
    BY <1>0, <1>1, <1>8 DEF RemoveMonthly, InsertMonthly, SaveStep
  <2>2. Mode' = Mode
    BY <2>1 DEF Mode
  <2> QED BY <1>4, <2>1, <2>2
<1>9. CASE Tick \/ Transfer \/ MongoFails \/ UNCHANGED vars
  <2>1. /\ UNCHANGED <<buckets, mongo, haveMongo, astray>>
        /\ pc' = "down" <=> pc = "down"
    BY <1>9 DEF Tick, Transfer, MongoFails, SaveSteps, vars
  <2> QED BY <1>4, <2>1 DEF Mode
<1>10. CASE Stop
  <2>1. /\ pc # "down" /\ pc' = "down" /\ buckets' = NoBuckets /\ mongo' = mongo /\ astray' = FALSE
    BY <1>10 DEF Stop
  <2>2. buckets'["daily"] = <<>>
    BY <1>1, <2>1 DEF NoBuckets
  <2>3. Values(buckets'["daily"]) = <<>> /\ Total(buckets'["daily"]) = 0
    BY <2>2, EmptyLedger DEF Ledger
  <2>4. Mode # "down" /\ Mode' = "down"
    BY <2>1 DEF Mode
  <2>5. Ledger(mongo["daily"])' = Ledger(mongo["daily"])
    BY <2>1
  <2> QED BY <2>1, <2>3, <2>4, <2>5 DEF Daily!LedgerNext, Daily!Crash
<1>11. CASE Start
  <2>1. /\ pc = "down" /\ pc' = "idle" /\ mongo' = mongo /\ haveMongo' \in BOOLEAN
        /\ buckets' = IF haveMongo' THEN mongo ELSE NoBuckets
        /\ astray' = (buckets'["daily"] = <<>> /\ buckets'["monthly"] # <<>>)
    BY <1>11 DEF Start
  <2>2. Mode = "down" /\ Mode' = IF haveMongo' THEN "attached" ELSE "detached"
    BY <2>1 DEF Mode
  <2>3. Ledger(mongo["daily"])' = Ledger(mongo["daily"])
    BY <2>1
  <2>4. CASE haveMongo'
    <3>1. buckets'["daily"] = mongo["daily"]
      BY <2>1, <2>4
    <3>2. buckets' \in [Periods -> Seq(Bucket)]
      BY <1>0, <2>1, <2>4
    <3>3. Values(buckets'["daily"]) = <<>> <=> buckets'["daily"] = <<>>
      BY <1>1, <3>2, ValuesType
    <3>4. Daily!Resume
      BY <2>1, <2>2, <2>4, <3>1, <3>3 DEF Daily!Resume, Ledger
    <3> QED BY <2>2, <2>3, <3>4 DEF Daily!LedgerNext, Daily!Restart
  <2>5. CASE ~haveMongo'
    <3>1. buckets["daily"] = <<>> /\ buckets'["daily"] = <<>> /\ astray' = FALSE /\ astray = FALSE
      BY <1>0, <1>1, <2>1, <2>5 DEF SaveOK, NoBuckets, LedgerInv, TypeOK, Periods
    <3>2. Daily!BeginAgain
      BY <2>2, <2>5, <3>1 DEF Daily!BeginAgain
    <3> QED BY <2>2, <2>3, <3>2 DEF Daily!LedgerNext, Daily!Restart
  <2> QED BY <2>1, <2>4, <2>5
<1> QED BY <1>3, <1>6, <1>7, <1>8, <1>9, <1>10, <1>11 DEF Next

\* The same of the monthly buckets, which a restart may have loaded alone.
LEMMA NextIsMonthly ==
    IInv /\ LedgerInv /\ SavesToMongo /\ [Next]_vars => [Monthly!LedgerNext]_Monthly!ledgerVars
<1> SUFFICES ASSUME IInv, LedgerInv, SavesToMongo, [Next]_vars
             PROVE  [Monthly!LedgerNext]_Monthly!ledgerVars
  OBVIOUS
<1>0. /\ TypeOK /\ SaveOK
      /\ used \in Nat /\ adjustment \in Int /\ reported \in Int
      /\ buckets \in [Periods -> Seq(Bucket)] /\ mongo \in [Periods -> Seq(Bucket)]
  BY DEF IInv, TypeOK
<1>1. "monthly" \in Periods /\ "daily" \in Periods \ {"monthly"} /\ "daily" \in Periods
  BY DEF Periods
<1>2. Total(buckets["monthly"]) \in Int
  BY <1>0, <1>1, TotalType
<1>3. CASE UpdateMonthly
  <2>1. /\ pc = "updateMonthly" /\ pc' \in {"removeDaily", "idle"} /\ astray' = FALSE
        /\ buckets' = [buckets EXCEPT !["monthly"] = Updated("monthly", buckets["monthly"], reported)]
        /\ UNCHANGED <<now, used, adjustment, reported, haveMongo, mongo, stops>>
    BY <1>3 DEF UpdateMonthly
  <2>2. /\ reported \in Int /\ reported >= 0
        /\ astray \/ reported >= Total(buckets["monthly"])
        /\ astray => buckets["monthly"] # <<>>
    BY <1>0, <2>1 DEF LedgerInv
  <2>3. Charged("monthly", buckets["monthly"], buckets'["monthly"]) /\ Total(buckets'["monthly"]) = reported
    BY <1>1, <2>1, <2>2, UpdateIsCharge
  <2>4. Mode # "down" /\ Mode' = Mode /\ UNCHANGED mongo
    BY <2>1 DEF Mode
  <2> DEFINE e == Values(buckets["monthly"])
             f == Values(buckets'["monthly"])
             d == Total(buckets'["monthly"]) - Total(buckets["monthly"])
  <2>5. e = <<>> <=> buckets["monthly"] = <<>>
    BY <1>0, <1>1, ValuesType
  <2>6. CASE e = <<>> /\ f = <<0>>
    <3>1. Total(buckets["monthly"]) = 0
      BY <2>5, <2>6 DEF Total
    <3>2. Total(buckets'["monthly"]) >= Total(buckets["monthly"])
      BY <2>2, <2>3, <3>1
    <3>3. astray = FALSE
      BY <1>0, <2>2, <2>5, <2>6 DEF TypeOK
    <3> QED BY <2>1, <2>4, <2>6, <3>2, <3>3 DEF Monthly!LedgerNext, Monthly!Open
  <2>7. Total(buckets["monthly"]) \in Int /\ (d >= 0 \/ astray)
    BY <1>1, <1>2, <2>2, <2>3
  <2>8. CASE e # <<>> /\ f = [e EXCEPT ![Len(e)] = @ + d]
    BY <2>1, <2>4, <2>7, <2>8 DEF Monthly!LedgerNext, Monthly!Charge, Monthly!ChargeCurrent
  <2>9. CASE e # <<>> /\ f = IF Len(Append(e, d)) > MaxBuckets["monthly"] THEN Tail(Append(e, d))
                             ELSE Append(e, d)
    BY <2>1, <2>4, <2>7, <2>9 DEF Monthly!LedgerNext, Monthly!Charge, Monthly!ChargeNext, Monthly!Trim
  <2> HIDE DEF e, f, d
  <2> QED BY <2>3, <2>6, <2>8, <2>9 DEF Charged, e, f, d
<1>4. ASSUME UNCHANGED <<buckets["monthly"], mongo["monthly"], Mode, astray>>
      PROVE  [Monthly!LedgerNext]_Monthly!ledgerVars
  <2>1. /\ Values(buckets["monthly"])' = Values(buckets["monthly"])
        /\ Total(buckets["monthly"])' = Total(buckets["monthly"])
        /\ Ledger(mongo["monthly"])' = Ledger(mongo["monthly"])
    BY <1>4
  <2> QED BY <1>4, <2>1 DEF Monthly!ledgerVars
<1>5. ASSUME UNCHANGED <<buckets, Mode, astray>>, Mode = "attached",
             mongo'["monthly"] \in {<<>>, buckets["monthly"]}
      PROVE  [Monthly!LedgerNext]_Monthly!ledgerVars
  <2>1. Ledger(<<>>) = Monthly!Nothing
    BY EmptyLedger DEF Monthly!Nothing
  <2>2. Ledger(mongo["monthly"])' \in {Monthly!Nothing, Ledger(buckets["monthly"])}
    BY <1>5, <2>1
  <2> QED BY <1>5, <2>2 DEF Monthly!LedgerNext, Monthly!Save, Ledger
<1>6. CASE UpdateDaily
  <2>1. /\ UNCHANGED <<haveMongo, mongo, astray>> /\ pc # "down" /\ pc' # "down"
        /\ buckets' = [buckets EXCEPT !["daily"] = Updated("daily", buckets["daily"], reported')]
    BY <1>6 DEF UpdateDaily
  <2>2. buckets'["monthly"] = buckets["monthly"] /\ Mode' = Mode
    BY <1>0, <1>1, <2>1 DEF Mode
  <2> QED BY <1>4, <2>1, <2>2
<1>7. CASE RemoveMonthly \/ InsertMonthly
  <2>1. /\ UNCHANGED <<buckets, haveMongo, astray>> /\ pc \in SaveSteps
        /\ pc' \in SaveSteps \cup {"idle"}
        /\ mongo'["monthly"] \in {<<>>, buckets["monthly"]}
    BY <1>0, <1>1, <1>7 DEF RemoveMonthly, InsertMonthly, SaveStep, SaveSteps
  <2>2. Mode = "attached" /\ Mode' = Mode
    BY <2>1 DEF SavesToMongo, Mode, SaveSteps
  <2> QED BY <1>5, <2>1, <2>2
<1>8. CASE RemoveDaily \/ InsertDaily
  <2>1. /\ UNCHANGED <<buckets, haveMongo, astray>> /\ pc # "down" /\ pc' # "down"
        /\ mongo'["monthly"] = mongo["monthly"]
    BY <1>0, <1>1, <1>8 DEF RemoveDaily, InsertDaily, SaveStep
  <2>2. Mode' = Mode
    BY <2>1 DEF Mode
  <2> QED BY <1>4, <2>1, <2>2
<1>9. CASE Tick \/ Transfer \/ MongoFails \/ UNCHANGED vars
  <2>1. /\ UNCHANGED <<buckets, mongo, haveMongo, astray>>
        /\ pc' = "down" <=> pc = "down"
    BY <1>9 DEF Tick, Transfer, MongoFails, SaveSteps, vars
  <2> QED BY <1>4, <2>1 DEF Mode
<1>10. CASE Stop
  <2>1. /\ pc # "down" /\ pc' = "down" /\ buckets' = NoBuckets /\ mongo' = mongo /\ astray' = FALSE
    BY <1>10 DEF Stop
  <2>2. buckets'["monthly"] = <<>>
    BY <1>1, <2>1 DEF NoBuckets
  <2>3. Values(buckets'["monthly"]) = <<>> /\ Total(buckets'["monthly"]) = 0
    BY <2>2, EmptyLedger DEF Ledger
  <2>4. Mode # "down" /\ Mode' = "down"
    BY <2>1 DEF Mode
  <2>5. Ledger(mongo["monthly"])' = Ledger(mongo["monthly"])
    BY <2>1
  <2> QED BY <2>1, <2>3, <2>4, <2>5 DEF Monthly!LedgerNext, Monthly!Crash
<1>11. CASE Start
  <2>1. /\ pc = "down" /\ pc' = "idle" /\ mongo' = mongo /\ haveMongo' \in BOOLEAN
        /\ buckets' = IF haveMongo' THEN mongo ELSE NoBuckets
        /\ astray' = (buckets'["daily"] = <<>> /\ buckets'["monthly"] # <<>>)
    BY <1>11 DEF Start
  <2>2. Mode = "down" /\ Mode' = IF haveMongo' THEN "attached" ELSE "detached"
    BY <2>1 DEF Mode
  <2>3. Ledger(mongo["monthly"])' = Ledger(mongo["monthly"])
    BY <2>1
  <2>4. CASE haveMongo'
    <3>1. buckets'["monthly"] = mongo["monthly"]
      BY <2>1, <2>4
    <3>2. buckets' \in [Periods -> Seq(Bucket)]
      BY <1>0, <2>1, <2>4
    <3>3. Values(buckets'["monthly"]) = <<>> <=> buckets'["monthly"] = <<>>
      BY <1>1, <3>2, ValuesType
    <3>4. Monthly!Resume
      BY <2>1, <2>2, <2>4, <3>1, <3>3 DEF Monthly!Resume, Ledger
    <3> QED BY <2>2, <2>3, <3>4 DEF Monthly!LedgerNext, Monthly!Restart
  <2>5. CASE ~haveMongo'
    <3>1. buckets["monthly"] = <<>> /\ buckets'["monthly"] = <<>> /\ astray' = FALSE /\ astray = FALSE
      BY <1>0, <1>1, <2>1, <2>5 DEF SaveOK, NoBuckets, LedgerInv, TypeOK, Periods
    <3>2. Monthly!BeginAgain
      BY <2>2, <2>5, <3>1 DEF Monthly!BeginAgain
    <3> QED BY <2>2, <2>3, <3>2 DEF Monthly!LedgerNext, Monthly!Restart
  <2> QED BY <2>1, <2>4, <2>5
<1> QED BY <1>3, <1>6, <1>7, <1>8, <1>9, <1>10, <1>11 DEF Next

LEMMA InitLedgers == Init => LedgerInv /\ SavesToMongo /\ Daily!LedgerInit /\ Monthly!LedgerInit
<1> SUFFICES ASSUME Init
             PROVE  LedgerInv /\ SavesToMongo /\ Daily!LedgerInit /\ Monthly!LedgerInit
  OBVIOUS
<1>1. \A p \in Periods : buckets[p] = <<>> /\ mongo[p] = <<>>
  BY DEF Init, NoBuckets
<1>2. "daily" \in Periods /\ "monthly" \in Periods
  BY DEF Periods
<1>3. Total(<<>>) = 0
  BY DEF Total
<1>4. Values(<<>>) = <<>>
  BY EmptyLedger DEF Ledger
<1>5. LedgerInv /\ SavesToMongo
  BY <1>1, <1>2, <1>3 DEF Init, LedgerInv, SavesToMongo, SaveSteps
<1>6. Mode \in {"attached", "detached"} /\ astray = FALSE
  BY DEF Init, Mode
<1> QED BY <1>1, <1>2, <1>3, <1>4, <1>5, <1>6, EmptyLedger
        DEF Daily!LedgerInit, Monthly!LedgerInit, Daily!Nothing, Monthly!Nothing

\* Each period type implements the abstract ledger: whatever restarts with and without Mongo,
\* failed calls to Mongo and shifts happen, an update charges what was newly used, once, to
\* the newest bucket, no older bucket is rewritten, and a restart continues from the document
\* of one earlier moment or from nothing; only a monthly document that is found without a daily
\* one makes the ledger go back, once (UsageTracker#update, PeriodicBuckets,
\* saveBucketsToMongo, loadBucketsFromMongo).
THEOREM LedgersImplemented == Spec => Ledgers
<1> DEFINE Inv == IInv /\ LedgerInv /\ SavesToMongo
<1>1. Inv /\ [Next]_vars => Inv'
  BY NextIInv, NextLedgerInv, NextSavesToMongo
<1>2. Init => Inv
  BY InitIInv, InitLedgers
<1>3. Inv /\ [Next]_vars => [Daily!LedgerNext]_Daily!ledgerVars
  BY NextIsDaily
<1>4. Inv /\ [Next]_vars => [Monthly!LedgerNext]_Monthly!ledgerVars
  BY NextIsMonthly
<1> HIDE DEF Inv
<1>5. Spec => []Inv
  BY <1>1, <1>2, PTL DEF Spec
<1>6. Spec => Daily!LedgerSpec
  BY <1>3, <1>5, InitLedgers, PTL DEF Spec, Daily!LedgerSpec
<1>7. Spec => Monthly!LedgerSpec
  BY <1>4, <1>5, InitLedgers, PTL DEF Spec, Monthly!LedgerSpec
<1> QED BY <1>6, <1>7 DEF Ledgers

-----------------------------------------------------------------------------
(* checkLimit *)

\* When no limit is crossed, the same limits are exceeded before and after.
LEMMA NotCrossed ==
    ASSUME NEW last \in [PeriodTypes -> Nat], NEW cur \in [PeriodTypes -> Nat], ~Crossed(last, cur)
    PROVE  \A p \in PeriodTypes : Above(p, last) <=> Above(p, cur)
  BY LimitAssumption DEF Crossed, CrossedUpwards, CrossedDownwards, Above

\* A limit that was crossed when none is exceeded any more was exceeded before.
LEMMA CrossedBack ==
    ASSUME NEW last \in [PeriodTypes -> Nat], NEW cur \in [PeriodTypes -> Nat],
           Crossed(last, cur), ~AboveAny(cur)
    PROVE  AboveAny(last)
  BY LimitAssumption DEF Crossed, CrossedUpwards, CrossedDownwards, AboveAny, Above

-----------------------------------------------------------------------------
(* The inductive invariant. *)

\* What the thread knows while it changes the torrents' state.
ThreadOK ==
    /\ phase = "pausing" =>
         AboveAny(tracked) /\ torrents \subseteq todo \cup paused \cup userResumed
    /\ phase = "unpausing" =>
         ~AboveAny(tracked) /\ AboveAny(lastUsage) /\ heldBack \subseteq todo

LimitsInv == LimitsTypeOK /\ ThreadOK /\ AlarmWhileAbove /\ PausedWhileAbove /\ NoneHeldBack

LEMMA InitLimitsInv == LimitsInit => LimitsInv
<1> SUFFICES ASSUME LimitsInit PROVE LimitsInv
  OBVIOUS
<1> USE DEF LimitsInit
<1>1. ~AboveAny(lastUsage)
  BY LimitAssumption DEF AboveAny, Above, Zero
<1>2. LimitsTypeOK
  <2>1. failing \in BOOLEAN
    OBVIOUS
  <2> QED BY <2>1, LimitAssumption DEF LimitsTypeOK, Zero
<1> QED BY <1>1, <1>2 DEF LimitsInv, ThreadOK, AlarmWhileAbove, PausedWhileAbove, NoneHeldBack

\* Steps that leave the thread, the alarms and the usage alone, and that take no torrent
\* out of paused and userResumed, nor put one in heldBack.
LEMMA EnvironmentStep ==
    ASSUME LimitsInv, LimitsTypeOK', UNCHANGED <<threadVars, alarms>>,
           (torrents \ (paused \cup userResumed))' \subseteq torrents \ (paused \cup userResumed),
           heldBack' \subseteq heldBack
    PROVE  LimitsInv'
<1> USE DEF LimitsInv, threadVars
<1>1. AlarmWhileAbove'
  BY DEF AlarmWhileAbove
<1>2. PausedWhileAbove'
  BY DEF PausedWhileAbove
<1>3. NoneHeldBack'
  BY DEF NoneHeldBack
<1>4. ThreadOK'
  BY DEF ThreadOK
<1> QED BY <1>1, <1>2, <1>3, <1>4

LEMMA NextLimitsInv == LimitsInv /\ [LimitsNext]_limitsVars => LimitsInv'
<1> SUFFICES ASSUME LimitsInv, [LimitsNext]_limitsVars PROVE LimitsInv'
  OBVIOUS
<1>0. LimitsTypeOK /\ ThreadOK /\ AlarmWhileAbove /\ PausedWhileAbove /\ NoneHeldBack
  BY DEF LimitsInv
<1>1. CASE Constructed
  <2>1. LimitsTypeOK'
    BY <1>0, <1>1 DEF Constructed, LimitsTypeOK, threadVars, NoTable
  <2>2. ~AboveAny(lastUsage)
    <3>1. "daily" \notin alarms /\ "monthly" \notin alarms
      BY <1>1 DEF Constructed, NoTable
    <3> QED BY <1>0, <3>1 DEF AlarmWhileAbove
  <2> QED BY <1>0, <1>1, <2>1, <2>2
          DEF Constructed, threadVars, LimitsInv, ThreadOK, AlarmWhileAbove, PausedWhileAbove,
              NoneHeldBack
<1>2. CASE Update \/ UpdateFails
  <2>1. LimitsTypeOK'
    <3>1. tracked' \in [PeriodTypes -> Nat]
      <4>1. PICK d \in 0..MaxBucket, R \in SUBSET PeriodTypes :
              tracked' = [p \in PeriodTypes |-> IF p \in R THEN d ELSE tracked[p] + d]
        BY <1>2 DEF Update, UpdateFails, Track
      <4>2. d \in Nat /\ tracked \in [PeriodTypes -> Nat]
        BY <1>0, LimitAssumption DEF LimitsTypeOK
      <4> QED BY <4>1, <4>2
    <3> QED BY <1>0, <1>2, <3>1 DEF Update, UpdateFails, Track, LimitsTypeOK
  <2> QED BY <1>0, <1>2, <2>1
          DEF Update, UpdateFails, Track, LimitsInv, ThreadOK, AlarmWhileAbove, PausedWhileAbove,
              NoneHeldBack
<1>3. CASE Check
  <2>0. tracked \in [PeriodTypes -> Nat] /\ lastUsage \in [PeriodTypes -> Nat]
    BY <1>0 DEF LimitsTypeOK
  <2>1. LimitsTypeOK'
    BY <1>0, <1>3 DEF Check, LimitsTypeOK
  <2>2. CASE Crossed(lastUsage, tracked)
    <3>1. /\ phase = "check" /\ todo' = torrents
          /\ phase' = IF AboveAny(tracked) THEN "pausing" ELSE "unpausing"
          /\ UNCHANGED <<tracked, lastUsage, torrents, paused, toggling, alarms,
                         userResumed, heldBack, cutShort>>
      BY <1>3, <2>2 DEF Check
    <3>2. ~AboveAny(tracked) => AboveAny(lastUsage)
      BY <2>0, <2>2, CrossedBack
    <3>3. ThreadOK'
      BY <1>0, <3>1, <3>2 DEF ThreadOK, LimitsTypeOK, AboveAny, Above
    <3>4. AlarmWhileAbove' /\ PausedWhileAbove' /\ NoneHeldBack'
      BY <1>0, <3>1, <3>2
      DEF AlarmWhileAbove, PausedWhileAbove, NoneHeldBack, AboveAny, Above
    <3> QED BY <2>1, <3>3, <3>4 DEF LimitsInv
  <2>3. CASE ~Crossed(lastUsage, tracked)
    <3>1. /\ phase = "check" /\ phase' = "asleep" /\ lastUsage' = tracked
          /\ UNCHANGED <<tracked, todo, torrents, paused, toggling, alarms,
                         userResumed, heldBack, cutShort>>
      BY <1>3, <2>3 DEF Check
    <3>2. \A p \in PeriodTypes : Above(p, lastUsage) <=> Above(p, lastUsage')
      BY <2>0, <2>3, <3>1, NotCrossed
    <3>3. AboveAny(lastUsage) <=> AboveAny(lastUsage')
      BY <3>2 DEF AboveAny
    <3>4. Above("daily", lastUsage) <=> Above("daily", lastUsage')
      BY <3>2 DEF PeriodTypes
    <3>5. AlarmWhileAbove' /\ PausedWhileAbove' /\ NoneHeldBack' /\ ThreadOK'
      BY <1>0, <3>1, <3>3, <3>4
      DEF AlarmWhileAbove, PausedWhileAbove, NoneHeldBack, ThreadOK
    <3> QED BY <2>1, <3>5 DEF LimitsInv
  <2> QED BY <2>2, <2>3
<1>4. ASSUME NEW t \in Torrents, PauseNext(t) PROVE LimitsInv'
  <2>1. LimitsTypeOK'
    BY <1>0, <1>4 DEF PauseNext, LimitsTypeOK
  <2>2. ThreadOK'
    BY <1>0, <1>4 DEF PauseNext, ThreadOK
  <2>3. AlarmWhileAbove' /\ PausedWhileAbove' /\ NoneHeldBack'
    BY <1>0, <1>4 DEF PauseNext, AlarmWhileAbove, PausedWhileAbove, NoneHeldBack
  <2> QED BY <2>1, <2>2, <2>3 DEF LimitsInv
<1>5. ASSUME NEW t \in Torrents, ResumeNext(t) PROVE LimitsInv'
  <2>1. LimitsTypeOK'
    BY <1>0, <1>5 DEF ResumeNext, LimitsTypeOK
  <2>2. ThreadOK'
    BY <1>0, <1>5 DEF ResumeNext, ThreadOK
  <2>3. AlarmWhileAbove' /\ PausedWhileAbove' /\ NoneHeldBack'
    BY <1>0, <1>5 DEF ResumeNext, AlarmWhileAbove, PausedWhileAbove, NoneHeldBack
  <2> QED BY <2>1, <2>2, <2>3 DEF LimitsInv
<1>6. CASE RaiseAlarm
  <2>1. LimitsTypeOK'
    <3>1. alarms' \in SUBSET PeriodTypes
      BY <1>0, <1>6 DEF RaiseAlarm, LimitsTypeOK, PeriodTypes
    <3> QED BY <1>0, <1>6, <3>1 DEF RaiseAlarm, Remember, LimitsTypeOK
  <2>2. ThreadOK' /\ AlarmWhileAbove'
    BY <1>6 DEF RaiseAlarm, Remember, ThreadOK, AlarmWhileAbove
  <2>3. AboveAny(lastUsage')
    BY <1>0, <1>6 DEF RaiseAlarm, Remember, ThreadOK
  <2>4. PausedWhileAbove' /\ NoneHeldBack'
    BY <1>0, <1>6, <2>3 DEF RaiseAlarm, Remember, ThreadOK, PausedWhileAbove, NoneHeldBack
  <2> QED BY <2>1, <2>2, <2>4 DEF LimitsInv
<1>7. CASE LowerAlarm
  <2>1. LimitsTypeOK'
    <3>1. alarms' \in SUBSET PeriodTypes
      BY <1>0, <1>7 DEF LowerAlarm, LimitsTypeOK, PeriodTypes
    <3> QED BY <1>0, <1>7, <3>1 DEF LowerAlarm, Remember, LimitsTypeOK
  <2>2. ~AboveAny(lastUsage') /\ heldBack' = {}
    BY <1>0, <1>7 DEF LowerAlarm, Remember, ThreadOK
  <2>3. ThreadOK' /\ AlarmWhileAbove' /\ PausedWhileAbove' /\ NoneHeldBack'
    BY <1>7, <2>2
    DEF LowerAlarm, Remember, ThreadOK, AlarmWhileAbove, PausedWhileAbove, NoneHeldBack
  <2> QED BY <2>1, <2>3 DEF LimitsInv
<1>8. CASE CheckFails
  <2>1. LimitsTypeOK'
    BY <1>0, <1>8 DEF CheckFails, LimitsTypeOK
  <2>2. ThreadOK' /\ AlarmWhileAbove'
    BY <1>0, <1>8 DEF CheckFails, ThreadOK, AlarmWhileAbove
  <2>3. PausedWhileAbove' /\ NoneHeldBack'
    BY <1>0, <1>8 DEF CheckFails, ThreadOK, PausedWhileAbove, NoneHeldBack
  <2> QED BY <2>1, <2>2, <2>3 DEF LimitsInv
<1>9. ASSUME NEW t \in Torrents, PauseRequestTests(t) PROVE LimitsInv'
  <2>1. LimitsTypeOK'
    BY <1>0, <1>9 DEF PauseRequestTests, LimitsTypeOK, threadVars
  <2> QED BY <1>9, <2>1, EnvironmentStep DEF PauseRequestTests
<1>10. ASSUME NEW t \in Torrents, PauseRequestActs(t) PROVE LimitsInv'
  <2>1. LimitsTypeOK'
    BY <1>0, <1>10 DEF PauseRequestActs, LimitsTypeOK, threadVars
  <2> QED BY <1>10, <2>1, EnvironmentStep DEF PauseRequestActs
<1>11. ASSUME NEW t \in Torrents, Add(t) PROVE LimitsInv'
  <2>1. LimitsTypeOK'
    BY <1>0, <1>11 DEF Add, LimitsTypeOK, threadVars
  <2> QED BY <1>11, <2>1, EnvironmentStep DEF Add
<1>12. ASSUME NEW t \in Torrents, Delete(t) PROVE LimitsInv'
  <2>1. LimitsTypeOK'
    BY <1>0, <1>12 DEF Delete, LimitsTypeOK, threadVars
  <2> QED BY <1>12, <2>1, EnvironmentStep DEF Delete
<1>13. ASSUME NEW t \in Torrents, StopSeeding(t) PROVE LimitsInv'
  <2>1. LimitsTypeOK'
    BY <1>0, <1>13 DEF StopSeeding, LimitsTypeOK, threadVars
  <2> QED BY <1>13, <2>1, EnvironmentStep DEF StopSeeding
<1>14. CASE Restart
  <2>1. LimitsTypeOK'
    BY <1>0, <1>14, LimitAssumption DEF Restart, LimitsTypeOK, Zero
  <2>2. ~AboveAny(lastUsage')
    BY <1>14, LimitAssumption DEF Restart, AboveAny, Above, Zero
  <2> QED BY <1>14, <2>1, <2>2
          DEF Restart, LimitsInv, ThreadOK, AlarmWhileAbove, PausedWhileAbove, NoneHeldBack
<1>15. CASE UNCHANGED limitsVars
  BY <1>0, <1>15
  DEF limitsVars, LimitsInv, LimitsTypeOK, ThreadOK, AlarmWhileAbove, PausedWhileAbove, NoneHeldBack
<1> QED BY <1>1, <1>2, <1>3, <1>4, <1>5, <1>6, <1>7, <1>8, <1>9, <1>10, <1>11, <1>12,
           <1>13, <1>14, <1>15 DEF LimitsNext, Thread, Environment

LEMMA LimitsInvHolds == LimitsSpec => []LimitsInv
  BY InitLimitsInv, NextLimitsInv, PTL DEF LimitsSpec

-----------------------------------------------------------------------------
\* The thread's state is well formed, and only torrents of the session are paused.
THEOREM LimitsTypeCorrect == LimitsSpec => []LimitsTypeOK
<1>1. LimitsInv => LimitsTypeOK
  BY DEF LimitsInv
<1> QED BY <1>1, LimitsInvHolds, PTL

\* Usage that a completed check found above a limit always has its alarm.
THEOREM AlarmRaised == LimitsSpec => []AlarmWhileAbove
<1>1. LimitsInv => AlarmWhileAbove
  BY DEF LimitsInv
<1> QED BY <1>1, LimitsInvHolds, PTL

\* Usage that a completed check found above a limit leaves only those torrents running
\* that a user resumed or added since.
THEOREM LimitEnforced == LimitsSpec => []PausedWhileAbove
<1>1. LimitsInv => PausedWhileAbove
  BY DEF LimitsInv
<1> QED BY <1>1, LimitsInvHolds, PTL

\* Usage that a completed check found within the limits leaves no torrent paused by the
\* thread.
THEOREM TorrentsReleased == LimitsSpec => []NoneHeldBack
<1>1. LimitsInv => NoneHeldBack
  BY DEF LimitsInv
<1> QED BY <1>1, LimitsInvHolds, PTL

-----------------------------------------------------------------------------
(* Which alarms stay raised. *)

\* The daily alarm is not raised when the last completed check found no limit exceeded,
\* whatever the thread is doing and whichever checks failed.
DailyAlarmOK == "daily" \in alarms => AboveAny(lastUsage)

LEMMA NextDailyAlarm == LimitsInv /\ DailyAlarmOK /\ [LimitsNext]_limitsVars => DailyAlarmOK'
<1> SUFFICES ASSUME LimitsInv, DailyAlarmOK, [LimitsNext]_limitsVars PROVE DailyAlarmOK'
  OBVIOUS
<1>0. LimitsTypeOK /\ ThreadOK
  BY DEF LimitsInv
<1>1. ASSUME UNCHANGED lastUsage, alarms' \subseteq alarms PROVE DailyAlarmOK'
  BY <1>1 DEF DailyAlarmOK
<1>2. CASE Check
  <2>1. CASE UNCHANGED lastUsage
    BY <1>1, <1>2, <2>1 DEF Check
  <2>2. CASE ~Crossed(lastUsage, tracked) /\ lastUsage' = tracked
    <3>1. \A p \in PeriodTypes : Above(p, lastUsage) <=> Above(p, lastUsage')
      BY <1>0, <2>2, NotCrossed DEF LimitsTypeOK
    <3> QED BY <1>2, <3>1 DEF Check, DailyAlarmOK, AboveAny
  <2> QED BY <1>2, <2>1, <2>2 DEF Check
<1>3. CASE RaiseAlarm
  BY <1>0, <1>3 DEF RaiseAlarm, Remember, ThreadOK, DailyAlarmOK
<1>4. CASE LowerAlarm
  <2>1. ~Above("daily", tracked)
    BY <1>0, <1>4 DEF LowerAlarm, ThreadOK, AboveAny, PeriodTypes
  <2> QED BY <1>4, <2>1 DEF LowerAlarm, DailyAlarmOK
<1>5. CASE Constructed
  BY <1>5 DEF Constructed, DailyAlarmOK
<1>6. CASE Restart
  BY <1>6 DEF Restart, NoTable, DailyAlarmOK
<1>7. CASE Update \/ UpdateFails \/ CheckFails \/ \E t \in Torrents : PauseNext(t) \/ ResumeNext(t)
  BY <1>1, <1>7 DEF Update, UpdateFails, Track, CheckFails, PauseNext, ResumeNext
<1>8. CASE \E t \in Torrents : \/ PauseRequestTests(t) \/ PauseRequestActs(t)
                               \/ Add(t) \/ Delete(t) \/ StopSeeding(t)
  BY <1>1, <1>8
  DEF PauseRequestTests, PauseRequestActs, Add, Delete, StopSeeding, threadVars
<1>9. CASE UNCHANGED limitsVars
  BY <1>1, <1>9 DEF limitsVars
<1> QED BY <1>2, <1>3, <1>4, <1>5, <1>6, <1>7, <1>8, <1>9 DEF LimitsNext, Thread, Environment

\* Nothing but a restart takes the monthly alarm down.
LEMMA NextMonthlyAlarm ==
    LimitsInv /\ [LimitsNext]_limitsVars => [MonthlyAlarmStays]_limitsVars
<1> SUFFICES ASSUME LimitsInv, [LimitsNext]_limitsVars, "monthly" \in alarms
             PROVE  "monthly" \in alarms' \/ alarms' = NoTable
  BY DEF MonthlyAlarmStays
<1>1. CASE LowerAlarm
  <2>1. ~Above("daily", tracked)
    BY <1>1 DEF LowerAlarm, LimitsInv, ThreadOK, AboveAny, PeriodTypes
  <2> QED BY <1>1, <2>1 DEF LowerAlarm
<1>2. CASE RaiseAlarm \/ Constructed \/ Restart
  BY <1>2 DEF RaiseAlarm, Constructed, Restart, NoTable
<1>3. CASE \/ Update \/ UpdateFails \/ Check \/ CheckFails
           \/ \E t \in Torrents : PauseNext(t) \/ ResumeNext(t)
  BY <1>3 DEF Update, UpdateFails, Track, Check, CheckFails, PauseNext, ResumeNext
<1>4. CASE \E t \in Torrents : \/ PauseRequestTests(t) \/ PauseRequestActs(t)
                               \/ Add(t) \/ Delete(t) \/ StopSeeding(t)
  BY <1>4 DEF PauseRequestTests, PauseRequestActs, Add, Delete, StopSeeding
<1>5. CASE UNCHANGED limitsVars
  BY <1>5 DEF limitsVars
<1> QED BY <1>1, <1>2, <1>3, <1>4, <1>5 DEF LimitsNext, Thread, Environment

\* An alarm that outlives the excess it was raised for is the monthly one, or the daily one
\* while the monthly limit is exceeded: checkLimits never leaves the daily alarm raised
\* when it has found usage within both limits, and never lowers the monthly one.
THEOREM AlarmsLagOnly == LimitsSpec => AlarmsLag
<1>1. LimitsInit => DailyAlarmOK
  BY DEF LimitsInit, DailyAlarmOK, NoTable
<1>2. LimitsInv /\ DailyAlarmOK => LagOfAlarms
  BY DEF LimitsInv, LimitsTypeOK, DailyAlarmOK, LagOfAlarms, AboveAny, PeriodTypes
<1>3. LimitsSpec => []LagOfAlarms
  BY <1>1, <1>2, NextDailyAlarm, LimitsInvHolds, PTL DEF LimitsSpec
<1>4. LimitsSpec => [][MonthlyAlarmStays]_limitsVars
  BY NextMonthlyAlarm, LimitsInvHolds, PTL DEF LimitsSpec
<1> QED BY <1>3, <1>4, PTL DEF AlarmsLag
=============================================================================
