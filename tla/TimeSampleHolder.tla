-------------------------- MODULE TimeSampleHolder --------------------------
(***************************************************************************)
(* daemon/TimeSampleHolder.rb and the GraphDataThread that fills it        *)
(* (daemon/requesthandler.rb): samples live in generations, and when their *)
(* limit is reached each generation is halved into the next older one by   *)
(* averaging neighbours.  A sample is modelled by the interval of          *)
(* measurements it stands for.                                             *)
(***************************************************************************)
EXTENDS Integers, Sequences, SequencesExt

CONSTANTS
    Limits,           \* the limits to try (the daemon's MaxDataPoints is 100)
    SampleClasses,    \* the classes of samples to try
    MaxMeasurements   \* bound of the model

ASSUME HolderAssumption ==
    /\ Limits \subseteq Nat \ {0, 1}
    /\ SampleClasses \subseteq {"DataPoint", "TestSample"}
    /\ MaxMeasurements \in Nat

VARIABLES
    maxSamples,   \* @maxSamples
    sampleClass,  \* what addSample is given: the daemon's class, or that of the file's test
    generations,  \* @generations, the newest first
    totalSize,    \* @totalSize
    time,         \* measurements taken so far
    running,      \* the graph data thread runs
    lone          \* history: how often a generation of one sample was moved

holderVars == <<maxSamples, sampleClass, generations, totalSize, time, running, lone>>

Sample == [first : Nat, last : Nat]

HolderInit ==
    /\ maxSamples \in Limits
    /\ sampleClass \in SampleClasses
    /\ generations = <<>>
    /\ totalSize = 0
    /\ time = 0
    /\ running = TRUE
    /\ lone = 0

-----------------------------------------------------------------------------
(* A holder is its generations, its count, and the lone samples moved. *)

\* getGeneration: a missing generation is made.
Grown(gens, n) == IF n <= Len(gens) THEN gens ELSE Append(gens, <<>>)

\* avgProc calls x and y of both samples; a DataPoint has no y.
AverageIsDefined == sampleClass = "TestSample"

\* avgProc: the average of a sample and the one before it.
Average(a, b) == [first |-> b.first, last |-> a.last]

\* The averages of pairs of neighbours; an odd last sample is dropped.
Pairs(gen) == [i \in 1..(Len(gen) \div 2) |-> Average(gen[2 * i], gen[2 * i - 1])]

\* Mutant: the averages become the oldest samples of the older generation.
CompactGenInFront(holder, n) ==
    LET gens == Grown(holder.gens, n + 1)
        from == gens[n]
        to   == IF Len(from) = 1 THEN from ELSE Pairs(from)
    IN  [gens  |-> [gens EXCEPT ![n] = <<>>, ![n + 1] = to \o @],
         total |-> holder.total + Len(from) \div 2 - Len(from),
         lone  |-> holder.lone + IF Len(from) = 1 THEN 1 ELSE 0]

\* Mutant: the generation is not cleared.
CompactGenKeeping(holder, n) ==
    LET gens == Grown(holder.gens, n + 1)
        from == gens[n]
        to   == IF Len(from) = 1 THEN from ELSE Pairs(from)
    IN  [gens  |-> [gens EXCEPT ![n + 1] = @ \o to],
         total |-> holder.total + Len(from) \div 2 - Len(from),
         lone  |-> holder.lone + IF Len(from) = 1 THEN 1 ELSE 0]

\* compactGen of the n-th generation.  A lone sample is moved, but not counted any more.
CompactGen(holder, n) ==
    LET gens == Grown(holder.gens, n + 1)
        from == gens[n]
        to   == IF Len(from) = 1 THEN from ELSE Pairs(from)
    IN  [gens  |-> [gens EXCEPT ![n] = <<>>, ![n + 1] = @ \o to],
         total |-> holder.total + Len(from) \div 2 - Len(from),
         lone  |-> holder.lone + IF Len(from) = 1 THEN 1 ELSE 0]

\* compact: all generations but the oldest, and the oldest if it has more than three
\* quarters of the limit.
Compact(holder) ==
    LET oldest  == Len(holder.gens)
        moved[n \in 0..(oldest - 1)] == IF n = 0 THEN holder ELSE CompactGen(moved[n - 1], n)
        younger == moved[oldest - 1]
    IN  IF 3 * maxSamples < 4 * Len(younger.gens[oldest])
        THEN CompactGen(younger, oldest)
        ELSE younger

\* Mutant: the limit is exceeded by one before the samples are compacted.
IsFullLate == totalSize > maxSamples

IsFull == totalSize >= maxSamples

Pushed(holder, sample) ==
    [holder EXCEPT !.gens[1] = Append(@, sample), !.total = @ + 1]

-----------------------------------------------------------------------------
(* Rounds of GraphDataThread.work while the torrent downloads. *)

AddSample ==
    /\ running
    /\ IsFull => AverageIsDefined
    /\ time < MaxMeasurements
    /\ time' = time + 1
    /\ LET holder == [gens |-> Grown(generations, 1), total |-> totalSize, lone |-> lone]
           roomy  == IF IsFull THEN Compact(holder) ELSE holder
           added  == Pushed(roomy, [first |-> time', last |-> time'])
       IN  /\ generations' = added.gens
           /\ totalSize' = added.total
           /\ lone' = added.lone
    /\ UNCHANGED <<maxSamples, sampleClass, running>>

\* avgProc raises in the first compaction, when the second generation has been made.  The
\* exception leaves addSample, the mutex and the loop of the thread, and is logged.
AddRaises ==
    /\ running
    /\ IsFull /\ ~AverageIsDefined
    /\ running' = FALSE
    /\ generations' = Grown(generations, 2)
    /\ UNCHANGED <<maxSamples, sampleClass, totalSize, time, lone>>

HolderNext == AddSample \/ AddRaises

HolderSpec == HolderInit /\ [][HolderNext]_holderVars

-----------------------------------------------------------------------------
(* Properties *)

\* samples: what handleGraphInfoRequest returns.
Samples == FlattenSeq(Reverse(generations))

\* The samples returned are in the order of the measurements, no measurement is in two of
\* them, and the last is the last measurement itself, however often the generations were
\* compacted; and once the limit has been reached, at least a third as many are always kept.
SamplesAreKept ==
    /\ \A i \in 1..(Len(Samples) - 1) : Samples[i].last < Samples[i + 1].first
    /\ time > 0 => Last(Samples) = [first |-> time, last |-> time]
    /\ time >= maxSamples => 3 * Len(Samples) >= maxSamples

\* The count is that of the samples held, less one for each time a generation of one
\* sample was moved: by so many samples, and no more, may the limit be exceeded.
CountLagsByLoneMoves == Len(Samples) = totalSize + lone

\* The thread that samples a torrent's traffic ends, before the sample after the last that
\* there is room for, exactly if its samples have no y to be averaged (those of the graph data
\* thread have none).
SamplingEndsAtLimit ==
    /\ running = FALSE => sampleClass = "DataPoint" /\ time = maxSamples
    /\ sampleClass = "DataPoint" => time <= maxSamples
=============================================================================
