CONSTANTS
    Limits = {2, 3, 4, 5, 6, 7, 8, 9, 10, 16, 23, 100}
    SampleClasses = {"DataPoint", "TestSample"}
    MaxMeasurements = 400
SPECIFICATION HolderSpec
INVARIANTS
    SamplesAreKept
    CountLagsByLoneMoves
    SamplingEndsAtLimit
CHECK_DEADLOCK FALSE
