CONSTANTS
    DaysInMonth = 2
    MonthsInYear = 2
    ResetDay = 2
    MaxBuckets <- MCMaxBuckets
    MaxDay = 5
    MaxUsage = 1
    MaxStops = 2
SPECIFICATION Spec
INVARIANTS
    TypeOK
    Contiguous
    Agreement
    OneBucketPerMonth
PROPERTIES
    Ledgers
