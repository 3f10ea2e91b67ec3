CONSTANTS
    Torrents = {t1, t2}
    Limited = {"daily", "monthly"}
    Limit <- MCLimit
    MaxBucket = 2
SPECIFICATION FairLimitsSpec
INVARIANTS
    AlarmWhileAbove
    PausedWhileAbove
    NoneHeldBack
PROPERTIES
    AlarmsLag
    LimitsAreNoticed
