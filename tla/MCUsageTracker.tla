--------------------------- MODULE MCUsageTracker ---------------------------
(* Three months of two days, the reset on the second day of a month.        *)
EXTENDS UsageTracker

MCMaxBuckets == [p \in Periods |-> 2]
=============================================================================
