---------------------------- MODULE MCUsageLimits ----------------------------
(* Two torrents, both limits configured, buckets that go up to one above.   *)
EXTENDS UsageLimits

MCLimit == [p \in PeriodTypes |-> 1]
=============================================================================
