---------------------------- MODULE UsageLedger ----------------------------
(***************************************************************************)
(* What the usage tracker promises about one period type (daily or         *)
(* monthly), with no absolute counters, clocks or database in sight: a     *)
(* ledger of the amounts charged to the last MaxEntries periods, and one   *)
(* persistent copy of it.  Every amount that is accounted for is charged   *)
(* to exactly one period, the newest, and an older entry is never          *)
(* rewritten.  The copy is always the whole ledger of one moment, or       *)
(* nothing: saving it means removing it first, and a crash may come in     *)
(* between.  A restart that reaches the copy continues from it; one that   *)
(* does not begins again, and leaves the copy alone.                       *)
(***************************************************************************)
EXTENDS Integers, Sequences

CONSTANT MaxEntries

VARIABLES
    entries,  \* amounts charged to successive periods, oldest first
    total,    \* usage accounted for so far
    copy,     \* the persistent copy of the two, or Nothing
    mode,     \* "down", or running "attached" to the copy or "detached" from it
    astray    \* the next charge may be negative

ledgerVars == <<entries, total, copy, mode, astray>>

Nothing == [entries |-> <<>>, total |-> 0]

Trim(s) == IF Len(s) > MaxEntries THEN Tail(s) ELSE s

LedgerInit ==
    /\ entries = <<>>
    /\ total = 0
    /\ copy = Nothing
    /\ mode \in {"attached", "detached"}
    /\ astray = FALSE

\* Accounting starts: what was used before the first entry is charged to nobody.
Open ==
    /\ mode # "down"
    /\ entries = <<>>
    /\ entries' = <<0>>
    /\ total' >= total
    /\ UNCHANGED <<copy, mode, astray>>

\* d more is charged to the current period ...
ChargeCurrent(d) == entries' = [entries EXCEPT ![Len(entries)] = @ + d]

\* ... or to a period that begins with this charge.
ChargeNext(d) == entries' = Trim(Append(entries, d))

Charge ==
    LET d == total' - total
    IN  /\ mode # "down"
        /\ entries # <<>>
        /\ d >= 0 \/ astray
        /\ ChargeCurrent(d) \/ ChargeNext(d)
        /\ astray' = FALSE
        /\ UNCHANGED <<copy, mode>>

\* Saving: the old copy goes, then the present ledger is copied.
Save ==
    /\ mode = "attached"
    /\ copy' \in {Nothing, [entries |-> entries, total |-> total]}
    /\ UNCHANGED <<entries, total, mode, astray>>

\* Everything but the copy is lost.
Crash ==
    /\ mode # "down"
    /\ mode' = "down"
    /\ entries' = <<>>
    /\ total' = 0
    /\ astray' = FALSE
    /\ UNCHANGED copy

Resume ==
    /\ mode' = "attached"
    /\ entries' = copy.entries
    /\ total' = copy.total
    /\ astray' => entries' # <<>>

BeginAgain ==
    /\ mode' = "detached"
    /\ UNCHANGED <<entries, total, astray>>

Restart ==
    /\ mode = "down"
    /\ Resume \/ BeginAgain
    /\ UNCHANGED copy

LedgerNext == Open \/ Charge \/ Save \/ Crash \/ Restart

LedgerSpec == LedgerInit /\ [][LedgerNext]_ledgerVars
=============================================================================
