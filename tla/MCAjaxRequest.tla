---------------------------- MODULE MCAjaxRequest ----------------------------
(***************************************************************************)
(* PeriodicalUpdater with two requests: one fault at each point of a       *)
(* request where it makes a difference, with or without an onException     *)
(* that throws when it is told of it.                                      *)
(***************************************************************************)
EXTENDS PeriodicalUpdater

MCKinds ==
    {[faults |-> faults, hasStatusOption |-> FALSE] :
        faults \in {{}, {"create"}, {"open"}, {"complete"},
                   {"json", "exception"}, {"outcome", "exception"}}}
    \union {[faults |-> {"outcome"}, hasStatusOption |-> TRUE]}
MCStatuses == {0, 500}
Symmetry == Permutations(Requests)
=============================================================================
