--------------------------- MODULE MCMessageDisplay ---------------------------
(* Two requests for the alarms under way, and one for the usage. *)
EXTENDS MessageDisplay, TLC

CONSTANTS r1, r2, r3

MCKindOf == r1 :> "alarms" @@ r2 :> "alarms" @@ r3 :> "usage"
=============================================================================
