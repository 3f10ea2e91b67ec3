--------------------------- MODULE MCTorrentsPage ---------------------------
(* Three torrents, two of one name, on pages of two. *)
EXTENDS TorrentsPage, TLC

CONSTANTS t1, t2, t3

MCNameOf == t1 :> 1 @@ t2 :> 2 @@ t3 :> 2
MCBeginnings == {t1 :> "downloading" @@ t2 :> "seeding" @@ t3 :> "downloading"}
=============================================================================
