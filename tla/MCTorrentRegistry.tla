------------------------- MODULE MCTorrentRegistry -------------------------
(* Two connections; torrents t1 and t2 have the same name. *)
EXTENDS TorrentRegistry, TLC

CONSTANTS t1, t2, t3, n1, n2

MCNameOf == t1 :> n1 @@ t2 :> n1 @@ t3 :> n2

Symmetry == Permutations(Handlers) \cup Permutations({t1, t2}) \cup Permutations(Files)

\* A torrent once mixed stays so, and the properties say nothing of it: a state in which
\* all are needs no successors.
SomeAreNotMixed == mixed # Torrents

\* Nothing depends on whether the threads of a mixed torrent have ended: they need not end.
MixedAreWatched == \A t \in mixed : ~ThreadsEnd(t)
=============================================================================
