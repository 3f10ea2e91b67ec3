-------------------------- MODULE MCAuthentication --------------------------
(* Two connections log in while accounts are added and deleted.  Handlers,  *)
(* passwords and sids are interchangeable; NoRequest names a user.          *)
EXTENDS Authentication, TLC

Symmetry == Permutations(Handlers) \cup Permutations(Passwords) \cup Permutations(Sids)
=============================================================================
