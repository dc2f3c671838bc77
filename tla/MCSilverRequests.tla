-------------------------- MODULE MCSilverRequests --------------------------
(* SilverRequests with the constants its TLC runs share. *)
EXTENDS SilverRequests, TLC

CONSTANTS e1, e2, e3, r1, r2

MCEvents   == {e1, e2, e3}
MCRequests == {r1, r2}
Symmetry   == Permutations(MCEvents) \cup Permutations(MCRequests)

=============================================================================
