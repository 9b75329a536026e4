------------------------------ MODULE MCMeeting ------------------------------
(* Instances of Meeting for TLC. *)
EXTENDS Meeting, TLC

Symmetry == Permutations(Sessions) \cup Permutations(Pages)
=============================================================================
