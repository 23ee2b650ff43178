-------------------------- MODULE MCFestTicketing --------------------------
(***************************************************************************)
(* FestTicketing for TLC.                                                  *)
(***************************************************************************)
EXTENDS FestTicketing, TLC

Symmetry == Permutations(Users) \cup Permutations(Fests) \cup Permutations(Slots)
=============================================================================
