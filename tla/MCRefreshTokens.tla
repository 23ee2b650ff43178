-------------------------- MODULE MCRefreshTokens --------------------------
(***************************************************************************)
(* RefreshTokens for TLC: users, passwords and slots are interchangeable.  *)
(***************************************************************************)
EXTENDS RefreshTokens, TLC

Symmetry == Permutations(Users) \cup Permutations(Passwords) \cup Permutations(Slots)
=============================================================================
