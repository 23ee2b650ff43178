---------------------------- MODULE MCEventDesk ----------------------------
(***************************************************************************)
(* EventDesk for TLC.  The users who are not organizers at the start are   *)
(* interchangeable, and so are the request slots.                          *)
(***************************************************************************)
EXTENDS EventDesk, TLC

Symmetry == Permutations(Users \ Founders) \cup Permutations(Slots)
=============================================================================
