----------------------------- MODULE MCAddState -----------------------------
(***************************************************************************)
(* Two teams, interchangeable because the score is a function of the team. *)
(***************************************************************************)
EXTENDS AddState, TLC

MCSymmetry == Permutations(Teams)

=============================================================================
