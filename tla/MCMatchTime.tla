---------------------------- MODULE MCMatchTime ----------------------------
(***************************************************************************)
(* Three periods of different length, timestamps up to one tick beyond the *)
(* longest of them, and timedeltas that span the whole match and more.     *)
(***************************************************************************)
EXTENDS MatchTime

MCDuration == <<3, 2, 1>>
MCKickoff == <<0, 3, 5>>
MCStamps == 0..4
MCDeltas == 0..8

============================================================================
