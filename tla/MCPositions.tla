---------------------------- MODULE MCPositions ----------------------------
(***************************************************************************)
(* A starter and two substitutes, and a second team without any whose      *)
(* starting formation is unknown; two periods of two and three minutes, in *)
(* half minutes; event times either side of half time and of the leeway.   *)
(***************************************************************************)
EXTENDS Positions

CONSTANTS home, away, ann, bea, cat, left, right

MCDuration == <<4, 6>>
MCKickoff == <<0, 4>>
MCPlayers == {ann, bea, cat}
MCTeams == {home, away}
MCTeamOf == [p \in MCPlayers |-> home]
MCStarters == {ann}
MCPositionTypes == {Unknown, left, right}
MCStartingPosition == [p \in MCStarters |-> left]
MCFormationTypes == {"4-3-3", "4-4-2"}
MCStartingFormation == [team \in MCTeams |-> IF team = home THEN "4-3-3" ELSE None]
MCGivenPositions == {None, right}
MCEventTimes == {At(1, 1), At(1, 3), At(2, 0)}

=============================================================================
