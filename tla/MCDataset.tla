----------------------------- MODULE MCDataset -----------------------------
(***************************************************************************)
(* A feed of three events and a feed of two tracking frames.  Event 1 is   *)
(* of the team in possession; event 2 of the other team, in another        *)
(* period; of event 3 the owner is unknown.  The last three belong to the  *)
(* runs on one question: 6 is a shootout, 7 and 8 are of both teams.       *)
(***************************************************************************)
EXTENDS Dataset, TLC

CONSTANTS ax1, ax2, dim1, dim2

MCAxes == {ax1, ax2}
MCDims == {dim1, dim2}
MCSymmetry == Permutations(MCAxes) \cup Permutations(MCDims)

MCSources == 1..8
MCFeeds == {{1, 2, 3}, {4, 5}}
MCShootoutFeeds == {{1, 2, 6}}
MCNextFeeds == {{2, 7, 8}}
MCPeriodOf == <<1, 2, 1, 1, 2, 5, 1, 1>>
MCOwnerOf == <<"home", "home", None, "home", "away", "away", "home", "away">>
MCTeamOf == <<"home", "away", "away", None, None, "away", "home", "away">>
MCHasFreezeFrame == {1, 2}

MCOrientations ==
    {"home-away", "static-away-home", "ball-owning-team", "action-executing-team"}
MCFewOrientations == {"home-away", "static-home-away", "action-executing-team"}

============================================================================
