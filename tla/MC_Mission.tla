----------------------------- MODULE MC_Mission -----------------------------
(* Instances of WaypointMission for TLC.                                   *)
EXTENDS WaypointMission

SomePlaces == {"home", "wp", "wp2", "far"}
Under == [p \in SomePlaces |-> p]
TwoWaypoints == <<"wp", "wp2">>
BeyondFence == <<"wp", "far">>
=============================================================================
