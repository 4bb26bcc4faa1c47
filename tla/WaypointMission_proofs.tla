------------------------ MODULE WaypointMission_proofs ------------------------
(***************************************************************************)
(* Proofs about WaypointMission, for any plan, places, autopilot answers   *)
(* and number of interventions: the state keeps its type, a mission that   *)
(* nobody edited is COMPLETE only after every waypoint, a task that has    *)
(* ended says how, and a waiting task misses no resume or stop.            *)
(***************************************************************************)
EXTENDS WaypointMission, FlightController_proofs, SequenceTheorems

USE DEF Tasks

\* The mission task is between its first await and its end.
Inside == {"connect", "takeoff", "climbing", "next", "gate", "woken", "flying"}

\* The loop has flown to every waypoint before index, and to no other.
LoopOK ==
  /\ last > 0 /\ (waypoints = Plan => last = Len(Plan))
  /\ index <= last + 1 /\ (at \in {"gate", "woken", "flying"} => index <= last)
  /\ Len(reached) = index - 1
  /\ waypoints = Plan => \A k \in 1..Len(reached) : reached[k] = Plan[k]

\* f is the goto_position to the waypoint at index, whose result is not read
\* yet: the list can be edited under it, its goal cannot.
FlownOK(f) ==
  /\ f.then = "return" /\ f.at \in {"offboard", "goto", "done"}
  /\ f.at # "done" \/ f.ok
       => f.goal \in Places /\ (waypoints = Plan => f.goal = Plan[index])

\* A COMPLETE mission has ended and was started.
CompleteIsOver == state = "COMPLETE" => at = "none" /\ last > 0

MissionOK ==
  /\ Len(waypoints) <= Len(Plan)
  /\ at \in Inside => LoopOK
  /\ at = "flying" => FlownOK(frame[Mission])
  /\ CompleteIsOver /\ CompleteMeansReached /\ EndedIsReported

MInv == IInv /\ MTypeOK /\ MissionOK

\* What the mission does not share with the flight controller.
OwnTypes ==
  /\ waypoints \in Seq(Places) /\ reached \in Seq(Places)
  /\ state \in States /\ at \in Where
  /\ index \in 1..Len(Plan)+1 /\ last \in 0..Len(Plan)
  /\ go \in BOOLEAN /\ stopping \in BOOLEAN
  /\ handle \in {"none", "live", "done"} /\ manual \subseteq {"on", "taking", "leaving"}
  /\ operations \in 0..MaxOperations

LEMMA MissionIsTask == Mission \in Callers /\ Mission \in Tasks /\ Mission # Monitor
BY MissionAssumption, Geography

LEMMA PlanKinds == Plan \in Seq(Places) /\ Len(Plan) \in Nat /\ Len(Plan) > 0
BY MissionAssumption

\* A drone that hovers when the mission starts is one the flight controller
\* can have brought there.
LEMMA InFlightIInv == InFlight => IInv
<1> SUFFICES ASSUME InFlight PROVE IInv
  OBVIOUS
<1>1. TypeOK
  <2>1. frame \in [Tasks -> Frames]
    BY IdleIsFrame DEF InFlight
  <2>2. mode \in Modes /\ target \in Places \cup {NoPlace} /\ limit \in {"slow", "full"}
    BY ModesAre, Geography DEF InFlight
  <2>3. veh \in Vehicles
    BY Geography DEF InFlight, Vehicles
  <2>4. calls \in [made : 0..MaxCalls, by : SUBSET Callers, shut : BOOLEAN]
    BY Geography DEF InFlight
  <2> QED BY <2>1, <2>2, <2>3, <2>4 DEF InFlight, TypeOK
<1>2. TasksOK
  BY IdleIsFrame, Geography DEF InFlight, TasksOK, MonitorAwaits
<1>3. GroundedOK
  BY IdleIsFrame DEF InFlight, GroundedOK, Low, MayFly
<1> QED BY <1>1, <1>2, <1>3 DEF IInv

LEMMA InitMInv == MInit => MInv
<1> SUFFICES ASSUME MInit PROVE MInv
  OBVIOUS
<1>1. IInv
  BY InitIInv, InFlightIInv DEF MInit
<1>2. OwnTypes
  <2>1. waypoints \in Seq(Places) /\ reached \in Seq(Places)
    BY PlanKinds DEF MInit
  <2>2. index \in 1..Len(Plan)+1 /\ last \in 0..Len(Plan) /\ operations \in 0..MaxOperations
    BY PlanKinds, MissionAssumption DEF MInit
  <2> QED BY <2>1, <2>2 DEF MInit, OwnTypes, States, Where
<1>3. MissionOK
  BY PlanKinds DEF MInit, MissionOK, Inside, CompleteIsOver, CompleteMeansReached, EndedIsReported
<1> QED BY <1>1, <1>2, <1>3 DEF MInv, MTypeOK, OwnTypes, IInv

-----------------------------------------------------------------------------
(* The flight controller under a mission and its operator keeps its own    *)
(* invariant.                                                              *)

\* goto_position as the mission calls it, for any place.
LEMMA CallGotoKeeps ==
  ASSUME IInv, NEW p \in Places, CallGoto(Mission, p, "slow")
  PROVE  IInv'
<1>1. Issue(Mission, FALSE) /\ GotoPosition(Mission, Idle, p, "slow")
      /\ UNCHANGED <<running, connected, offboard>>
  BY DEF CallGoto, Call
<1>2. /\ Mission \in Tasks /\ HistoryGrows(Mission) /\ frame[Mission].at = "done"
      /\ UNCHANGED <<veh, battery>>
  BY <1>1, IssueGrows
<1> QED BY <1>1, <1>2, IdleIsFrame, GotoPositionKeeps

\* The manual overtake changes the mode in flight, and may connect.
LEMMA ModeAloneKeeps ==
  ASSUME IInv, running' \in BOOLEAN, connected' \in BOOLEAN,
         \/ mode' = mode
         \/ mode \in {"HOVERING", "NAVIGATING", "MANUAL"} /\ mode' \in {"HOVERING", "MANUAL"},
         UNCHANGED <<target, limit, offboard, frame, veh, battery, calls>>
  PROVE  IInv'
<1>1. TypeOK' /\ TasksOK'
  BY ModesAre DEF IInv, TypeOK, TasksOK
<1>2. GroundedOK'
  BY DEF IInv, GroundedOK, OneCaller, Grounded, MayFly, Low
<1> QED BY <1>1, <1>2 DEF IInv

LEMMA FlyOnKeeps ==
  ASSUME IInv, MTypeOK, FlyOn
  PROVE  IInv'
<1>1. CASE index > Len(waypoints)
  <2>1. UNCHANGED vars
    BY <1>1 DEF FlyOn
  <2> QED BY <2>1, NextKeeps
<1>2. CASE ~(index > Len(waypoints))
  <2>1. waypoints[index] \in Places
    BY <1>2 DEF MTypeOK
  <2>2. CallGoto(Mission, waypoints[index], "slow")
    BY <1>2 DEF FlyOn
  <2> QED BY <2>1, <2>2, CallGotoKeeps
<1> QED BY <1>1, <1>2

LEMMA FlightKeeps ==
  ASSUME IInv, MTypeOK, [MNext]_allvars
  PROVE  IInv'
<1>1. CASE UNCHANGED vars
  BY <1>1, NextKeeps
<1>2. CASE Connects \/ TakesOff
  <2>1. UNCHANGED vars \/ Issues(Mission)
    BY <1>2 DEF Connects, TakesOff, Issues
  <2> QED BY <2>1, <1>1, MissionIsTask, NextKeeps DEF Next
<1>3. CASE NextWaypoint \/ Wakes
  <2>1. UNCHANGED vars \/ FlyOn
    BY <1>3 DEF NextWaypoint, Wakes
  <2> QED BY <2>1, <1>1, FlyOnKeeps
<1>4. CASE Takes \/ HasConnected \/ HasGivenBack
  <2>1. /\ UNCHANGED <<target, limit, offboard, frame, veh, battery, calls>>
        /\ \/ mode' = mode
           \/ mode \in {"HOVERING", "NAVIGATING", "MANUAL"} /\ mode' \in {"HOVERING", "MANUAL"}
    BY <1>4 DEF Takes, HasConnected, EntersManual, HasGivenBack
  <2>2. running' \in BOOLEAN /\ connected' \in BOOLEAN
    <3>1. running \in BOOLEAN /\ connected \in BOOLEAN
      BY DEF IInv, TypeOK
    <3>2. CASE HasConnected
      BY <3>1, <3>2 DEF HasConnected, Connect, Accepts
    <3>3. CASE Takes \/ HasGivenBack
      BY <3>1, <3>3 DEF Takes, HasGivenBack
    <3> QED BY <1>4, <3>2, <3>3
  <2> QED BY <2>1, <2>2, ModeAloneKeeps
<1>5. CASE Controller
  <2>1. Next
    BY <1>5 DEF Controller, Next
  <2> QED BY <2>1, NextKeeps
<1>6. CASE Start \/ Launched \/ TakeoffOver \/ Arrives
  BY <1>6, <1>1 DEF Start, Launched, TakeoffOver, Arrives
<1>7. CASE Pauses \/ Resumes \/ StopMission \/ EditsPlan \/ GivesBack
  BY <1>7, <1>1 DEF Pauses, Resumes, StopMission, EditsPlan, GivesBack
<1> QED BY <1>1, <1>2, <1>3, <1>4, <1>5, <1>6, <1>7 DEF MNext, MissionTask, Operator, allvars

-----------------------------------------------------------------------------
(* The frame of the mission's goto_position.                               *)

\* What it is when goto_position has been called.
LEMMA CalledFrame ==
  ASSUME IInv, NEW p \in Places, CallGoto(Mission, p, "slow")
  PROVE  /\ frame'[Mission].then = "return"
         /\ frame'[Mission].at \in {"offboard", "goto", "done"}
         /\ frame'[Mission].at # "done" \/ frame'[Mission].ok => frame'[Mission].goal = p
<1>1. GotoPosition(Mission, Idle, p, "slow")
  BY DEF CallGoto
<1>2. frame \in [Tasks -> Frames]
  BY DEF IInv, TypeOK
<1>3. CASE mode \in {"HOVERING", "NAVIGATING"}
  <2>1. frame' = [frame EXCEPT ![Mission] =
                    Suspended(Navigating(Idle, p, "slow"), IF offboard THEN "goto" ELSE "offboard")]
    BY <1>1, <1>3 DEF GotoPosition, Continue
  <2>2. frame'[Mission] = [Navigating(Idle, p, "slow") EXCEPT !.at = IF offboard THEN "goto" ELSE "offboard"]
    BY <2>1, <1>2, MissionIsTask DEF Suspended
  <2> QED BY <2>2 DEF Navigating, Idle
<1>4. CASE ~(mode \in {"HOVERING", "NAVIGATING"})
  <2>1. frame' = [frame EXCEPT ![Mission] = Returned(Idle, FALSE)]
    BY <1>1, <1>4 DEF GotoPosition, Continue
  <2>2. frame'[Mission] = Returned(Idle, FALSE)
    BY <2>1, <1>2, MissionIsTask
  <2> QED BY <2>2 DEF Returned, Idle
<1> QED BY <1>3, <1>4

\* No other task touches it.
LEMMA OtherFrames ==
  ASSUME IInv, NEW t \in Tasks, t # Mission, GoesOn(t)
  PROVE  frame'[Mission] = frame[Mission]
<1>1. frame \in [Tasks -> Frames]
  BY DEF IInv, TypeOK
<1>2. \/ \E f : frame' = [frame EXCEPT ![t] = f]
      \/ frame' = [frame EXCEPT ![t] = Idle, ![Monitor] = StartOfMonitor]
  BY DEF GoesOn, Armed, TakeOff, TookOff, Climbed, Disarmed, OffboardStarted, GotoEnds,
     OffboardStopped, LandCommanded, LandWaited, EmergencyLandCommanded, RtlCommanded,
     RtlWaited, ShutdownEnds, Continue, Suspend, Return
<1> QED BY <1>1, <1>2, MissionIsTask

\* It goes on by itself until it is done, and keeps its goal.
LEMMA OwnFrame ==
  ASSUME IInv, GoesOn(Mission), frame[Mission].then = "return",
         frame[Mission].at \in {"offboard", "goto", "done"}
  PROVE  /\ frame[Mission].at # "done"
         /\ frame'[Mission].then = "return"
         /\ frame'[Mission].at \in {"offboard", "goto", "done"}
         /\ frame'[Mission].goal = frame[Mission].goal
<1>1. frame \in [Tasks -> Frames] /\ frame[Mission] \in Frames
  BY MissionIsTask DEF IInv, TypeOK
<1>2. OffboardStarted(Mission) \/ GotoEnds(Mission)
  BY DEF GoesOn, Armed, TookOff, Climbed, Disarmed, OffboardStopped, LandCommanded,
     LandWaited, EmergencyLandCommanded, RtlCommanded, RtlWaited, ShutdownEnds, Resume, At
<1>3. frame[Mission].at # "done"
  BY <1>2 DEF OffboardStarted, GotoEnds, Resume, At
<1>4. \/ \E b : frame' = [frame EXCEPT ![Mission] = Returned(frame[Mission], b)]
      \/ frame' = [frame EXCEPT ![Mission] = Suspended([frame[Mission] EXCEPT !.old = limit], "goto")]
  BY <1>2 DEF OffboardStarted, GotoEnds, Return, Continue
<1>5. ASSUME NEW b, frame' = [frame EXCEPT ![Mission] = Returned(frame[Mission], b)]
      PROVE  /\ frame'[Mission].then = "return" /\ frame'[Mission].at = "done"
             /\ frame'[Mission].goal = frame[Mission].goal
  <2>1. frame'[Mission] = [frame[Mission] EXCEPT !.at = "done", !.ok = b, !.speed = "full", !.old = "full"]
    BY <1>1, <1>5, MissionIsTask DEF Returned
  <2> QED BY <2>1, <1>1 DEF Frames
<1>6. CASE frame' = [frame EXCEPT ![Mission] = Suspended([frame[Mission] EXCEPT !.old = limit], "goto")]
  <2>1. frame'[Mission] = [[frame[Mission] EXCEPT !.old = limit] EXCEPT !.at = "goto"]
    BY <1>1, <1>6, MissionIsTask DEF Suspended
  <2>2. /\ frame'[Mission].then = "return" /\ frame'[Mission].at = "goto"
        /\ frame'[Mission].goal = frame[Mission].goal
    BY <2>1, <1>1 DEF Frames
  <2> QED BY <2>2, <1>3
<1> QED BY <1>3, <1>4, <1>5, <1>6

LEMMA MonitorFrame ==
  ASSUME IInv, MonitorChecks \/ Flies
  PROVE  frame'[Mission] = frame[Mission]
<1>1. frame \in [Tasks -> Frames]
  BY DEF IInv, TypeOK
<1>2. \/ \E f : frame' = [frame EXCEPT ![Monitor] = f]
      \/ frame' = frame
  BY DEF MonitorChecks, MonitorBattery, MonitorFence, MonitorRadius, CheckGeofence, CheckRadius,
     EmergencyStop, ReturnToLaunch, GotoPosition, Continue,
     Flies, Climbs, Moves, Returns, TouchesDown, DisarmsItself, BatteryDrains, Vehicle
<1> QED BY <1>1, <1>2, MissionIsTask

-----------------------------------------------------------------------------
(* The mission task.                                                       *)

LEMMA Lengths ==
  ASSUME MInv
  PROVE  /\ OwnTypes /\ MissionOK /\ TypeOK
         /\ Len(waypoints) \in Nat /\ Len(reached) \in Nat /\ index \in Nat /\ last \in Nat
BY PlanKinds DEF MInv, MTypeOK, OwnTypes

\* The end of the task before the last waypoint.
LEMMA EndsKeeps ==
  ASSUME MInv, NEW s \in {"FAILED", "IDLE"}, Ends(s),
         UNCHANGED <<operator, waypoints, index, last, go, stopping, reached>>
  PROVE  OwnTypes' /\ MissionOK'
<1>1. OwnTypes'
  BY Lengths DEF OwnTypes, Ends, operator, States, Where
<1>2. MissionOK'
  BY Lengths DEF MissionOK, Ends, Inside, CompleteIsOver, CompleteMeansReached, EndedIsReported
<1> QED BY <1>1, <1>2

LEMMA ExecutesKeeps ==
  ASSUME MInv, Executes, UNCHANGED <<operator, waypoints>>
  PROVE  OwnTypes' /\ MissionOK'
<1>1. CASE waypoints = <<>> \/ handle = "live"
  BY <1>1, EndsKeeps DEF Executes
<1>2. CASE ~(waypoints = <<>> \/ handle = "live")
  <2>1. /\ state' = "EXECUTING" /\ index' = 1 /\ last' = Len(waypoints)
        /\ go' = TRUE /\ stopping' = FALSE /\ reached' = <<>>
        /\ at' = "connect" /\ handle' = handle /\ waypoints' = waypoints
    BY <1>2 DEF Executes
  <2>2. Len(waypoints) \in 1..Len(Plan)
    BY <1>2, Lengths, PlanKinds DEF OwnTypes, MissionOK
  <2>3. reached' \in Seq(Places) /\ Len(reached') = 0
    BY <2>1
  <2>4. OwnTypes'
    <3>1. index' \in 1..Len(Plan)+1 /\ last' \in 0..Len(Plan)
      BY <2>1, <2>2, PlanKinds
    <3> QED BY <2>1, <2>3, <3>1, Lengths DEF OwnTypes, operator, States, Where
  <2>5. LoopOK'
    BY <2>1, <2>2, <2>3 DEF LoopOK
  <2>6. MissionOK'
    BY <2>1, <2>2, <2>5, Lengths DEF MissionOK, CompleteIsOver, CompleteMeansReached, EndedIsReported
  <2> QED BY <2>4, <2>6
<1> QED BY <1>1, <1>2

\* A step from one await of the task to the next.
LEMMA MovesOnKeeps ==
  ASSUME MInv, at \in Inside, at' \in Inside \ {"flying"},
         at' \in {"gate", "woken"} => index <= last,
         UNCHANGED <<operator, waypoints, state, index, last, go, stopping, handle, reached>>
  PROVE  OwnTypes' /\ MissionOK'
<1>1. OwnTypes'
  BY Lengths DEF OwnTypes, operator, Where, Inside
<1>2. LoopOK'
  BY Lengths DEF MissionOK, LoopOK
<1>3. MissionOK'
  BY <1>2, Lengths DEF MissionOK, Inside, CompleteIsOver, CompleteMeansReached, EndedIsReported
<1> QED BY <1>1, <1>3

LEMMA FliesOnKeeps ==
  ASSUME MInv, at \in {"next", "woken"}, index <= last, FlyOn,
         UNCHANGED <<operator, waypoints, index, last, go, stopping, reached>>
  PROVE  OwnTypes' /\ MissionOK'
<1>1. state # "COMPLETE" /\ LoopOK
  BY Lengths DEF MissionOK, CompleteIsOver, Inside
<1>2. CASE index > Len(waypoints)
  <2>1. state' = state /\ at' = "crashed" /\ handle' \in {handle, "done"}
    BY <1>2 DEF FlyOn
  <2>2. OwnTypes'
    BY <2>1, Lengths DEF OwnTypes, operator, Where
  <2>3. Len(waypoints) < last /\ UNCHANGED <<waypoints, last>>
    BY <1>2, Lengths
  <2>4. MissionOK'
    BY <2>1, <2>3, <1>1, Lengths
       DEF MissionOK, Inside, CompleteIsOver, CompleteMeansReached, EndedIsReported
  <2> QED BY <2>2, <2>4
<1>3. CASE ~(index > Len(waypoints))
  <2>1. /\ CallGoto(Mission, waypoints[index], "slow")
        /\ at' = "flying" /\ state' = state /\ handle' = handle
    BY <1>3 DEF FlyOn
  <2>2. waypoints[index] \in Places
    BY <1>3, Lengths DEF OwnTypes
  <2>3. FlownOK(frame[Mission])'
    BY <2>1, <2>2, CalledFrame DEF FlownOK, MInv
  <2>4. OwnTypes'
    BY <2>1, Lengths DEF OwnTypes, operator, Where
  <2>5. LoopOK'
    BY <2>1, <1>1 DEF LoopOK
  <2>6. MissionOK'
    BY <2>1, <2>3, <2>5, <1>1, Lengths DEF MissionOK, CompleteIsOver, CompleteMeansReached, EndedIsReported
  <2> QED BY <2>4, <2>6
<1> QED BY <1>2, <1>3

LEMMA NextWaypointKeeps ==
  ASSUME MInv, NextWaypoint
  PROVE  OwnTypes' /\ MissionOK'
<1>1. at = "next" /\ UNCHANGED <<operator, waypoints, index, last, go, stopping, reached>>
  BY DEF NextWaypoint
<1>2. LoopOK /\ state # "COMPLETE" /\ at \in Inside
  BY <1>1, Lengths DEF MissionOK, Inside, CompleteIsOver
<1>3. CASE index > last /\ Ends("COMPLETE")
  <2>1. index = last + 1 /\ Len(reached) = last /\ last > 0
    BY <1>2, <1>3, Lengths DEF LoopOK
  <2>2. ASSUME waypoints = Plan PROVE reached = Plan
    <3>1. reached \in Seq(Places) /\ Plan \in Seq(Places) /\ Len(reached) = Len(Plan)
      BY <2>1, <2>2, <1>2, Lengths, PlanKinds DEF LoopOK, OwnTypes
    <3>2. \A k \in 1..Len(reached) : reached[k] = Plan[k]
      BY <2>2, <1>2 DEF LoopOK
    <3> QED BY <3>1, <3>2, SeqEqual
  <2>3. state' = "COMPLETE" /\ at' = "none" /\ handle' \in {handle, "done"}
    BY <1>3 DEF Ends
  <2>4. OwnTypes'
    BY <1>1, <2>3, Lengths DEF OwnTypes, operator, Where, States
  <2>5. MissionOK'
    BY <1>1, <2>1, <2>2, <2>3, Lengths
       DEF MissionOK, Inside, CompleteIsOver, CompleteMeansReached, EndedIsReported, Edited
  <2> QED BY <2>4, <2>5
<1>4. CASE Ends("IDLE")
  BY <1>1, <1>4, EndsKeeps
<1>5. CASE index <= last /\ FlyOn
  BY <1>1, <1>5, FliesOnKeeps
<1>6. CASE index <= last /\ at' = "gate" /\ UNCHANGED <<state, handle>>
  BY <1>1, <1>2, <1>6, MovesOnKeeps DEF Inside
<1> QED BY <1>3, <1>4, <1>5, <1>6 DEF NextWaypoint

LEMMA ArrivesKeeps ==
  ASSUME MInv, Arrives
  PROVE  OwnTypes' /\ MissionOK'
<1>1. /\ at = "flying" /\ frame[Mission].at = "done"
      /\ UNCHANGED <<vars, operator, waypoints, last, go, stopping>>
  BY DEF Arrives, Free, At
<1>2. LoopOK /\ FlownOK(frame[Mission]) /\ state # "COMPLETE"
  BY <1>1, Lengths DEF MissionOK, Inside, CompleteIsOver
<1>3. CASE frame[Mission].ok
  <2>1. /\ at' = "next" /\ index' = index + 1 /\ state' = state /\ handle' = handle
        /\ reached' = Append(reached, frame[Mission].goal)
    BY <1>3 DEF Arrives
  <2>2. /\ frame[Mission].goal \in Places
        /\ waypoints = Plan => frame[Mission].goal = Plan[index]
    BY <1>2, <1>3 DEF FlownOK
  <2>3. /\ reached' \in Seq(Places) /\ Len(reached') = Len(reached) + 1
        /\ \A k \in 1..Len(reached) : reached'[k] = reached[k]
        /\ reached'[Len(reached) + 1] = frame[Mission].goal
    BY <2>1, <2>2, Lengths DEF OwnTypes
  <2>4. index \in 1..last /\ last \in 1..Len(Plan) /\ Len(reached) = index - 1
    BY <1>1, <1>2, Lengths, PlanKinds DEF LoopOK, OwnTypes
  <2>5. OwnTypes'
    BY <1>1, <2>1, <2>3, <2>4, Lengths, PlanKinds DEF OwnTypes, operator, Where
  <2>6. ASSUME waypoints = Plan, NEW k \in 1..Len(reached')
        PROVE  reached'[k] = Plan[k]
    BY <2>2, <2>3, <2>4, <2>6, <1>2 DEF LoopOK
  <2>7. LoopOK'
    BY <1>1, <1>2, <2>1, <2>3, <2>4, <2>6 DEF LoopOK
  <2>8. MissionOK'
    BY <1>1, <1>2, <2>1, <2>7, Lengths
       DEF MissionOK, CompleteIsOver, CompleteMeansReached, EndedIsReported
  <2> QED BY <2>5, <2>8
<1>4. CASE ~frame[Mission].ok
  BY <1>1, <1>4, EndsKeeps DEF Arrives
<1> QED BY <1>3, <1>4

LEMMA MissionTaskKeeps ==
  ASSUME MInv, MissionTask
  PROVE  OwnTypes' /\ MissionOK'
<1>1. CASE Start
  <2>1. CASE Executes
    BY <1>1, <2>1, ExecutesKeeps DEF Start
  <2>2. CASE /\ at' = "launched" /\ handle' = "live"
             /\ UNCHANGED <<state, index, last, go, stopping, reached>>
    <3>1. at = "none" /\ last = 0 /\ UNCHANGED <<operator, waypoints>>
      BY <1>1 DEF Start
    <3>2. OwnTypes'
      BY <2>2, <3>1, Lengths DEF OwnTypes, operator, Where
    <3>3. MissionOK'
      BY <2>2, <3>1, Lengths DEF MissionOK, Inside, CompleteIsOver, CompleteMeansReached, EndedIsReported
    <3> QED BY <3>2, <3>3
  <2> QED BY <1>1, <2>1, <2>2 DEF Start
<1>2. CASE Launched
  BY <1>2, ExecutesKeeps DEF Launched
<1>3. CASE Connects \/ TakesOff
  <2>1. CASE at' \in {"takeoff", "climbing", "next"} /\ state' = state /\ handle' = handle
    BY <1>3, <2>1, MovesOnKeeps DEF Connects, TakesOff, Inside
  <2>2. CASE Connects /\ Ends("FAILED")
    BY <2>2, EndsKeeps DEF Connects
  <2> QED BY <1>3, <2>1, <2>2 DEF Connects, TakesOff
<1>4. CASE TakeoffOver
  <2>1. CASE frame[Mission].ok
    BY <1>4, <2>1, MovesOnKeeps DEF TakeoffOver, Inside
  <2>2. CASE ~frame[Mission].ok
    BY <1>4, <2>2, EndsKeeps DEF TakeoffOver
  <2> QED BY <2>1, <2>2
<1>5. CASE Wakes
  <2>1. index <= last
    BY <1>5, Lengths DEF Wakes, MissionOK, LoopOK, Inside
  <2> QED BY <1>5, <2>1, FliesOnKeeps DEF Wakes
<1> QED BY <1>1, <1>2, <1>3, <1>4, <1>5, NextWaypointKeeps, ArrivesKeeps DEF MissionTask

-----------------------------------------------------------------------------
(* The operator, the controller, and the theorems.                         *)

\* What pausing, resuming, stopping and overtaking have in common.
LEMMA IntervenesKeeps ==
  ASSUME MInv,
         at' = at \/ (at = "gate" /\ at' = "woken"),
         state' = state \/ (state \in {"EXECUTING", "PAUSED"} /\ state' \in {"EXECUTING", "PAUSED"}),
         go' \in BOOLEAN, stopping' \in BOOLEAN, manual' \subseteq {"on", "taking", "leaving"},
         operations' \in 0..MaxOperations,
         UNCHANGED <<waypoints, index, last, handle, reached, frame>>
  PROVE  OwnTypes' /\ MissionOK'
<1>1. OwnTypes'
  BY Lengths DEF OwnTypes, States, Where
<1>2. at' \in Inside => LoopOK'
  BY Lengths DEF MissionOK, LoopOK, Inside
<1>3. at' = "flying" => FlownOK(frame[Mission])'
  BY Lengths DEF MissionOK, FlownOK
<1>4. MissionOK'
  BY <1>2, <1>3, Lengths DEF MissionOK, CompleteIsOver, CompleteMeansReached, EndedIsReported, Edited
<1> QED BY <1>1, <1>4

LEMMA WithoutKinds ==
  ASSUME waypoints \in Seq(Places), NEW k \in DOMAIN waypoints
  PROVE  Without(k) \in Seq(Places) /\ Len(Without(k)) = Len(waypoints) - 1
<1>1. /\ k \in 1..Len(waypoints) /\ Len(waypoints) \in Nat
      /\ \A i \in 1..Len(waypoints) : waypoints[i] \in Places
  OBVIOUS
<1>2. SubSeq(waypoints, 1, k-1) \in Seq(Places) /\ Len(SubSeq(waypoints, 1, k-1)) = k-1
  <2>1. k-1 \in Int /\ \A i \in 1..k-1 : waypoints[i] \in Places
    BY <1>1
  <2>2. /\ SubSeq(waypoints, 1, k-1) \in Seq(Places)
        /\ Len(SubSeq(waypoints, 1, k-1)) = IF 1 <= k-1 THEN (k-1)-1+1 ELSE 0
    BY <2>1, SubSeqProperties
  <2> QED BY <1>1, <2>2
<1>3. /\ SubSeq(waypoints, k+1, Len(waypoints)) \in Seq(Places)
      /\ Len(SubSeq(waypoints, k+1, Len(waypoints))) = Len(waypoints) - k
  <2>1. k+1 \in Int /\ \A i \in k+1..Len(waypoints) : waypoints[i] \in Places
    BY <1>1
  <2>2. /\ SubSeq(waypoints, k+1, Len(waypoints)) \in Seq(Places)
        /\ Len(SubSeq(waypoints, k+1, Len(waypoints)))
             = IF k+1 <= Len(waypoints) THEN Len(waypoints)-(k+1)+1 ELSE 0
    BY <1>1, <2>1, SubSeqProperties
  <2> QED BY <1>1, <2>2
<1>4. PICK u, v : u = SubSeq(waypoints, 1, k-1) /\ v = SubSeq(waypoints, k+1, Len(waypoints))
  OBVIOUS
<1>5. u \in Seq(Places) /\ v \in Seq(Places) /\ Len(u) = k-1 /\ Len(v) = Len(waypoints) - k
  BY <1>2, <1>3, <1>4
<1>6. Without(k) = u \o v
  BY <1>4 DEF Without
<1>7. u \o v \in Seq(Places) /\ Len(u \o v) = Len(u) + Len(v)
  BY <1>5, ConcatProperties
<1>8. Len(u) + Len(v) = Len(waypoints) - 1
  BY <1>1, <1>5
<1> QED BY <1>6, <1>7, <1>8

\* An edited list is shorter than the plan, so it is not the plan again.
LEMMA EditsPlanKeeps ==
  ASSUME MInv, EditsPlan
  PROVE  OwnTypes' /\ MissionOK'
<1>1. /\ UNCHANGED <<frame, manual, index, last, go, stopping, handle, at, reached>>
      /\ operations' \in 0..MaxOperations
  BY Lengths, MissionAssumption DEF EditsPlan, Intervenes, vars, OwnTypes
<1>2. /\ waypoints' \in Seq(Places) /\ Len(waypoints') <= Len(waypoints)
      /\ Len(waypoints') < Len(Plan) /\ state' \in {state, "IDLE"}
  <2>1. ASSUME NEW k \in DOMAIN waypoints, waypoints' = Without(k), state' = state
        PROVE  /\ waypoints' \in Seq(Places) /\ Len(waypoints') <= Len(waypoints)
               /\ Len(waypoints') < Len(Plan) /\ state' \in {state, "IDLE"}
    BY <2>1, WithoutKinds, Lengths, PlanKinds DEF OwnTypes, MissionOK
  <2>2. CASE waypoints' = <<>> /\ state' = "IDLE"
    <3>1. waypoints' \in Seq(Places) /\ Len(waypoints') = 0
      BY <2>2
    <3> QED BY <2>2, <3>1, Lengths, PlanKinds
  <2> QED BY <2>1, <2>2 DEF EditsPlan
<1>3. waypoints' # Plan /\ Len(waypoints') <= Len(Plan)
  BY <1>2, PlanKinds
<1>4. OwnTypes'
  BY <1>1, <1>2, Lengths DEF OwnTypes, States
<1>5. at' \in Inside => LoopOK'
  BY <1>1, <1>3, Lengths DEF MissionOK, LoopOK
<1>6. at' = "flying" => FlownOK(frame[Mission])'
  BY <1>1, <1>3, Lengths DEF MissionOK, FlownOK
<1>7. MissionOK'
  BY <1>1, <1>2, <1>3, <1>5, <1>6, Lengths
     DEF MissionOK, CompleteIsOver, CompleteMeansReached, EndedIsReported, Edited
<1> QED BY <1>4, <1>7

LEMMA OperatorKeeps ==
  ASSUME MInv, Operator
  PROVE  OwnTypes' /\ MissionOK'
<1>1. CASE EditsPlan
  BY <1>1, EditsPlanKeeps
<1>2. CASE Pauses \/ Resumes \/ StopMission \/ Takes \/ HasConnected \/ GivesBack \/ HasGivenBack
  <2>1. UNCHANGED <<waypoints, index, last, handle, reached, frame>>
    BY <1>2 DEF Pauses, Resumes, StopMission, Takes, HasConnected, GivesBack, HasGivenBack, vars, mission
  <2>2. operations' \in 0..MaxOperations
    BY <1>2, Lengths, MissionAssumption
       DEF Pauses, Resumes, StopMission, Takes, HasConnected, GivesBack, HasGivenBack,
           Intervenes, OwnTypes
  <2>3. /\ go' \in BOOLEAN /\ stopping' \in BOOLEAN /\ manual' \subseteq {"on", "taking", "leaving"}
        /\ at' = at \/ (at = "gate" /\ at' = "woken")
        /\ state' = state \/ (state \in {"EXECUTING", "PAUSED"} /\ state' \in {"EXECUTING", "PAUSED"})
    BY <1>2, Lengths DEF Pauses, Resumes, StopMission, Takes, HasConnected, EntersManual, GivesBack,
       HasGivenBack, PauseMission, ResumeMission, SetsEvent, OwnTypes, mission
  <2> QED BY <2>1, <2>2, <2>3, IntervenesKeeps
<1> QED BY <1>1, <1>2 DEF Operator

\* The steps in which the mission has no part.
LEMMA ControllerKeeps ==
  ASSUME MInv, Controller \/ UNCHANGED allvars
  PROVE  OwnTypes' /\ MissionOK'
<1>1. UNCHANGED mvars
  BY DEF Controller, allvars
<1>2. UNCHANGED <<waypoints, state, index, last, go, stopping, handle, at, reached, manual, operations>>
  BY <1>1 DEF mvars, mission, operator
<1>3. OwnTypes'
  BY <1>2, Lengths DEF OwnTypes
<1>4. ASSUME at = "flying" PROVE FlownOK(frame[Mission])'
  <2>1. FlownOK(frame[Mission]) /\ IInv
    BY <1>4, Lengths DEF MissionOK, MInv
  <2>2. CASE GoesOn(Mission)
    BY <2>1, <2>2, <1>2, OwnFrame DEF FlownOK
  <2>3. CASE frame'[Mission] = frame[Mission]
    BY <2>1, <2>3, <1>2 DEF FlownOK
  <2>4. CASE Controller
    BY <2>1, <2>2, <2>3, <2>4, OtherFrames, MonitorFrame DEF Controller
  <2> QED BY <2>3, <2>4 DEF allvars, vars
<1>5. LoopOK' = LoopOK
  BY <1>2 DEF LoopOK
<1>6. MissionOK'
  BY <1>2, <1>4, <1>5, Lengths
     DEF MissionOK, CompleteIsOver, CompleteMeansReached, EndedIsReported, Edited
<1> QED BY <1>3, <1>6

LEMMA MNextKeeps ==
  ASSUME MInv, [MNext]_allvars
  PROVE  MInv'
<1>1. IInv'
  BY FlightKeeps DEF MInv
<1>2. OwnTypes' /\ MissionOK'
  BY MissionTaskKeeps, OperatorKeeps, ControllerKeeps DEF MNext
<1> QED BY <1>1, <1>2 DEF MInv, MTypeOK, OwnTypes, IInv

THEOREM MissionInvariant == MSpec => []MInv
BY InitMInv, MNextKeeps, PTL DEF MSpec

\* All variables of the mission, its operator and the flight controller keep
\* their types.
THEOREM MissionTypes == MSpec => []MTypeOK
BY MissionInvariant, PTL DEF MInv

\* Whatever the plan, the autopilot and the operator do: a mission with the
\* list it was started with is COMPLETE only when it was at every waypoint of
\* it, in order.
THEOREM CompleteIsReached == MSpec => []CompleteMeansReached
<1>1. MInv => CompleteMeansReached
  BY DEF MInv, MissionOK
<1> QED BY <1>1, MissionInvariant, PTL

\* Whatever the plan, the autopilot and the operator do: a mission task that
\* has returned left a final state behind, never EXECUTING or PAUSED, and one
\* that has died had its list shortened under it.
THEOREM EndIsReported == MSpec => []EndedIsReported
<1>1. MInv => EndedIsReported
  BY DEF MInv, MissionOK
<1> QED BY <1>1, MissionInvariant, PTL

-----------------------------------------------------------------------------
(* The safety half of MissionEnds and StopEnds: the task sleeps at its     *)
(* gate only while the event is unset and nobody asked it to stop, and a   *)
(* mission that says EXECUTING is not asleep.                              *)
NoLostWakeup ==
  /\ at = "gate" => ~go /\ ~stopping
  /\ state = "EXECUTING" => go

LEMMA TaskKeepsWakeups ==
  ASSUME NoLostWakeup, MissionTask
  PROVE  NoLostWakeup'
<1>1. CASE Executes
  BY <1>1 DEF NoLostWakeup, Executes, Ends
<1>2. CASE Start /\ ~Executes
  BY <1>2 DEF NoLostWakeup, Start
<1>3. CASE Connects \/ TakesOff \/ TakeoffOver \/ Arrives
  BY <1>3 DEF NoLostWakeup, Connects, TakesOff, TakeoffOver, Arrives, Ends
<1>4. CASE NextWaypoint
  <2>1. UNCHANGED <<go, stopping>> /\ (at' = "gate" => ~go /\ ~stopping)
    BY <1>4 DEF NextWaypoint, FlyOn, Ends
  <2>2. state' = state \/ state' # "EXECUTING"
    BY <1>4 DEF NextWaypoint, FlyOn, Ends
  <2> QED BY <2>1, <2>2 DEF NoLostWakeup
<1>5. CASE Wakes
  BY <1>5 DEF NoLostWakeup, Wakes, FlyOn
<1> QED BY <1>1, <1>2, <1>3, <1>4, <1>5 DEF MissionTask, Launched

LEMMA OperatorKeepsWakeups ==
  ASSUME NoLostWakeup, Operator
  PROVE  NoLostWakeup'
<1>1. CASE Pauses \/ Takes
  BY <1>1 DEF NoLostWakeup, Pauses, Takes, PauseMission
<1>2. CASE Resumes \/ HasGivenBack
  BY <1>2 DEF NoLostWakeup, Resumes, HasGivenBack, ResumeMission, SetsEvent
<1>3. CASE StopMission
  BY <1>3 DEF NoLostWakeup, StopMission, SetsEvent
<1>4. CASE EditsPlan \/ GivesBack \/ HasConnected
  BY <1>4 DEF NoLostWakeup, EditsPlan, GivesBack, HasConnected, mission
<1> QED BY <1>1, <1>2, <1>3, <1>4 DEF Operator

\* Whatever the order of pause, resume, stop, edits and overtakes, none of
\* them is missed at the gate of the waypoint loop.  What the liveness
\* properties add is that a woken task gets its turn and a flight its end.
THEOREM WakeupsAreKept == MSpec => []NoLostWakeup
<1>1. MInit => NoLostWakeup
  BY DEF MInit, NoLostWakeup
<1>2. NoLostWakeup /\ [MNext]_allvars => NoLostWakeup'
  <2>1. (Controller \/ UNCHANGED allvars) => UNCHANGED <<at, go, stopping, state>>
    BY DEF Controller, allvars, mvars, mission
  <2> QED BY <2>1, TaskKeepsWakeups, OperatorKeepsWakeups DEF MNext, NoLostWakeup
<1> QED BY <1>1, <1>2, PTL DEF MSpec
=============================================================================
