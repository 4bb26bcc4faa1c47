---------------------------- MODULE WaypointMission ----------------------------
(***************************************************************************)
(* A waypoint mission on the flight controller, and the operator who       *)
(* pauses, stops, edits or overtakes it:                                   *)
(* single_drone/flight_control/waypoint_controller.py and                  *)
(* manual_controller.py over FlightController.  execute_mission is the one *)
(* caller of flight commands; the operator's methods run between its       *)
(* awaits and its position in the code is the variable at.                 *)
(***************************************************************************)
EXTENDS FlightController, Sequences

CONSTANTS
  Mission,        \* the task that runs execute_mission
  Plan,           \* the waypoints configured at first
  Background,     \* it may be launched by execute_mission_background
  Overtakes,      \* the operator uses the manual overtake
  Edits,          \* the operator removes or clears waypoints
  Stops,          \* the operator may call stop
  MaxOperations   \* bound: how often the operator intervenes

ASSUME MissionAssumption ==
  /\ Callers = {Mission}
  /\ Plan \in Seq(Places) /\ Plan # <<>>
  /\ {Background, Overtakes, Edits, Stops} \subseteq BOOLEAN
  /\ MaxOperations \in Nat

VARIABLES
  waypoints,   \* _waypoints
  state,       \* _status.state
  index,       \* the loop's i
  last,        \* where its range ends
  go,          \* _pause_event is set
  stopping,    \* _stop_requested
  handle,      \* _execution_task: "none", "live" or "done"
  at,          \* where the mission task is
  manual,      \* ManualController: "on" when enabled, "taking" and "leaving" while
               \* enable awaits initialize and disable the end of the manual loop
  reached,     \* history: the places whose goto_position returned True
  operations   \* interventions so far

mission == <<waypoints, state, index, last, go, stopping, handle, at, reached>>
operator == <<manual, operations>>
mvars == <<mission, operator>>
allvars == <<vars, mvars>>

Where == {"none", "launched", "connect", "takeoff", "climbing", "next", "gate",
          "woken", "flying", "crashed"}
States == {"IDLE", "EXECUTING", "PAUSED", "COMPLETE", "FAILED"}

\* The program has taken off before it starts the mission.
InFlight ==
  /\ mode = "HOVERING" /\ target = Home /\ limit = "full"
  /\ running = TRUE /\ connected = TRUE /\ offboard = FALSE
  /\ frame = [t \in Tasks |-> IF t = Monitor THEN StartOfMonitor ELSE Idle]
  /\ veh = [armed |-> TRUE, inAir |-> TRUE, flies |-> "hold", pos |-> Home]
  /\ battery = "ok"
  /\ calls = [made |-> 0, by |-> {}, shut |-> FALSE]

MInit ==
  /\ Init \/ InFlight
  /\ waypoints = Plan /\ state = "IDLE" /\ index = 1 /\ last = 0
  /\ go = TRUE /\ stopping = FALSE /\ handle = "none" /\ at = "none"
  /\ manual = {} /\ reached = <<>> /\ operations = 0

-----------------------------------------------------------------------------
(* execute_mission.                                                        *)

\* The task ends with the state s.
Ends(s) == /\ state' = s /\ at' = "none"
           /\ handle' = IF handle = "live" THEN "done" ELSE handle

\* Mutant: the loop starts one waypoint early.
Executes_Early ==
  IF waypoints = <<>> \/ handle = "live"
  THEN Ends("FAILED") /\ UNCHANGED <<index, last, go, stopping, reached>>
  ELSE /\ state' = "EXECUTING" /\ index' = 0 /\ last' = Len(waypoints)
       /\ go' = TRUE /\ stopping' = FALSE /\ reached' = <<>>
       /\ at' = "connect" /\ UNCHANGED handle

\* Its checks before the first await.  The handle that it finds live is its
\* own when it was launched in the background.
Executes ==
  IF waypoints = <<>> \/ handle = "live"
  THEN Ends("FAILED") /\ UNCHANGED <<index, last, go, stopping, reached>>
  ELSE /\ state' = "EXECUTING" /\ index' = 1 /\ last' = Len(waypoints)
       /\ go' = TRUE /\ stopping' = FALSE /\ reached' = <<>>
       /\ at' = "connect" /\ UNCHANGED handle

\* The program calls execute_mission, or has it launched.
Start ==
  /\ at = "none" /\ last = 0 /\ handle = "none"
  /\ \/ Executes
     \/ /\ Background /\ at' = "launched" /\ handle' = "live"
        /\ UNCHANGED <<state, index, last, go, stopping, reached>>
  /\ UNCHANGED <<vars, operator, waypoints>>

Launched ==
  /\ at = "launched" /\ Executes
  /\ UNCHANGED <<vars, operator, waypoints>>

Connects ==
  /\ at = "connect"
  /\ \/ connected /\ at' = "takeoff" /\ UNCHANGED <<vars, state, handle>>
     \/ /\ Initialize(Mission)
        /\ IF connected' THEN at' = "takeoff" /\ UNCHANGED <<state, handle>> ELSE Ends("FAILED")
  /\ UNCHANGED <<operator, waypoints, index, last, go, stopping, reached>>

\* With auto_arm_takeoff, or without: then the drone is where it was.
TakesOff ==
  /\ at = "takeoff"
  /\ \/ BeginTakeoff(Mission) /\ at' = "climbing"
     \/ at' = "next" /\ UNCHANGED vars
  /\ UNCHANGED <<operator, waypoints, state, index, last, go, stopping, handle, reached>>

\* takeoff has returned.
TakeoffOver ==
  /\ at = "climbing" /\ Free(Mission)
  /\ IF frame[Mission].ok THEN at' = "next" /\ UNCHANGED <<state, handle>> ELSE Ends("FAILED")
  /\ UNCHANGED <<vars, operator, waypoints, index, last, go, stopping, reached>>

\* goto_position for the waypoint at index.  The range was fixed at the start:
\* a list that has become shorter raises IndexError, and the task dies.
FlyOn ==
  IF index > Len(waypoints)
  THEN /\ at' = "crashed" /\ handle' = (IF handle = "live" THEN "done" ELSE handle)
       /\ UNCHANGED <<vars, state>>
  ELSE CallGoto(Mission, waypoints[index], "slow") /\ at' = "flying"
       /\ UNCHANGED <<state, handle>>

\* The head of the loop, after the hold at the waypoint before.
NextWaypoint ==
  /\ at = "next"
  /\ \/ index > last /\ Ends("COMPLETE") /\ UNCHANGED vars
     \/ index <= last /\ stopping /\ Ends("IDLE") /\ UNCHANGED vars
     \/ index <= last /\ ~stopping /\ go /\ FlyOn
     \/ index <= last /\ ~stopping /\ ~go /\ at' = "gate" /\ UNCHANGED <<vars, state, handle>>
  /\ UNCHANGED <<operator, waypoints, index, last, go, stopping, reached>>

\* _pause_event.wait() returns once the event was set, whatever it is by now.
Wakes ==
  /\ at = "woken" /\ FlyOn
  /\ UNCHANGED <<operator, waypoints, index, last, go, stopping, reached>>

\* Mutant: the loop goes on when goto_position returns False.
Arrives_Anyway ==
  /\ at = "flying" /\ Free(Mission)
  /\ at' = "next" /\ index' = index + 1
  /\ reached' = IF frame[Mission].ok THEN Append(reached, frame[Mission].goal) ELSE reached
  /\ UNCHANGED <<vars, operator, waypoints, state, last, go, stopping, handle>>

\* Mutant: a waypoint that is not reached ends the task without a state.
Arrives_Silent ==
  /\ at = "flying" /\ Free(Mission)
  /\ IF frame[Mission].ok
     THEN /\ at' = "next" /\ index' = index + 1
          /\ reached' = Append(reached, frame[Mission].goal)
          /\ UNCHANGED <<state, handle>>
     ELSE Ends(state) /\ UNCHANGED <<index, reached>>
  /\ UNCHANGED <<vars, operator, waypoints, last, go, stopping>>

\* goto_position has returned.
Arrives ==
  /\ at = "flying" /\ Free(Mission)
  /\ IF frame[Mission].ok
     THEN /\ at' = "next" /\ index' = index + 1
          /\ reached' = Append(reached, frame[Mission].goal)
          /\ UNCHANGED <<state, handle>>
     ELSE Ends("FAILED") /\ UNCHANGED <<index, reached>>
  /\ UNCHANGED <<vars, operator, waypoints, last, go, stopping>>

-----------------------------------------------------------------------------
(* The operator.                                                           *)

Intervenes ==
  /\ operations < MaxOperations /\ operations' = operations + 1

\* Mutant: pause does not look at the state.
PauseMission_Anytime == state' = "PAUSED" /\ go' = FALSE

PauseMission ==
  IF state = "EXECUTING" THEN state' = "PAUSED" /\ go' = FALSE ELSE UNCHANGED <<state, go>>

\* Setting the event wakes the task that waits for it.
SetsEvent == /\ go' = TRUE
             /\ at' = IF at = "gate" THEN "woken" ELSE at

ResumeMission ==
  IF state = "PAUSED" THEN state' = "EXECUTING" /\ SetsEvent ELSE UNCHANGED <<state, go, at>>

Pauses ==
  /\ Intervenes /\ PauseMission
  /\ UNCHANGED <<vars, manual, waypoints, index, last, stopping, handle, at, reached>>

Resumes ==
  /\ Intervenes /\ ResumeMission
  /\ UNCHANGED <<vars, manual, waypoints, index, last, stopping, handle, reached>>

\* Mutant: a paused mission is not woken.
StopMission_Asleep ==
  /\ Stops /\ Intervenes
  /\ stopping' = TRUE
  /\ UNCHANGED <<vars, manual, waypoints, state, index, last, handle, go, at, reached>>

StopMission ==
  /\ Stops /\ Intervenes
  /\ stopping' = TRUE /\ SetsEvent
  /\ UNCHANGED <<vars, manual, waypoints, state, index, last, handle, reached>>

\* The list without its k-th waypoint.
Without(k) == SubSeq(waypoints, 1, k-1) \o SubSeq(waypoints, k+1, Len(waypoints))

\* remove_waypoint, and clear_waypoints with its new status.
EditsPlan ==
  /\ Edits /\ Intervenes
  /\ \/ \E k \in DOMAIN waypoints : waypoints' = Without(k) /\ UNCHANGED state
     \/ waypoints' = <<>> /\ state' = "IDLE"
  /\ UNCHANGED <<vars, manual, index, last, go, stopping, handle, at, reached>>

\* enable goes on to enter_manual_mode, and leaves the coroutines m under way.
EntersManual(m) ==
  IF mode \in {"HOVERING", "NAVIGATING", "MANUAL"}
  THEN mode' = "MANUAL" /\ manual' = m \cup {"on"} ELSE mode' = mode /\ manual' = m

\* enable_manual_overtake: the mission is paused, and the mode taken over if
\* the drone hovers or navigates; a controller that does not run yet is
\* initialized first.
Takes ==
  /\ Overtakes /\ Intervenes /\ "taking" \notin manual
  /\ PauseMission
  /\ IF connected THEN EntersManual(manual) ELSE manual' = manual \cup {"taking"} /\ mode' = mode
  /\ UNCHANGED <<target, limit, running, connected, offboard, frame, veh, battery, calls>>
  /\ UNCHANGED <<waypoints, index, last, stopping, handle, at, reached>>

HasConnected ==
  /\ "taking" \in manual
  /\ \E ok \in Accepts :
       /\ Connect(ok)
       /\ IF ok THEN EntersManual(manual \ {"taking"})
                ELSE manual' = manual \ {"taking"} /\ mode' = mode
  /\ UNCHANGED <<target, limit, offboard, frame, veh, battery, calls>>
  /\ UNCHANGED <<mission, operations>>

\* disable_manual_overtake: the manual loop is cancelled and waited for ...
GivesBack ==
  /\ Intervenes /\ "on" \in manual /\ "leaving" \notin manual
  /\ manual' = (manual \ {"on"}) \cup {"leaving"}
  /\ UNCHANGED <<vars, mission>>

\* ... then the mode is left, if it still is MANUAL, and the mission resumed,
\* even if the operator has taken over again meanwhile.
HasGivenBack ==
  /\ "leaving" \in manual /\ manual' = manual \ {"leaving"}
  /\ mode' = IF mode = "MANUAL" THEN "HOVERING" ELSE mode
  /\ ResumeMission
  /\ UNCHANGED <<target, limit, running, connected, offboard, frame, veh, battery, calls>>
  /\ UNCHANGED <<waypoints, index, last, stopping, handle, reached, operations>>

-----------------------------------------------------------------------------
MissionTask == Start \/ Launched \/ Connects \/ TakesOff \/ TakeoffOver
                 \/ NextWaypoint \/ Wakes \/ Arrives

Operator == Pauses \/ Resumes \/ StopMission \/ EditsPlan
              \/ Takes \/ HasConnected \/ GivesBack \/ HasGivenBack

Controller == ((\E t \in Tasks : GoesOn(t)) \/ MonitorChecks \/ Flies) /\ UNCHANGED mvars

MNext == MissionTask \/ Operator \/ Controller

MSpec == MInit /\ [][MNext]_allvars

\* The operator who takes over gives control back only if he wants to.
MFairness ==
  /\ WF_allvars(MissionTask) /\ WF_allvars(HasConnected) /\ WF_allvars(HasGivenBack)
  /\ \A t \in Tasks : WF_allvars(GoesOn(t) /\ UNCHANGED mvars)
  /\ WF_allvars(MonitorChecks /\ UNCHANGED mvars)
  /\ WF_allvars(Climbs /\ UNCHANGED mvars)
  /\ SF_allvars(Returns /\ UNCHANGED mvars) /\ SF_allvars(TouchesDown /\ UNCHANGED mvars)

MFairSpec == MSpec /\ MFairness

-----------------------------------------------------------------------------
MTypeOK ==
  /\ TypeOK
  /\ waypoints \in Seq(Places) /\ reached \in Seq(Places)
  /\ state \in States /\ at \in Where
  /\ index \in 1..Len(Plan)+1 /\ last \in 0..Len(Plan)
  /\ go \in BOOLEAN /\ stopping \in BOOLEAN
  /\ handle \in {"none", "live", "done"} /\ manual \subseteq {"on", "taking", "leaving"}
  /\ operations \in 0..MaxOperations

\* Edits only ever shorten the list.
Edited == waypoints # Plan

\* A mission that nobody edited is COMPLETE only after the drone was at every
\* waypoint, in order, whatever the operator and the safety monitor did to it
\* meanwhile.
CompleteMeansReached == state = "COMPLETE" /\ ~Edited => reached = Plan

\* A mission task that has returned says how it ended, whatever was paused,
\* resumed or overtaken meanwhile; one that has died instead, and has left
\* EXECUTING or PAUSED behind, had the list shortened under it.
EndedIsReported ==
  /\ at = "none" /\ last > 0 => state \in {"COMPLETE", "FAILED", "IDLE"}
  /\ at = "crashed" => Len(waypoints) < last

\* A mission that is executing, with the list it was started with, ends or is
\* paused.
MissionEnds == state = "EXECUTING" /\ ~Edited ~> state # "EXECUTING" \/ Edited

\* stop ends the mission task, paused or not.
StopEnds == stopping ~> at \in {"none", "crashed"} \/ ~stopping

\* execute_mission_background: "Launch mission asynchronously and return task
\* handle."  A launched mission with waypoints executes.
LaunchExecutes == [][at = "launched" /\ at' # "launched" => state' = "EXECUTING"]_allvars

\* enable_manual_overtake: "Pause mission execution and hand control to manual
\* controller."  Being overtaken does not make the mission fail.
OvertakePauses == [][state = "PAUSED" /\ mode = "MANUAL" => state' # "FAILED"]_allvars

\* "Start/pause/resume/stop mission execution": no flight to a waypoint is
\* begun once stop was called.
StopFliesNoMore == [][stopping /\ at # "flying" => at' # "flying"]_allvars

\* "Dynamic waypoint list management": the task survives an edit.
EditsAreSafe == at # "crashed"
=============================================================================
