--------------------------- MODULE FlightController ---------------------------
(***************************************************************************)
(* The flight controller of one drone: the mode machine of                 *)
(* single_drone/flight_control/flight_controller.py, the PX4 commands of   *)
(* mavsdk_interface.py that it awaits, and the autopilot behind them.      *)
(*                                                                         *)
(* Everything runs on one asyncio loop.  A task runs undisturbed up to the *)
(* next await of an interface call or of a sleep, and there any other task *)
(* may run, so a step below is what one task does between two awaits.  The *)
(* tasks are the callers (a mission, an operator, a script), each with at  *)
(* most one command in progress, and the safety monitor.                   *)
(***************************************************************************)
EXTENDS Naturals

CONSTANTS
  Callers,       \* tasks that issue flight commands
  Monitor,       \* the _safety_monitor task
  Places,        \* positions, as far as targets and the geofence tell them apart
  Home,          \* where RTL lands
  NoPlace,       \* no target yet
  Beyond,        \* the places outside geofence_radius
  TooHigh,       \* the places above geofence_altitude
  Below,         \* the place geofence_altitude - 5 m up, under each place
  Waypoints,     \* places the callers navigate to
  Rejects,       \* the link may not come up, and the autopilot refuse a command
  MaxCalls       \* bound: commands the callers issue

Tasks == Callers \cup {Monitor}

ASSUME Geography ==
  /\ Monitor \notin Callers
  /\ NoPlace \notin Places
  /\ {Home} \cup Waypoints \cup Beyond \cup TooHigh \subseteq Places
  /\ Home \notin Beyond \cup TooHigh
  /\ Below \in [Places -> Places \ TooHigh]
  /\ Rejects \in BOOLEAN /\ MaxCalls \in Nat

VARIABLES
  mode,      \* _mode
  target,    \* _target_position
  limit,     \* _velocity_limit
  running,   \* _running
  connected, \* the interface's _connected, and is_initialized
  offboard,  \* the interface's _offboard_active
  frame,     \* per task: the await it is suspended in and the locals it keeps
  veh,       \* the vehicle: armed, in the air, what it flies, where it is
  battery,   \* "ok" or below battery_critical
  calls      \* commands issued so far: how many, by which callers, a shutdown?

vars == <<mode, target, limit, running, connected, offboard, frame, veh, battery, calls>>

-----------------------------------------------------------------------------
(* The mode machine.                                                       *)

ValidTransitions ==
  [IDLE       |-> {"ARMING", "EMERGENCY"},
   ARMING     |-> {"ARMED", "IDLE", "EMERGENCY"},
   ARMED      |-> {"TAKING_OFF", "IDLE", "EMERGENCY"},
   TAKING_OFF |-> {"HOVERING", "EMERGENCY"},
   HOVERING   |-> {"NAVIGATING", "MANUAL", "LANDING", "RETURN_TO_LAUNCH", "EMERGENCY"},
   NAVIGATING |-> {"HOVERING", "MANUAL", "LANDING", "RETURN_TO_LAUNCH", "EMERGENCY"},
   MANUAL     |-> {"HOVERING", "NAVIGATING", "LANDING", "RETURN_TO_LAUNCH", "EMERGENCY"},
   LANDING    |-> {"LANDED", "EMERGENCY"},
   LANDED     |-> {"IDLE", "ARMING", "EMERGENCY"},
   EMERGENCY  |-> {"LANDED", "IDLE"},
   RETURN_TO_LAUNCH |-> {"LANDED", "EMERGENCY"}]

Modes == DOMAIN ValidTransitions

\* _transition_to: an invalid one is refused, and no caller looks at that.
After(m, n) == IF n \in ValidTransitions[m] THEN n ELSE m

\* The modes in which the geofence is not checked and RTL is refused.
GroundModes == {"IDLE", "ARMED", "LANDED"}

-----------------------------------------------------------------------------
(* Tasks.  at names the await a task is suspended in, "done" that it is in  *)
(* none; then says what follows the command in progress.                    *)

Awaits == {"done", "arm", "disarm", "takeoff", "climb", "land_stop",
           "land_stop2", "land", "land_wait", "offboard", "goto", "em_stop",
           "em_stop2", "em_land", "rtl_stop", "rtl", "rtl_wait"}

MonitorStages == {"battery", "fence", "radius"}

Frames == [at : Awaits, ok : BOOLEAN,
           then : {"return", "takeoff", "shutdown"} \cup MonitorStages,
           seen : Places \cup {NoPlace},   \* the monitor's copy of position
           goal : Places \cup {NoPlace},   \* goto_position's arguments ...
           speed : {"slow", "full"},
           old : {"slow", "full"}]         \* ... and its old_velocity_limit

Idle == [at |-> "done", ok |-> TRUE, then |-> "return", seen |-> NoPlace,
         goal |-> NoPlace, speed |-> "full", old |-> "full"]

StartOfMonitor == [Idle EXCEPT !.then = "battery"]

Vehicles == [armed : BOOLEAN, inAir : BOOLEAN, pos : Places,
             flies : {"hold", "takeoff", "offboard", "land", "rtl"}]

Init ==
  /\ mode = "IDLE" /\ target = NoPlace /\ limit = "full"
  /\ running = FALSE /\ connected = FALSE /\ offboard = FALSE
  /\ frame = [t \in Tasks |-> IF t = Monitor THEN StartOfMonitor ELSE Idle]
  /\ veh = [armed |-> FALSE, inAir |-> FALSE, flies |-> "hold", pos |-> Home]
  /\ battery = "ok"
  /\ calls = [made |-> 0, by |-> {}, shut |-> FALSE]

At(t, label) == frame[t].at = label
Free(t) == At(t, "done") /\ frame[t].then # "shutdown"

\* f suspended in label; f after its command returned ok.
Suspended(f, label) == [f EXCEPT !.at = label]
Returned(f, ok) == [f EXCEPT !.at = "done", !.ok = ok, !.speed = "full", !.old = "full"]

Continue(t, f) == frame' = [frame EXCEPT ![t] = f]
Suspend(t, label) == Continue(t, Suspended(frame[t], label))
Return(t, ok) == Continue(t, Returned(frame[t], ok))

\* A caller issues a command, a shutdown or another.
Issue(t, shut) ==
  /\ t \in Callers /\ Free(t) /\ calls.made < MaxCalls
  /\ calls' = [made |-> calls.made + 1, by |-> calls.by \cup {t}, shut |-> calls.shut \/ shut]
  /\ UNCHANGED <<veh, battery>>

Call(t) == Issue(t, FALSE)

\* The await that t was suspended in is over.
Resume(t, label) == At(t, label) /\ UNCHANGED <<battery, calls>>

\* What an interface call may return: False without a connection.
Accepts == IF Rejects THEN BOOLEAN ELSE {TRUE}
Answers == IF connected THEN Accepts ELSE {FALSE}

-----------------------------------------------------------------------------
(* Commands that await one interface call.                                 *)

\* initialize: the link comes up and the background tasks start, or neither.
Connect(ok) == connected' = (connected \/ ok) /\ running' = (running \/ ok)

Initialize(t) ==
  /\ Call(t) /\ ~connected
  /\ \E ok \in Accepts : Connect(ok) /\ Return(t, ok)
  /\ UNCHANGED <<mode, target, limit, offboard>>

\* arm: the call of arm or takeoff suspends f.
Arm(t, f) ==
  /\ mode = "IDLE" /\ mode' = "ARMING"
  /\ Continue(t, Suspended(f, "arm"))

BeginArm(t) ==
  /\ Call(t) /\ Arm(t, [Idle EXCEPT !.then = "return"])
  /\ UNCHANGED <<target, limit, running, connected, offboard>>

\* takeoff past the arming: refused unless ARMED.
TakeOff(t, f, m) ==
  IF m = "ARMED"
  THEN /\ mode' = "TAKING_OFF" /\ target' = veh.pos
       /\ Continue(t, Suspended(f, "takeoff"))
  ELSE mode' = m /\ Continue(t, Returned(f, FALSE)) /\ UNCHANGED target

BeginTakeoff(t) ==
  /\ Call(t)
  /\ IF mode = "IDLE"
     THEN Arm(t, [Idle EXCEPT !.then = "takeoff"]) /\ UNCHANGED target
     ELSE TakeOff(t, Idle, mode)
  /\ UNCHANGED <<limit, running, connected, offboard>>

\* arm returns; a takeoff goes on, or returns False too.
Armed(t) ==
  /\ Resume(t, "arm")
  /\ \E ok \in Answers :
       /\ veh' = [veh EXCEPT !.armed = @ \/ ok]
       /\ LET m == After(mode, IF ok THEN "ARMED" ELSE "IDLE")
          IN  IF ok /\ frame[t].then = "takeoff"
              THEN TakeOff(t, [frame[t] EXCEPT !.then = "return"], m)
              ELSE mode' = m /\ Return(t, ok) /\ UNCHANGED target
  /\ UNCHANGED <<limit, running, connected, offboard>>

\* The autopilot takes off only when armed on the ground.
TookOff(t) ==
  /\ Resume(t, "takeoff")
  /\ \E ok \in Answers :
       LET up == ok /\ veh.armed /\ ~veh.inAir
       IN  /\ veh' = IF up THEN [veh EXCEPT !.flies = "takeoff"] ELSE veh
           /\ mode' = IF up THEN mode ELSE After(mode, "IDLE")
           /\ IF up THEN Suspend(t, "climb") ELSE Return(t, FALSE)
  /\ UNCHANGED <<target, limit, running, connected, offboard>>

\* wait_for_altitude ends, reached or timed out: "Continue anyway".
Climbed(t) ==
  /\ Resume(t, "climb")
  /\ mode' = After(mode, "HOVERING") /\ Return(t, TRUE)
  /\ UNCHANGED <<target, limit, running, connected, offboard, veh>>

BeginDisarm(t) ==
  /\ Call(t) /\ ~veh.inAir
  /\ Continue(t, Suspended(Idle, "disarm"))
  /\ UNCHANGED <<mode, target, limit, running, connected, offboard>>

\* The autopilot refuses to disarm a flying vehicle.
Disarmed(t) ==
  /\ Resume(t, "disarm")
  /\ \E ok \in Answers :
       LET off == ok /\ ~veh.inAir
       IN  /\ veh' = IF off THEN [veh EXCEPT !.armed = FALSE, !.flies = "hold"] ELSE veh
           /\ mode' = IF off THEN After(mode, "IDLE") ELSE mode
           /\ Return(t, off)
  /\ UNCHANGED <<target, limit, running, connected, offboard>>

EnterManual(t) ==
  /\ Call(t) /\ mode \in {"HOVERING", "NAVIGATING"}
  /\ mode' = "MANUAL" /\ Continue(t, Idle)
  /\ UNCHANGED <<target, limit, running, connected, offboard>>

\* exit_manual_mode, with hover or without: then the drone is NAVIGATING to
\* whatever target there was, and no goto_position need be waiting for it.
ExitManual(t) ==
  /\ Call(t) /\ mode = "MANUAL"
  /\ mode' \in {"HOVERING", "NAVIGATING"} /\ Continue(t, Idle)
  /\ UNCHANGED <<target, limit, running, connected, offboard>>

-----------------------------------------------------------------------------
(* goto_position.                                                          *)

Navigating(f, p, s) == [f EXCEPT !.goal = p, !.speed = s, !.old = limit]

\* Called as f by task t; refused except from HOVERING and NAVIGATING.
GotoPosition(t, f, p, s) ==
  IF mode \in {"HOVERING", "NAVIGATING"}
  THEN /\ mode' = "NAVIGATING" /\ target' = p
       /\ limit' = IF offboard THEN s ELSE limit
       /\ Continue(t, Suspended(Navigating(f, p, s), IF offboard THEN "goto" ELSE "offboard"))
  ELSE Continue(t, Returned(f, FALSE)) /\ UNCHANGED <<mode, target, limit>>

CallGoto(t, p, s) ==
  /\ Call(t) /\ GotoPosition(t, Idle, p, s)
  /\ UNCHANGED <<running, connected, offboard>>

\* Mutant: speed is not clamped to max_horizontal_speed.
BeginGoto_Unclamped(t) ==
  \E p \in Waypoints, s \in {"slow", "full", "faster"} : CallGoto(t, p, s)

BeginGoto(t) == \E p \in Waypoints, s \in {"slow", "full"} : CallGoto(t, p, s)

\* start_offboard is over: the waiting loop begins, or the drone hovers.
OffboardStarted(t) ==
  /\ Resume(t, "offboard")
  /\ \E ok \in Answers :
       IF ok
       THEN /\ offboard' = TRUE /\ veh' = [veh EXCEPT !.flies = "offboard"]
            /\ limit' = frame[t].speed
            /\ Continue(t, Suspended([frame[t] EXCEPT !.old = limit], "goto"))
            /\ UNCHANGED mode
       ELSE /\ mode' = After(mode, "HOVERING") /\ Return(t, FALSE)
            /\ UNCHANGED <<offboard, limit, veh>>
  /\ UNCHANGED <<target, running, connected>>

\* Mutant: the loop ends without a transition when time is up.
GotoEnds_NoHover(t) ==
  /\ Resume(t, "goto")
  /\ LET here == veh.pos = frame[t].goal
     IN  \/ /\ ~(running /\ mode = "NAVIGATING")
            /\ Return(t, FALSE) /\ UNCHANGED mode
         \/ /\ running /\ mode = "NAVIGATING"
            /\ mode' = IF here THEN "HOVERING" ELSE mode
            /\ Return(t, here)
  /\ limit' = frame[t].old
  /\ UNCHANGED <<target, running, connected, offboard, veh>>

\* Mutant: the loop has no timeout.
GotoEnds_NoTimeout(t) ==
  /\ Resume(t, "goto")
  /\ \/ /\ ~(running /\ mode = "NAVIGATING")
        /\ Return(t, FALSE) /\ UNCHANGED mode
     \/ /\ running /\ mode = "NAVIGATING" /\ veh.pos = frame[t].goal
        /\ mode' = "HOVERING" /\ Return(t, TRUE)
  /\ limit' = frame[t].old
  /\ UNCHANGED <<target, running, connected, offboard, veh>>

\* A poll that ends the waiting loop: the mode has changed, this call's own
\* position is reached, or its time is up.
GotoEnds(t) ==
  /\ Resume(t, "goto")
  /\ IF running /\ mode = "NAVIGATING"
     THEN mode' = "HOVERING" /\ Return(t, veh.pos = frame[t].goal)
     ELSE Return(t, FALSE) /\ UNCHANGED mode
  /\ limit' = frame[t].old
  /\ UNCHANGED <<target, running, connected, offboard, veh>>

-----------------------------------------------------------------------------
(* Landing, emergency landing and return to launch.                        *)

\* land, called as f.
Land(t, f) ==
  IF ~veh.inAir /\ mode = "IDLE"
  THEN Continue(t, Returned(f, TRUE)) /\ UNCHANGED mode
  ELSE /\ mode' = After(mode, "LANDING")
       /\ Continue(t, Suspended(f, IF offboard THEN "land_stop" ELSE "land"))

BeginLand(t) ==
  /\ Call(t) /\ Land(t, Idle)
  /\ UNCHANGED <<target, limit, running, connected, offboard>>

\* emergency_stop, called as f.
EmergencyStop(t, f) ==
  mode' = After(mode, "EMERGENCY") /\ Continue(t, Suspended(f, "em_stop"))

BeginEmergencyStop(t) ==
  /\ Call(t) /\ EmergencyStop(t, Idle)
  /\ UNCHANGED <<target, limit, running, connected, offboard>>

\* return_to_launch, called as f.  A transition that is refused does not stop
\* the command.
ReturnToLaunch(t, f) ==
  IF mode \in GroundModes
  THEN Continue(t, Returned(f, FALSE)) /\ UNCHANGED mode
  ELSE /\ mode' = After(mode, "RETURN_TO_LAUNCH")
       /\ Continue(t, Suspended(f, IF offboard THEN "rtl_stop" ELSE "rtl"))

BeginReturnToLaunch(t) ==
  /\ Call(t) /\ ReturnToLaunch(t, Idle)
  /\ UNCHANGED <<target, limit, running, connected, offboard>>

\* What follows a stop_offboard that left _offboard_active at off:
\* interface.land tries once more.
NextAfterStop(label, off) ==
  CASE label = "land_stop" /\ off -> "land_stop2"
    [] label = "em_stop"   /\ off -> "em_stop2"
    [] label \in {"land_stop", "land_stop2"} /\ ~(label = "land_stop" /\ off) -> "land"
    [] label \in {"em_stop", "em_stop2"}     /\ ~(label = "em_stop" /\ off)   -> "em_land"
    [] label = "rtl_stop" -> "rtl"

OffboardStopped(t) ==
  /\ frame[t].at \in {"land_stop", "land_stop2", "em_stop", "em_stop2", "rtl_stop"}
  /\ Resume(t, frame[t].at)
  /\ \E ok \in Answers :
       /\ offboard' = (offboard /\ ~ok)
       /\ veh' = IF ok /\ veh.flies = "offboard" THEN [veh EXCEPT !.flies = "hold"] ELSE veh
       /\ Suspend(t, NextAfterStop(frame[t].at, offboard'))
  /\ UNCHANGED <<mode, target, limit, running, connected>>

\* The autopilot starts to land or to return; on the ground it just holds.
Commanded(v, what) == [v EXCEPT !.flies = IF v.inAir THEN what ELSE "hold"]

LandCommanded(t) ==
  /\ Resume(t, "land")
  /\ \E ok \in Answers :
       IF ok THEN veh' = Commanded(veh, "land") /\ Suspend(t, "land_wait")
             ELSE Return(t, FALSE) /\ UNCHANGED veh
  /\ UNCHANGED <<mode, target, limit, running, connected, offboard>>

\* Mutant: a landing that times out counts as landed.
LandWaited_Always(t) ==
  /\ Resume(t, "land_wait")
  /\ mode' = After(After(mode, "LANDED"), "IDLE") /\ Return(t, TRUE)
  /\ UNCHANGED <<target, limit, running, connected, offboard, veh>>

\* wait_for_landed returns, or times out with the drone still in the air.
LandWaited(t) ==
  /\ Resume(t, "land_wait")
  /\ Return(t, ~veh.inAir)
  /\ mode' = IF veh.inAir THEN mode ELSE After(After(mode, "LANDED"), "IDLE")
  /\ UNCHANGED <<target, limit, running, connected, offboard, veh>>

EmergencyLandCommanded(t) ==
  /\ Resume(t, "em_land")
  /\ \E ok \in Answers : veh' = IF ok THEN Commanded(veh, "land") ELSE veh
  /\ Return(t, TRUE)
  /\ UNCHANGED <<mode, target, limit, running, connected, offboard>>

RtlCommanded(t) ==
  /\ Resume(t, "rtl")
  /\ \E ok \in Answers :
       IF ok THEN veh' = Commanded(veh, "rtl") /\ Suspend(t, "rtl_wait")
             ELSE Return(t, FALSE) /\ UNCHANGED veh
  /\ UNCHANGED <<mode, target, limit, running, connected, offboard>>

\* return_to_launch does not look at what wait_for_landed returned.
RtlWaited(t) ==
  /\ Resume(t, "rtl_wait")
  /\ mode' = After(mode, "LANDED") /\ Return(t, TRUE)
  /\ UNCHANGED <<target, limit, running, connected, offboard, veh>>

\* shutdown: lands first if in the air, and ends whatever came of it.
BeginShutdown(t) ==
  /\ Issue(t, TRUE) /\ connected
  /\ running' = FALSE
  /\ LET f == [Idle EXCEPT !.then = "shutdown"]
     IN  IF veh.inAir THEN Land(t, f) ELSE Continue(t, f) /\ UNCHANGED mode
  /\ UNCHANGED <<target, limit, connected, offboard>>

\* The background tasks are cancelled and the link is closed.
ShutdownEnds(t) ==
  /\ Resume(t, "done") /\ frame[t].then = "shutdown"
  /\ frame' = [frame EXCEPT ![t] = Idle, ![Monitor] = StartOfMonitor]
  /\ connected' = FALSE
  /\ UNCHANGED <<mode, target, limit, running, offboard, veh>>

-----------------------------------------------------------------------------
(* The safety monitor.  Its checks await one another, so the geofence is    *)
(* not looked at before an emergency stop has been commanded, nor the       *)
(* battery before a return has ended.  is_connected is only cleared by      *)
(* disconnect, after the monitor was cancelled: _check_health does nothing. *)

MonitorAt(stage) == Free(Monitor) /\ frame[Monitor].then = stage

\* The checks go on at stage; the radius check uses the position read before.
Turn(stage, p) == [Idle EXCEPT !.then = stage, !.seen = p]

\* The second half of _check_geofence, for a position p read earlier.
CheckRadius(p) ==
  IF p \in Beyond THEN ReturnToLaunch(Monitor, StartOfMonitor)
                  ELSE Continue(Monitor, StartOfMonitor) /\ UNCHANGED mode

\* Mutant: the geofence's radius is not checked.
CheckGeofence_NoRadius ==
  IF mode \notin GroundModes /\ veh.pos \in TooHigh
  THEN GotoPosition(Monitor, Turn("radius", veh.pos), Below[veh.pos], "full")
  ELSE Continue(Monitor, StartOfMonitor) /\ UNCHANGED <<mode, target, limit>>

CheckGeofence ==
  IF mode \in GroundModes
  THEN Continue(Monitor, StartOfMonitor) /\ UNCHANGED <<mode, target, limit>>
  ELSE IF veh.pos \in TooHigh
       THEN GotoPosition(Monitor, Turn("radius", veh.pos), Below[veh.pos], "full")
       ELSE CheckRadius(veh.pos) /\ UNCHANGED <<target, limit>>

\* Mutant: only one emergency stop is made.
MonitorBattery_Once ==
  /\ MonitorAt("battery") /\ running
  /\ IF battery = "critical" /\ mode # "EMERGENCY"
     THEN EmergencyStop(Monitor, Turn("fence", NoPlace)) /\ UNCHANGED <<target, limit>>
     ELSE CheckGeofence

MonitorBattery ==
  /\ MonitorAt("battery") /\ running
  /\ IF battery = "critical"
     THEN EmergencyStop(Monitor, Turn("fence", NoPlace)) /\ UNCHANGED <<target, limit>>
     ELSE CheckGeofence

MonitorFence == MonitorAt("fence") /\ CheckGeofence

MonitorRadius ==
  /\ MonitorAt("radius") /\ CheckRadius(frame[Monitor].seen)
  /\ UNCHANGED <<target, limit>>

MonitorChecks ==
  /\ MonitorBattery \/ MonitorFence \/ MonitorRadius
  /\ UNCHANGED <<running, connected, offboard, veh, battery, calls>>

-----------------------------------------------------------------------------
(* The vehicle.                                                            *)

Vehicle(v) ==
  /\ veh' = v
  /\ UNCHANGED <<mode, target, limit, running, connected, offboard, frame, battery, calls>>

\* It has left the ground, and holds there.
Climbs == /\ veh.flies = "takeoff" /\ veh.armed
          /\ Vehicle([veh EXCEPT !.inAir = TRUE, !.flies = "hold"])

\* The velocity commands of the control loop, or of the operator, move it:
\* _navigate_step and _hover_step fly to _target_position.
Moves ==
  /\ veh.inAir /\ veh.flies = "offboard"
  /\ \/ /\ running /\ mode \in {"NAVIGATING", "HOVERING"} /\ target \notin {NoPlace, veh.pos}
        /\ Vehicle([veh EXCEPT !.pos = target])
     \/ /\ mode = "MANUAL"
        /\ \E p \in Places \ {veh.pos} : Vehicle([veh EXCEPT !.pos = p])

Returns == /\ veh.inAir /\ veh.flies = "rtl" /\ veh.pos # Home
           /\ Vehicle([veh EXCEPT !.pos = Home])

TouchesDown ==
  /\ veh.inAir /\ \/ veh.flies = "land"
                  \/ veh.flies = "rtl" /\ veh.pos = Home
  /\ Vehicle([veh EXCEPT !.inAir = FALSE, !.flies = "hold"])

\* The autopilot disarms by itself when it stays on the ground.
DisarmsItself == /\ veh.armed /\ ~veh.inAir /\ veh.flies # "takeoff"
                 /\ Vehicle([veh EXCEPT !.armed = FALSE])

BatteryDrains ==
  /\ battery = "ok" /\ battery' = "critical"
  /\ UNCHANGED <<mode, target, limit, running, connected, offboard, frame, veh, calls>>

-----------------------------------------------------------------------------
Issues(t) ==
  \/ Initialize(t) \/ BeginArm(t) \/ BeginTakeoff(t) \/ BeginDisarm(t)
  \/ EnterManual(t) \/ ExitManual(t) \/ BeginGoto(t) \/ BeginLand(t)
  \/ BeginEmergencyStop(t) \/ BeginReturnToLaunch(t) \/ BeginShutdown(t)

GoesOn(t) ==
  \/ Armed(t) \/ TookOff(t) \/ Climbed(t) \/ Disarmed(t)
  \/ OffboardStarted(t) \/ GotoEnds(t) \/ OffboardStopped(t)
  \/ LandCommanded(t) \/ LandWaited(t) \/ EmergencyLandCommanded(t)
  \/ RtlCommanded(t) \/ RtlWaited(t) \/ ShutdownEnds(t)

Flies == Climbs \/ Moves \/ Returns \/ TouchesDown \/ DisarmsItself \/ BatteryDrains

Next == (\E t \in Callers : Issues(t)) \/ (\E t \in Tasks : GoesOn(t)) \/ MonitorChecks \/ Flies

Spec == Init /\ [][Next]_vars

\* Every await ends and the monitor's loop goes round; a vehicle told to come
\* down gets there, even if it is told several times over.
Fairness ==
  /\ \A t \in Tasks : WF_vars(GoesOn(t))
  /\ WF_vars(MonitorChecks)
  /\ WF_vars(Climbs) /\ SF_vars(Returns) /\ SF_vars(TouchesDown)

FairSpec == Spec /\ Fairness

-----------------------------------------------------------------------------
TypeOK ==
  /\ mode \in Modes
  /\ target \in Places \cup {NoPlace} /\ limit \in {"slow", "full"}
  /\ running \in BOOLEAN /\ connected \in BOOLEAN /\ offboard \in BOOLEAN
  /\ frame \in [Tasks -> Frames]
  /\ veh \in Vehicles
  /\ battery \in {"ok", "critical"}
  /\ calls \in [made : 0..MaxCalls, by : SUBSET Callers, shut : BOOLEAN]

\* A drone whose mode is IDLE or ARMED stands on the ground: arm, takeoff and
\* the geofence check go by the mode alone.  It holds as long as one task
\* beside the monitor has issued commands, with commands that fail and waits
\* that time out.  (With two, a landing can overtake a take-off.)
IdleIsGrounded ==
  (\A t, u \in calls.by : t = u) /\ mode \in {"IDLE", "ARMED"} => ~veh.inAir

\* The mode is NAVIGATING and no goto_position is there to end it: the drone
\* flies to its target with nobody waiting for the arrival or the timeout.
Watched == \E t \in Tasks : frame[t].at \in {"offboard", "goto"}
Adrift == mode = "NAVIGATING" /\ ~Watched

\* A drone is set adrift only by leaving manual control, as exit_manual_mode
\* without hover does it: no overlap of commands, timeouts, refused commands,
\* overtakes and emergencies makes a goto_position leave NAVIGATING behind
\* while the controller runs and is connected, a second shutdown included.
NavigationStaysWatched ==
  [][Adrift' /\ running' /\ connected' => Adrift \/ mode = "MANUAL"]_vars

\* exit_manual_mode: "Leave manual mode and return to autonomous
\* hover/navigation."  Somebody waits for the end of that navigation.
ManualExitIsWatched == [][mode = "MANUAL" => ~Adrift']_vars

\* drone_types.py on LANDED: "On ground after flight".
LandedIsGrounded == mode = "LANDED" => ~veh.inAir

\* drone_types.py on EMERGENCY: "Emergency state (auto-land)".  A drone that
\* lands in EMERGENCY goes on landing when no caller has a command in progress.
EmergencyKeepsLanding ==
  [][(mode = "EMERGENCY" /\ mode' = "EMERGENCY" /\ veh.flies = "land" /\ veh'.inAir
        /\ \A t \in Callers : Free(t)) => veh'.flies = "land"]_vars

\* drone_types.py on HOVERING: "Maintaining position".
HoverHolds == [][mode = "HOVERING" /\ mode' = "HOVERING" => veh'.pos = veh.pos]_vars

\* Every command returns, whatever else goes on: the waits have timeouts.
CommandsEnd == \A t \in Callers : ~At(t, "done") ~> At(t, "done")

\* A flying drone whose battery is critical comes down, even if an offboard
\* start or a return that was under way undoes the first emergency landing:
\* the monitor stops it again in its next round.
CriticalBatteryLands ==
  (running /\ battery = "critical" /\ veh.inAir)
    ~> (~running \/ ~connected \/ ~veh.inAir)

\* A drone outside the geofence comes back inside it, or lands, unless a return
\* has outlasted its wait and left the mode LANDED, which the check skips.
BreachEnds ==
  []LandedIsGrounded
    => ((running /\ veh.inAir /\ veh.pos \in Beyond)
          ~> (~running \/ ~connected \/ ~veh.inAir \/ veh.pos \notin Beyond))

\* drone_types.py on TAKING_OFF: "Ascending to target altitude".  A take-off
\* comes to an end.
TakeoffEnds == mode = "TAKING_OFF" ~> mode # "TAKING_OFF"
=============================================================================
