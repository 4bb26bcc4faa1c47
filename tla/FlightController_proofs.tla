------------------------ MODULE FlightController_proofs ------------------------
(***************************************************************************)
(* Proofs about FlightController, for any callers, places and number of    *)
(* commands: the state keeps its type, no command leaves a drone flying to *)
(* its target unwatched, and as long as one task commands, IDLE and ARMED  *)
(* mean it is grounded.                                                    *)
(***************************************************************************)
EXTENDS FlightController, TLAPS

\* The monitor only ever awaits what its own checks command.
MonitorAwaits == {"done", "offboard", "goto", "em_stop", "em_stop2", "em_land",
                  "rtl_stop", "rtl", "rtl_wait"}

\* What is known of the tasks: the monitor neither arms nor lands nor shuts
\* down, a caller that has issued nothing awaits nothing, and one that shuts
\* down is in the history.
TasksOK ==
  /\ frame[Monitor].at \in MonitorAwaits
  /\ frame[Monitor].then # "shutdown"
  /\ \A t \in Callers \ calls.by : frame[t] = Idle
  /\ \A t \in Callers : frame[t].then = "shutdown" => calls.shut

\* The modes before a take-off.
Low == {"IDLE", "ARMING", "ARMED"}

OneCaller == \A t, u \in calls.by : t = u

\* On the ground, and not about to leave it.
Grounded == ~veh.inAir /\ veh.flies # "takeoff"

\* What a task in the frame f relies on while it arms, takes off or waits for a
\* landing.
MayFly(f) ==
  /\ f.at \in {"arm", "takeoff"} => Grounded
  /\ f.at = "takeoff" => mode \notin Low
  /\ f.at = "land_wait" => veh.flies # "takeoff"

\* IdleIsGrounded is not inductive, since a landing drone becomes IDLE and one
\* that is IDLE takes off: what the tasks rely on meanwhile must hold too.
GroundedOK ==
  OneCaller =>
    /\ mode \in Low => Grounded
    /\ \A t \in Tasks : MayFly(frame[t])

IInv == TypeOK /\ TasksOK /\ GroundedOK

\* What every step does about goto_position, whatever state it starts in.
KeepsWatch == Adrift' /\ running' /\ connected' => Adrift \/ mode = "MANUAL"

USE DEF Tasks

-----------------------------------------------------------------------------
\* A task that is suspended or has returned still has a frame.
LEMMA SuspendedKinds ==
  ASSUME NEW f \in Frames, NEW l \in Awaits
  PROVE  /\ Suspended(f, l) \in Frames
         /\ Suspended(f, l).at = l /\ Suspended(f, l).then = f.then
<1>1. Suspended(f, l) = [f EXCEPT !.at = l]
  BY DEF Suspended
<1> QED BY <1>1 DEF Frames

LEMMA ReturnedKinds ==
  ASSUME NEW f \in Frames, NEW b \in BOOLEAN
  PROVE  /\ Returned(f, b) \in Frames
         /\ Returned(f, b).at = "done" /\ Returned(f, b).then = f.then
<1>1. Returned(f, b) = [f EXCEPT !.at = "done", !.ok = b, !.speed = "full", !.old = "full"]
  BY DEF Returned
<1>2. "done" \in Awaits
  BY DEF Awaits
<1> QED BY <1>1, <1>2 DEF Frames

LEMMA IdleIsFrame ==
  /\ Idle \in Frames /\ Idle.at = "done" /\ Idle.then = "return"
  /\ StartOfMonitor \in Frames /\ StartOfMonitor.at = "done" /\ StartOfMonitor.then = "battery"
BY DEF Idle, StartOfMonitor, Frames, Awaits, MonitorStages

\* A transition keeps the mode or makes the one asked for.
LEMMA AfterKinds ==
  ASSUME NEW m \in Modes, NEW n \in Modes
  PROVE  After(m, n) \in {m, n} /\ After(m, n) \in Modes
BY DEF After

LEMMA ModesAre ==
  Modes = {"IDLE", "ARMING", "ARMED", "TAKING_OFF", "HOVERING", "NAVIGATING", "MANUAL",
           "LANDING", "LANDED", "EMERGENCY", "RETURN_TO_LAUNCH"}
BY DEF Modes, ValidTransitions

LEMMA InitIInv == Init => IInv
<1> SUFFICES ASSUME Init PROVE IInv
  OBVIOUS
<1>1. TypeOK
  <2>1. frame \in [Tasks -> Frames]
    BY IdleIsFrame DEF Init
  <2>2. mode \in Modes /\ target \in Places \cup {NoPlace} /\ limit \in {"slow", "full"}
    BY ModesAre DEF Init
  <2>3. veh \in Vehicles
    BY Geography DEF Init, Vehicles
  <2>4. calls \in [made : 0..MaxCalls, by : SUBSET Callers, shut : BOOLEAN]
    BY Geography DEF Init
  <2> QED BY <2>1, <2>2, <2>3, <2>4 DEF Init, TypeOK
<1>2. TasksOK
  BY IdleIsFrame, Geography DEF Init, TasksOK, MonitorAwaits
<1>3. GroundedOK
  BY IdleIsFrame DEF Init, GroundedOK, Grounded, MayFly
<1> QED BY <1>1, <1>2, <1>3 DEF IInv

-----------------------------------------------------------------------------
(* What a step has to keep when it changes the frame of one task t to f.   *)

\* The history only grows, and a caller that does something is in it.
HistoryGrows(t) ==
  /\ calls' \in [made : 0..MaxCalls, by : SUBSET Callers, shut : BOOLEAN]
  /\ calls.by \subseteq calls'.by /\ (t \in Callers => t \in calls'.by)
  /\ calls.shut => calls'.shut

\* The variables but frame and calls keep their types.
Typed ==
  /\ mode \in Modes
  /\ target \in Places \cup {NoPlace} /\ limit \in {"slow", "full"}
  /\ running \in BOOLEAN /\ connected \in BOOLEAN /\ offboard \in BOOLEAN
  /\ veh \in Vehicles /\ battery \in {"ok", "critical"}

\* With one caller, a caller's own frame decides, and the monitor makes no
\* mode of Low and no take-off.
StaysGrounded(t, f) ==
  /\ OneCaller => (mode' \in Low => Grounded') /\ MayFly(f)'
  /\ t = Monitor => /\ mode \notin Low => mode' \notin Low
                    /\ Grounded => Grounded'
                    /\ veh.flies # "takeoff" => veh'.flies # "takeoff"

\* Who gives up a goto_position leaves NAVIGATING, and who navigates starts one.
StaysWatched(t, f) ==
  running' /\ connected' /\ mode' = "NAVIGATING"
    => \/ f.at \in {"offboard", "goto"} \/ mode = "MANUAL"
       \/ mode = "NAVIGATING" /\ frame[t].at \notin {"offboard", "goto"}

\* A caller that awaits something, or shuts down, has issued a command.
LEMMA BusyHasIssued ==
  ASSUME IInv, NEW t \in Callers, frame[t].at # "done" \/ frame[t].then = "shutdown"
  PROVE  t \in calls.by
BY IdleIsFrame DEF IInv, TasksOK

LEMMA FrameStep ==
  ASSUME IInv, NEW t \in Tasks, NEW f \in Frames, Continue(t, f), HistoryGrows(t),
         t = Monitor => f.at \in MonitorAwaits,
         f.then = "shutdown" => t # Monitor /\ calls'.shut
  PROVE  /\ frame' \in [Tasks -> Frames] /\ TasksOK'
         /\ frame'[t] = f /\ \A u \in Tasks \ {t} : frame'[u] = frame[u]
<1>1. frame \in [Tasks -> Frames] /\ frame' = [frame EXCEPT ![t] = f]
  BY DEF IInv, TypeOK, Continue
<1>2. frame' \in [Tasks -> Frames] /\ frame'[t] = f /\ \A u \in Tasks \ {t} : frame'[u] = frame[u]
  BY <1>1
<1>3. TasksOK'
  BY <1>2, Geography DEF IInv, TasksOK, HistoryGrows
<1> QED BY <1>2, <1>3

LEMMA GroundedStep ==
  ASSUME IInv, NEW t \in Tasks, NEW f \in Frames, Continue(t, f), HistoryGrows(t),
         t = Monitor => f.at \in MonitorAwaits, StaysGrounded(t, f)
  PROVE  GroundedOK'
<1>1. frame'[t] = f /\ \A u \in Tasks \ {t} : frame'[u] = frame[u]
  BY DEF IInv, TypeOK, Continue
<1>2. OneCaller' => OneCaller
  BY DEF OneCaller, HistoryGrows
<1> SUFFICES ASSUME OneCaller'
             PROVE  /\ mode' \in Low => Grounded'
                    /\ \A u \in Tasks : MayFly(frame[u])'
  BY DEF GroundedOK
<1>3. ASSUME NEW u \in Tasks
      PROVE  MayFly(frame[u])'
  <2>1. CASE u = t
    BY <2>1, <1>1, <1>2 DEF StaysGrounded, MayFly
  <2>2. CASE u = Monitor /\ u # t
    <3>1. frame'[u].at \in MonitorAwaits
      BY <2>2, <1>1 DEF IInv, TasksOK
    <3> QED BY <3>1 DEF MayFly, MonitorAwaits
  <2>3. CASE u \in Callers /\ u # t /\ t \in Callers
    <3>1. u \notin calls'.by
      BY <2>3 DEF OneCaller, HistoryGrows
    <3>2. frame'[u] = Idle
      BY <3>1, <2>3, <1>1 DEF IInv, TasksOK, HistoryGrows
    <3> QED BY <3>2, IdleIsFrame DEF MayFly
  <2>4. CASE u \in Callers /\ u # t /\ t = Monitor
    <3>1. MayFly(frame[u]) /\ frame'[u] = frame[u]
      BY <2>4, <1>1, <1>2 DEF IInv, GroundedOK
    <3> QED BY <3>1, <2>4 DEF MayFly, StaysGrounded
  <2> QED BY <2>1, <2>2, <2>3, <2>4
<1> QED BY <1>2, <1>3 DEF StaysGrounded

LEMMA WatchedStep ==
  ASSUME IInv, NEW t \in Tasks, NEW f \in Frames, Continue(t, f), StaysWatched(t, f)
  PROVE  KeepsWatch
<1>1. frame'[t] = f /\ \A u \in Tasks \ {t} : frame'[u] = frame[u]
  BY DEF IInv, TypeOK, Continue
<1> SUFFICES ASSUME Adrift', running', connected', mode # "MANUAL"
             PROVE  Adrift
  BY DEF KeepsWatch
<1>2. mode' = "NAVIGATING" /\ \A u \in Tasks : frame'[u].at \notin {"offboard", "goto"}
  BY DEF Adrift, Watched
<1>3. mode = "NAVIGATING" /\ frame[t].at \notin {"offboard", "goto"}
  BY <1>1, <1>2 DEF StaysWatched
<1>4. \A u \in Tasks \ {t} : frame[u].at \notin {"offboard", "goto"}
  BY <1>1, <1>2
<1> QED BY <1>3, <1>4 DEF Adrift, Watched

\* The three together.
LEMMA TaskStep ==
  ASSUME IInv, NEW t \in Tasks, NEW f \in Frames, Continue(t, f), HistoryGrows(t), Typed',
         t = Monitor => f.at \in MonitorAwaits,
         f.then = "shutdown" => t # Monitor /\ calls'.shut,
         StaysGrounded(t, f), StaysWatched(t, f)
  PROVE  IInv' /\ KeepsWatch
BY FrameStep, GroundedStep, WatchedStep DEF IInv, TypeOK, Typed, HistoryGrows

LEMMA IssueGrows ==
  ASSUME IInv, NEW t, NEW b \in BOOLEAN, Issue(t, b)
  PROVE  /\ t \in Callers /\ t \in Tasks /\ t # Monitor /\ HistoryGrows(t)
         /\ UNCHANGED <<veh, battery>>
         /\ frame[t].at = "done" /\ (b => calls'.shut)
<1>1. calls \in [made : 0..MaxCalls, by : SUBSET Callers, shut : BOOLEAN]
  BY DEF IInv, TypeOK
<1>2. t \in Callers /\ calls.made + 1 \in 0..MaxCalls
  BY <1>1, Geography DEF Issue
<1> QED BY <1>1, <1>2, Geography DEF Issue, HistoryGrows, Free, At

LEMMA ResumeGrows ==
  ASSUME IInv, NEW t \in Tasks, NEW l, Resume(t, l), l # "done" \/ frame[t].then = "shutdown"
  PROVE  HistoryGrows(t) /\ UNCHANGED <<battery, calls>> /\ frame[t].at = l /\ frame[t] \in Frames
BY BusyHasIssued DEF IInv, TypeOK, Resume, At, HistoryGrows

-----------------------------------------------------------------------------
(* The commands, as callers issue them.  Each lemma names the new frame f   *)
(* and checks what TaskStep asks of it.                                    *)

LEMMA IdleFrames ==
  ASSUME NEW n \in {"return", "takeoff", "shutdown"} \cup MonitorStages
  PROVE  /\ [Idle EXCEPT !.then = n] \in Frames
         /\ [Idle EXCEPT !.then = n].at = "done" /\ [Idle EXCEPT !.then = n].then = n
BY IdleIsFrame DEF Frames, Idle

LEMMA TurnFrames ==
  ASSUME NEW n \in MonitorStages, NEW p \in Places \cup {NoPlace}
  PROVE  Turn(n, p) \in Frames /\ Turn(n, p).at = "done" /\ Turn(n, p).then = n
BY IdleIsFrame DEF Frames, Idle, Turn

LEMMA BeginArmKeeps ==
  ASSUME IInv, NEW t, BeginArm(t)
  PROVE  IInv' /\ KeepsWatch
<1>1. t \in Tasks /\ t # Monitor /\ HistoryGrows(t) /\ UNCHANGED <<veh, battery>>
  BY IssueGrows DEF BeginArm, Call
<1>2. PICK f : f = Suspended([Idle EXCEPT !.then = "return"], "arm")
  OBVIOUS
<1>3. f \in Frames /\ f.at = "arm" /\ f.then # "shutdown" /\ Continue(t, f)
  <2>1. [Idle EXCEPT !.then = "return"] \in Frames /\ [Idle EXCEPT !.then = "return"].then = "return"
    BY IdleFrames
  <2> QED BY <1>2, <2>1, SuspendedKinds DEF BeginArm, Arm, Awaits
<1>4. mode = "IDLE" /\ mode' = "ARMING" /\ UNCHANGED <<target, limit, running, connected, offboard>>
  BY DEF BeginArm, Arm
<1>5. Typed'
  BY <1>1, <1>4, ModesAre DEF IInv, TypeOK, Typed
<1>6. StaysGrounded(t, f)
  BY <1>1, <1>3, <1>4 DEF IInv, GroundedOK, StaysGrounded, MayFly, Grounded, Low
<1>7. StaysWatched(t, f)
  BY <1>4 DEF StaysWatched
<1> QED BY <1>1, <1>3, <1>5, <1>6, <1>7, TaskStep

LEMMA EnterManualKeeps ==
  ASSUME IInv, NEW t, EnterManual(t) \/ ExitManual(t)
  PROVE  IInv' /\ KeepsWatch
<1>1. t \in Tasks /\ t # Monitor /\ HistoryGrows(t) /\ UNCHANGED <<veh, battery>>
  BY IssueGrows DEF EnterManual, ExitManual, Call
<1>2. PICK f : f = Idle
  OBVIOUS
<1>3. f \in Frames /\ f.at = "done" /\ f.then # "shutdown" /\ Continue(t, f)
  BY <1>2, IdleIsFrame DEF EnterManual, ExitManual
<1>4. /\ \/ mode \in {"HOVERING", "NAVIGATING"} /\ mode' = "MANUAL"
         \/ mode = "MANUAL" /\ mode' \in {"HOVERING", "NAVIGATING"}
      /\ UNCHANGED <<target, limit, running, connected, offboard>>
  BY DEF EnterManual, ExitManual
<1>5. Typed'
  BY <1>1, <1>4, ModesAre DEF IInv, TypeOK, Typed
<1>6. StaysGrounded(t, f)
  BY <1>1, <1>3, <1>4 DEF StaysGrounded, MayFly, Low
<1>7. StaysWatched(t, f)
  BY <1>4 DEF StaysWatched
<1> QED BY <1>1, <1>3, <1>5, <1>6, <1>7, TaskStep

LEMMA BeginDisarmKeeps ==
  ASSUME IInv, NEW t, BeginDisarm(t)
  PROVE  IInv' /\ KeepsWatch
<1>1. /\ t \in Tasks /\ t # Monitor /\ HistoryGrows(t) /\ UNCHANGED <<veh, battery>>
      /\ frame[t].at = "done"
  BY IssueGrows DEF BeginDisarm, Call
<1>2. PICK f : f = Suspended(Idle, "disarm")
  OBVIOUS
<1>3. f \in Frames /\ f.at = "disarm" /\ f.then # "shutdown" /\ Continue(t, f)
  BY <1>2, IdleIsFrame, SuspendedKinds DEF BeginDisarm, Awaits
<1>4. UNCHANGED <<mode, target, limit, running, connected, offboard>>
  BY DEF BeginDisarm
<1>5. Typed'
  BY <1>1, <1>4 DEF IInv, TypeOK, Typed
<1>6. StaysGrounded(t, f)
  BY <1>1, <1>3, <1>4 DEF IInv, GroundedOK, StaysGrounded, MayFly, Grounded
<1>7. StaysWatched(t, f)
  BY <1>1, <1>4 DEF StaysWatched
<1> QED BY <1>1, <1>3, <1>5, <1>6, <1>7, TaskStep

\* takeoff past the arming, from ARMED on the ground.
LEMMA TakeOffKeeps ==
  ASSUME IInv, NEW t \in Callers, NEW f \in Frames, f.then # "shutdown", NEW m \in Modes,
         TakeOff(t, f, m), HistoryGrows(t), battery' = battery,
         veh' \in Vehicles, UNCHANGED <<limit, running, connected, offboard>>,
         OneCaller /\ m \in Low => Grounded',
         m = "NAVIGATING" => mode = "NAVIGATING" /\ frame[t].at \notin {"offboard", "goto"}
  PROVE  IInv' /\ KeepsWatch
<1>1. t \in Tasks /\ t # Monitor
  BY Geography
<1>2. CASE m = "ARMED"
  <2>1. PICK g : g = Suspended(f, "takeoff")
    OBVIOUS
  <2>2. /\ g \in Frames /\ g.at = "takeoff" /\ g.then # "shutdown" /\ Continue(t, g)
        /\ mode' = "TAKING_OFF" /\ target' = veh.pos
    BY <1>2, <2>1, SuspendedKinds DEF TakeOff, Awaits
  <2>3. Typed'
    BY <2>2, ModesAre DEF IInv, TypeOK, Typed, Vehicles
  <2>4. StaysGrounded(t, g)
    BY <1>1, <1>2, <2>2 DEF StaysGrounded, MayFly, Low
  <2>5. StaysWatched(t, g)
    BY <1>2, <2>2 DEF StaysWatched
  <2> QED BY <1>1, <2>2, <2>3, <2>4, <2>5, TaskStep
<1>3. CASE m # "ARMED"
  <2>1. PICK g : g = Returned(f, FALSE)
    OBVIOUS
  <2>2. g \in Frames /\ g.at = "done" /\ g.then # "shutdown" /\ Continue(t, g) /\ mode' = m /\ target' = target
    BY <1>3, <2>1, ReturnedKinds DEF TakeOff
  <2>3. Typed'
    BY <2>2 DEF IInv, TypeOK, Typed
  <2>4. StaysGrounded(t, g)
    BY <1>1, <2>2 DEF StaysGrounded, MayFly
  <2>5. StaysWatched(t, g)
    BY <2>2 DEF StaysWatched
  <2> QED BY <1>1, <2>2, <2>3, <2>4, <2>5, TaskStep
<1> QED BY <1>2, <1>3

LEMMA BeginTakeoffKeeps ==
  ASSUME IInv, NEW t, BeginTakeoff(t)
  PROVE  IInv' /\ KeepsWatch
<1>1. /\ t \in Callers /\ t \in Tasks /\ t # Monitor /\ HistoryGrows(t)
      /\ UNCHANGED <<veh, battery>> /\ frame[t].at = "done"
  BY IssueGrows DEF BeginTakeoff, Call
<1>2. CASE mode = "IDLE"
  <2>1. PICK f : f = Suspended([Idle EXCEPT !.then = "takeoff"], "arm")
    OBVIOUS
  <2>2. /\ f \in Frames /\ f.at = "arm" /\ f.then # "shutdown" /\ Continue(t, f)
        /\ mode' = "ARMING"
        /\ UNCHANGED <<target, limit, running, connected, offboard>>
    <3>1. [Idle EXCEPT !.then = "takeoff"] \in Frames /\ [Idle EXCEPT !.then = "takeoff"].then = "takeoff"
      BY IdleFrames
    <3> QED BY <1>2, <2>1, <3>1, SuspendedKinds DEF BeginTakeoff, Arm, Awaits
  <2>3. Typed'
    BY <1>1, <2>2, ModesAre DEF IInv, TypeOK, Typed
  <2>4. StaysGrounded(t, f)
    BY <1>1, <1>2, <2>2 DEF IInv, GroundedOK, StaysGrounded, MayFly, Grounded, Low
  <2>5. StaysWatched(t, f)
    BY <2>2 DEF StaysWatched
  <2> QED BY <1>1, <2>2, <2>3, <2>4, <2>5, TaskStep
<1>3. CASE mode # "IDLE"
  <2>1. TakeOff(t, Idle, mode) /\ UNCHANGED <<limit, running, connected, offboard>>
    BY <1>3 DEF BeginTakeoff
  <2>2. mode \in Modes /\ veh' \in Vehicles
    BY <1>1 DEF IInv, TypeOK
  <2>3. OneCaller /\ mode \in Low => Grounded'
    BY <1>1 DEF IInv, GroundedOK, Grounded
  <2> QED BY <1>1, <2>1, <2>2, <2>3, IdleIsFrame, TakeOffKeeps DEF Awaits
<1> QED BY <1>2, <1>3

-----------------------------------------------------------------------------
(* The commands that the monitor issues too: t starts one as f.            *)

LEMMA NavigatingKinds ==
  ASSUME IInv, NEW f \in Frames, NEW p \in Places, NEW s \in {"slow", "full"}
  PROVE  Navigating(f, p, s) \in Frames /\ Navigating(f, p, s).then = f.then
<1>1. limit \in {"slow", "full"}
  BY DEF IInv, TypeOK
<1> QED BY <1>1 DEF Navigating, Frames

LEMMA GotoPositionKeeps ==
  ASSUME IInv, NEW t \in Tasks, NEW f \in Frames, NEW p \in Places, NEW s \in {"slow", "full"},
         GotoPosition(t, f, p, s), HistoryGrows(t), frame[t].at = "done",
         f.then # "shutdown",
         UNCHANGED <<running, connected, offboard, veh, battery>>
  PROVE  IInv' /\ KeepsWatch
<1>1. CASE mode \in {"HOVERING", "NAVIGATING"}
  <2>1. PICK g : g = Suspended(Navigating(f, p, s), IF offboard THEN "goto" ELSE "offboard")
    OBVIOUS
  <2>2. /\ Continue(t, g) /\ mode' = "NAVIGATING" /\ target' = p
        /\ limit' = IF offboard THEN s ELSE limit
    BY <1>1, <2>1 DEF GotoPosition
  <2>3. (IF offboard THEN "goto" ELSE "offboard") \in Awaits
    BY DEF Awaits
  <2>4. g \in Frames /\ g.at \in {"goto", "offboard"} /\ g.then = f.then
    BY <2>1, <2>3, NavigatingKinds, SuspendedKinds
  <2>5. Typed'
    BY <2>2, ModesAre DEF IInv, TypeOK, Typed
  <2>6. StaysGrounded(t, g)
    BY <2>2, <2>4 DEF StaysGrounded, MayFly, Low, Grounded
  <2>7. StaysWatched(t, g)
    BY <1>1, <2>2, <2>4 DEF StaysWatched
  <2> QED BY <2>2, <2>4, <2>5, <2>6, <2>7, TaskStep DEF MonitorAwaits
<1>2. CASE mode \notin {"HOVERING", "NAVIGATING"}
  <2>1. PICK g : g = Returned(f, FALSE)
    OBVIOUS
  <2>2. Continue(t, g) /\ UNCHANGED <<mode, target, limit>>
    BY <1>2, <2>1 DEF GotoPosition
  <2>3. g \in Frames /\ g.at = "done" /\ g.then = f.then
    BY <2>1, ReturnedKinds
  <2>4. Typed'
    BY <2>2 DEF IInv, TypeOK, Typed
  <2>5. StaysGrounded(t, g)
    BY <2>2, <2>3 DEF IInv, GroundedOK, StaysGrounded, MayFly, Grounded
  <2>6. StaysWatched(t, g)
    BY <1>2, <2>2 DEF StaysWatched
  <2> QED BY <2>2, <2>3, <2>4, <2>5, <2>6, TaskStep DEF MonitorAwaits
<1> QED BY <1>1, <1>2

\* A command that moves the mode to n at most, and suspends or returns as g.
LEMMA CommandKeeps ==
  ASSUME IInv, NEW t \in Tasks, NEW g \in Frames, Continue(t, g), HistoryGrows(t),
         frame[t].at = "done", NEW n \in {"LANDING", "EMERGENCY", "RETURN_TO_LAUNCH"},
         mode' = mode \/ mode' = After(mode, n),
         t = Monitor => g.at \in MonitorAwaits, g.then # "shutdown",
         g.at \notin {"arm", "takeoff", "land_wait"},
         UNCHANGED <<target, limit, running, connected, offboard, veh, battery>>
  PROVE  IInv' /\ KeepsWatch
<1>1. mode \in Modes
  BY DEF IInv, TypeOK
<1>2. mode' \in {mode, n} /\ mode' \in Modes
  BY <1>1, ModesAre DEF After, ValidTransitions
<1>3. Typed'
  BY <1>1, <1>2 DEF IInv, TypeOK, Typed
<1>4. StaysGrounded(t, g)
  BY <1>2 DEF IInv, GroundedOK, StaysGrounded, MayFly, Grounded, Low
<1>5. StaysWatched(t, g)
  BY <1>2 DEF StaysWatched
<1> QED BY <1>3, <1>4, <1>5, TaskStep

LEMMA ReturnToLaunchKeeps ==
  ASSUME IInv, NEW t \in Tasks, NEW f \in Frames, ReturnToLaunch(t, f), HistoryGrows(t),
         frame[t].at = "done", f.then # "shutdown",
         UNCHANGED <<target, limit, running, connected, offboard, veh, battery>>
  PROVE  IInv' /\ KeepsWatch
<1>1. CASE mode \in GroundModes
  <2>1. PICK g : g = Returned(f, FALSE)
    OBVIOUS
  <2>2. g \in Frames /\ g.at = "done" /\ g.then = f.then /\ Continue(t, g) /\ mode' = mode
    BY <1>1, <2>1, ReturnedKinds DEF ReturnToLaunch
  <2> QED BY <2>2, CommandKeeps DEF MonitorAwaits
<1>2. CASE mode \notin GroundModes
  <2>1. PICK g : g = Suspended(f, IF offboard THEN "rtl_stop" ELSE "rtl")
    OBVIOUS
  <2>2. (IF offboard THEN "rtl_stop" ELSE "rtl") \in Awaits
    BY DEF Awaits
  <2>3. g \in Frames /\ g.at \in {"rtl_stop", "rtl"} /\ g.then = f.then
    BY <2>1, <2>2, SuspendedKinds
  <2>4. Continue(t, g) /\ mode' = After(mode, "RETURN_TO_LAUNCH")
    BY <1>2, <2>1 DEF ReturnToLaunch
  <2> QED BY <2>3, <2>4, CommandKeeps DEF MonitorAwaits
<1> QED BY <1>1, <1>2

LEMMA EmergencyStopKeeps ==
  ASSUME IInv, NEW t \in Tasks, NEW f \in Frames, EmergencyStop(t, f), HistoryGrows(t),
         frame[t].at = "done", f.then # "shutdown",
         UNCHANGED <<target, limit, running, connected, offboard, veh, battery>>
  PROVE  IInv' /\ KeepsWatch
<1>1. PICK g : g = Suspended(f, "em_stop")
  OBVIOUS
<1>2. g \in Frames /\ g.at = "em_stop" /\ g.then = f.then
  BY <1>1, SuspendedKinds DEF Awaits
<1>3. Continue(t, g) /\ mode' = After(mode, "EMERGENCY")
  BY <1>1 DEF EmergencyStop
<1> QED BY <1>2, <1>3, CommandKeeps DEF MonitorAwaits

\* What land does to the frame and the mode.
LEMMA LandKinds ==
  ASSUME NEW f \in Frames, NEW t, Land(t, f)
  PROVE  /\ mode' = mode \/ mode' = After(mode, "LANDING")
         /\ \E g \in Frames : /\ Continue(t, g) /\ g.then = f.then
                              /\ g.at \in {"done", "land_stop", "land"}
<1>1. CASE ~veh.inAir /\ mode = "IDLE"
  <2>1. Returned(f, TRUE) \in Frames /\ Returned(f, TRUE).at = "done"
        /\ Returned(f, TRUE).then = f.then
    BY ReturnedKinds
  <2>2. Continue(t, Returned(f, TRUE)) /\ mode' = mode
    BY <1>1 DEF Land
  <2> QED BY <2>1, <2>2
<1>2. CASE ~(~veh.inAir /\ mode = "IDLE")
  <2>1. PICK l : l = IF offboard THEN "land_stop" ELSE "land"
    OBVIOUS
  <2>2. l \in Awaits /\ l \in {"land_stop", "land"}
    BY <2>1 DEF Awaits
  <2>3. Suspended(f, l) \in Frames /\ Suspended(f, l).at = l /\ Suspended(f, l).then = f.then
    BY <2>2, SuspendedKinds
  <2>4. Continue(t, Suspended(f, l)) /\ mode' = After(mode, "LANDING")
    BY <1>2, <2>1 DEF Land
  <2> QED BY <2>2, <2>3, <2>4
<1> QED BY <1>1, <1>2

LEMMA CommandsKeep ==
  ASSUME IInv, NEW t,
         BeginGoto(t) \/ BeginLand(t) \/ BeginEmergencyStop(t) \/ BeginReturnToLaunch(t)
  PROVE  IInv' /\ KeepsWatch
<1>1. /\ t \in Tasks /\ t # Monitor /\ HistoryGrows(t) /\ UNCHANGED <<veh, battery>>
      /\ frame[t].at = "done"
  BY IssueGrows DEF BeginGoto, CallGoto, BeginLand, BeginEmergencyStop, BeginReturnToLaunch, Call
<1>2. CASE BeginGoto(t)
  <2>1. PICK p \in Waypoints, s \in {"slow", "full"} : CallGoto(t, p, s)
    BY <1>2 DEF BeginGoto
  <2>2. p \in Places /\ GotoPosition(t, Idle, p, s) /\ UNCHANGED <<running, connected, offboard>>
    BY <2>1, Geography DEF CallGoto
  <2> QED BY <1>1, <2>2, IdleIsFrame, GotoPositionKeeps
<1>3. CASE BeginLand(t)
  <2>1. Land(t, Idle) /\ UNCHANGED <<target, limit, running, connected, offboard>>
    BY <1>3 DEF BeginLand
  <2>2. /\ mode' = mode \/ mode' = After(mode, "LANDING")
        /\ \E g \in Frames : /\ Continue(t, g) /\ g.then # "shutdown"
                             /\ g.at \in {"done", "land_stop", "land"}
    BY <2>1, IdleIsFrame, LandKinds
  <2> QED BY <1>1, <2>1, <2>2, CommandKeeps
<1>4. CASE BeginEmergencyStop(t)
  BY <1>1, <1>4, IdleIsFrame, EmergencyStopKeeps DEF BeginEmergencyStop
<1>5. CASE BeginReturnToLaunch(t)
  BY <1>1, <1>5, IdleIsFrame, ReturnToLaunchKeeps DEF BeginReturnToLaunch
<1> QED BY <1>2, <1>3, <1>4, <1>5

-----------------------------------------------------------------------------
(* The beginning and the end.                                              *)

LEMMA InitializeKeeps ==
  ASSUME IInv, NEW t, Initialize(t)
  PROVE  IInv' /\ KeepsWatch
<1>1. /\ t \in Tasks /\ t # Monitor /\ HistoryGrows(t) /\ UNCHANGED <<veh, battery>>
      /\ frame[t].at = "done"
  BY IssueGrows DEF Initialize, Call
<1>2. PICK ok \in BOOLEAN : Connect(ok) /\ Return(t, ok)
  BY DEF Initialize, Accepts
<1>3. UNCHANGED <<mode, target, limit, offboard>>
  BY DEF Initialize
<1>4. PICK f : f = Returned(frame[t], ok)
  OBVIOUS
<1>5. /\ f \in Frames /\ f.at = "done" /\ Continue(t, f)
      /\ f.then = "shutdown" => calls'.shut
  <2>1. frame[t] \in Frames /\ frame[t].then # "shutdown"
    BY <1>1 DEF IInv, TypeOK, Initialize, Call, Issue, Free
  <2> QED BY <1>2, <1>4, <2>1, ReturnedKinds DEF Return
<1>6. Typed'
  BY <1>1, <1>2, <1>3 DEF IInv, TypeOK, Typed, Connect
<1>7. StaysGrounded(t, f)
  BY <1>1, <1>3, <1>5 DEF IInv, GroundedOK, StaysGrounded, MayFly, Grounded
<1>8. StaysWatched(t, f)
  BY <1>1, <1>3 DEF StaysWatched
<1> QED BY <1>1, <1>5, <1>6, <1>7, <1>8, TaskStep

LEMMA BeginShutdownKeeps ==
  ASSUME IInv, NEW t, BeginShutdown(t)
  PROVE  IInv' /\ KeepsWatch
<1>1. /\ t \in Tasks /\ t # Monitor /\ HistoryGrows(t) /\ UNCHANGED <<veh, battery>>
      /\ calls'.shut
  BY IssueGrows DEF BeginShutdown
<1>2. running' = FALSE /\ UNCHANGED <<target, limit, connected, offboard>>
  BY DEF BeginShutdown
<1>3. PICK f : f = [Idle EXCEPT !.then = "shutdown"]
  OBVIOUS
<1>4. f \in Frames /\ f.at = "done"
  BY <1>3, IdleFrames
<1>5. /\ mode' = mode \/ mode' = After(mode, "LANDING")
      /\ \E g \in Frames : Continue(t, g) /\ g.at \in {"done", "land_stop", "land"}
  BY <1>3, <1>4, LandKinds DEF BeginShutdown
<1>6. PICK g \in Frames : Continue(t, g) /\ g.at \in {"done", "land_stop", "land"}
  BY <1>5
<1>7. mode' \in {mode, "LANDING"} /\ mode' \in Modes
  BY <1>5, AfterKinds, ModesAre DEF IInv, TypeOK
<1>8. Typed'
  BY <1>1, <1>2, <1>7 DEF IInv, TypeOK, Typed
<1>9. StaysGrounded(t, g)
  BY <1>1, <1>6, <1>7 DEF IInv, GroundedOK, StaysGrounded, MayFly, Grounded, Low
<1>10. StaysWatched(t, g)
  BY <1>2 DEF StaysWatched
<1> QED BY <1>1, <1>6, <1>8, <1>9, <1>10, TaskStep

LEMMA ShutdownEndsKeeps ==
  ASSUME IInv, NEW t \in Tasks, ShutdownEnds(t)
  PROVE  IInv' /\ KeepsWatch
<1>1. /\ frame' = [frame EXCEPT ![t] = Idle, ![Monitor] = StartOfMonitor]
      /\ connected' = FALSE /\ frame[t].then = "shutdown"
      /\ UNCHANGED <<mode, target, limit, running, offboard, veh, battery, calls>>
  BY DEF ShutdownEnds, Resume
<1>2. frame \in [Tasks -> Frames] /\ t # Monitor /\ calls.shut
  BY <1>1 DEF IInv, TypeOK, TasksOK
<1>3. /\ frame' \in [Tasks -> Frames] /\ frame'[t] = Idle /\ frame'[Monitor] = StartOfMonitor
      /\ \A u \in Tasks \ {t, Monitor} : frame'[u] = frame[u]
  BY <1>1, <1>2, IdleIsFrame
<1>4. TypeOK'
  BY <1>1, <1>3 DEF IInv, TypeOK
<1>5. TasksOK'
  BY <1>1, <1>2, <1>3, IdleIsFrame, Geography DEF IInv, TasksOK, MonitorAwaits
<1>6. GroundedOK'
  <2>1. OneCaller' = OneCaller /\ Grounded' = Grounded
    BY <1>1 DEF OneCaller, Grounded
  <2>2. ASSUME OneCaller, NEW u \in Tasks
        PROVE  MayFly(frame[u])'
    BY <1>1, <1>3, <2>1, <2>2, IdleIsFrame DEF IInv, GroundedOK, MayFly
  <2> QED BY <1>1, <2>1, <2>2 DEF IInv, GroundedOK
<1>7. KeepsWatch
  BY <1>1 DEF KeepsWatch
<1> QED BY <1>4, <1>5, <1>6, <1>7 DEF IInv

-----------------------------------------------------------------------------
(* The monitor's round and the vehicle.                                    *)

LEMMA MonitorKeeps ==
  ASSUME IInv, MonitorChecks
  PROVE  IInv' /\ KeepsWatch
<1>1. UNCHANGED <<running, connected, offboard, veh, battery, calls>>
  BY DEF MonitorChecks
<1>2. HistoryGrows(Monitor) /\ Monitor \in Tasks /\ frame[Monitor] \in Frames
  BY <1>1, Geography DEF IInv, TypeOK, HistoryGrows
<1>3. frame[Monitor].at = "done"
  BY DEF MonitorChecks, MonitorBattery, MonitorFence, MonitorRadius, MonitorAt, Free, At
<1>4. veh.pos \in Places /\ frame[Monitor].seen \in Places \cup {NoPlace}
  BY <1>2 DEF IInv, TypeOK, Vehicles, Frames
<1>5. ASSUME UNCHANGED <<mode, target, limit>>, Continue(Monitor, StartOfMonitor)
      PROVE  IInv' /\ KeepsWatch
  BY <1>1, <1>2, <1>3, <1>5, IdleIsFrame, CommandKeeps DEF MonitorAwaits
<1>6. ASSUME NEW p, CheckRadius(p), UNCHANGED <<target, limit>>
      PROVE  IInv' /\ KeepsWatch
  <2>1. CASE p \in Beyond
    BY <1>1, <1>2, <1>3, <1>6, <2>1, IdleIsFrame, ReturnToLaunchKeeps DEF CheckRadius
  <2>2. CASE p \notin Beyond
    BY <1>5, <1>6, <2>2 DEF CheckRadius
  <2> QED BY <2>1, <2>2
<1>7. ASSUME CheckGeofence
      PROVE  IInv' /\ KeepsWatch
  <2>1. CASE mode \in GroundModes
    BY <1>5, <1>7, <2>1 DEF CheckGeofence
  <2>2. CASE mode \notin GroundModes /\ veh.pos \in TooHigh
    <3>1. GotoPosition(Monitor, Turn("radius", veh.pos), Below[veh.pos], "full")
      BY <1>7, <2>2 DEF CheckGeofence
    <3>2. PICK f : f = Turn("radius", veh.pos)
      OBVIOUS
    <3>3. f \in Frames /\ f.then # "shutdown"
      BY <1>4, <3>2, TurnFrames DEF MonitorStages
    <3>4. Below[veh.pos] \in Places
      BY <1>4, Geography
    <3> QED BY <1>1, <1>2, <1>3, <3>1, <3>2, <3>3, <3>4, GotoPositionKeeps
  <2>3. CASE mode \notin GroundModes /\ veh.pos \notin TooHigh
    BY <1>6, <1>7, <2>3 DEF CheckGeofence
  <2> QED BY <2>1, <2>2, <2>3
<1>8. CASE MonitorBattery
  <2>1. CASE battery = "critical"
    <3>1. EmergencyStop(Monitor, Turn("fence", NoPlace)) /\ UNCHANGED <<target, limit>>
      BY <1>8, <2>1 DEF MonitorBattery
    <3>2. Turn("fence", NoPlace) \in Frames /\ Turn("fence", NoPlace).then # "shutdown"
      BY TurnFrames DEF MonitorStages
    <3> QED BY <1>1, <1>2, <1>3, <3>1, <3>2, EmergencyStopKeeps
  <2>2. CASE battery # "critical"
    BY <1>7, <1>8, <2>2 DEF MonitorBattery
  <2> QED BY <2>1, <2>2
<1>9. CASE MonitorFence
  BY <1>7, <1>9 DEF MonitorFence
<1>10. CASE MonitorRadius
  BY <1>6, <1>10 DEF MonitorRadius
<1> QED BY <1>8, <1>9, <1>10 DEF MonitorChecks

LEMMA FliesKeeps ==
  ASSUME IInv, Flies
  PROVE  IInv' /\ KeepsWatch
<1>1. UNCHANGED <<mode, target, limit, running, connected, offboard, frame, calls>>
  BY DEF Flies, Climbs, Moves, Returns, TouchesDown, DisarmsItself, BatteryDrains, Vehicle
<1>2. /\ veh \in Vehicles /\ target \in Places \cup {NoPlace} /\ Home \in Places
      /\ battery \in {"ok", "critical"}
  BY Geography DEF IInv, TypeOK
<1>3. veh' \in Vehicles
  BY <1>2 DEF Flies, Climbs, Moves, Returns, TouchesDown, DisarmsItself, BatteryDrains,
              Vehicle, Vehicles
<1>4. battery' \in {"ok", "critical"}
  BY <1>2 DEF Flies, Climbs, Moves, Returns, TouchesDown, DisarmsItself, BatteryDrains, Vehicle
<1>5. \/ (Grounded => Grounded') /\ (veh.flies # "takeoff" => veh'.flies # "takeoff")
      \/ veh.flies = "takeoff" /\ veh'.flies # "takeoff"
  BY <1>2 DEF Flies, Climbs, Moves, Returns, TouchesDown, DisarmsItself, BatteryDrains,
              Vehicle, Vehicles, Grounded
<1>6. TypeOK'
  BY <1>1, <1>3, <1>4 DEF IInv, TypeOK
<1>7. TasksOK' /\ KeepsWatch
  BY <1>1 DEF IInv, TasksOK, KeepsWatch, Adrift, Watched
<1>8. GroundedOK'
  BY <1>1, <1>5 DEF IInv, GroundedOK, MayFly, OneCaller, Grounded
<1> QED BY <1>6, <1>7, <1>8 DEF IInv

-----------------------------------------------------------------------------
(* The commands, as they go on after an await.                             *)

LEMMA AnswerKinds ==
  ASSUME NEW ok \in Answers
  PROVE  ok \in BOOLEAN /\ (ok => connected)
BY Geography DEF Answers, Accepts

\* What is known of a task t that goes on from the await l.
LEMMA TaskResumes ==
  ASSUME IInv, NEW t \in Tasks, NEW l, Resume(t, l), l # "done"
  PROVE  /\ HistoryGrows(t) /\ UNCHANGED <<battery, calls>>
         /\ frame[t] \in Frames /\ frame[t].at = l /\ (OneCaller => MayFly(frame[t]))
         /\ l \notin MonitorAwaits => t \in Callers /\ t # Monitor
         /\ frame[t].then = "shutdown" => t # Monitor /\ calls.shut
<1>1. HistoryGrows(t) /\ UNCHANGED <<battery, calls>> /\ frame[t].at = l /\ frame[t] \in Frames
  BY ResumeGrows
<1>2. OneCaller => MayFly(frame[t])
  BY DEF IInv, GroundedOK
<1> QED BY <1>1, <1>2, Geography DEF IInv, TasksOK

LEMMA ReturnFrame ==
  ASSUME NEW t \in Tasks, frame[t] \in Frames, NEW b \in BOOLEAN, Return(t, b)
  PROVE  \E f \in Frames : Continue(t, f) /\ f.at = "done" /\ f.then = frame[t].then
BY ReturnedKinds DEF Return

LEMMA SuspendFrame ==
  ASSUME NEW t \in Tasks, frame[t] \in Frames, NEW l \in Awaits, Suspend(t, l)
  PROVE  \E f \in Frames : Continue(t, f) /\ f.at = l /\ f.then = frame[t].then
BY SuspendedKinds DEF Suspend

LEMMA ArmedKeeps ==
  ASSUME IInv, NEW t \in Tasks, Armed(t)
  PROVE  IInv' /\ KeepsWatch
<1>1. /\ HistoryGrows(t) /\ UNCHANGED <<battery, calls>> /\ t \in Callers /\ t # Monitor
      /\ frame[t] \in Frames /\ frame[t].at = "arm" /\ (OneCaller => Grounded)
      /\ frame[t].then = "shutdown" => calls.shut
  BY TaskResumes DEF Armed, MonitorAwaits, MayFly
<1>2. UNCHANGED <<limit, running, connected, offboard>>
  BY DEF Armed
<1>3. PICK ok \in Answers :
        /\ veh' = [veh EXCEPT !.armed = @ \/ ok]
        /\ LET m == After(mode, IF ok THEN "ARMED" ELSE "IDLE")
           IN  IF ok /\ frame[t].then = "takeoff"
               THEN TakeOff(t, [frame[t] EXCEPT !.then = "return"], m)
               ELSE mode' = m /\ Return(t, ok) /\ UNCHANGED target
  BY DEF Armed
<1>4. PICK m : m = After(mode, IF ok THEN "ARMED" ELSE "IDLE")
  OBVIOUS
<1>5. ok \in BOOLEAN /\ (ok => connected) /\ veh \in Vehicles /\ mode \in Modes
  BY AnswerKinds DEF IInv, TypeOK
<1>6. veh' \in Vehicles /\ Grounded' = Grounded
  BY <1>3, <1>5 DEF Vehicles, Grounded
<1>7. m \in Modes /\ m \in {mode, IF ok THEN "ARMED" ELSE "IDLE"}
  BY <1>4, <1>5, AfterKinds, ModesAre
<1>8. CASE ok /\ frame[t].then = "takeoff"
  <2>1. PICK f : f = [frame[t] EXCEPT !.then = "return"]
    OBVIOUS
  <2>2. f \in Frames /\ f.then # "shutdown"
    BY <1>1, <2>1 DEF Frames
  <2>3. TakeOff(t, f, m)
    BY <1>3, <1>4, <1>8, <2>1
  <2> QED BY <1>1, <1>2, <1>6, <1>7, <2>2, <2>3, TakeOffKeeps
<1>9. CASE ~(ok /\ frame[t].then = "takeoff")
  <2>1. mode' = m /\ Return(t, ok) /\ target' = target
    BY <1>3, <1>4, <1>9
  <2>2. PICK f \in Frames : Continue(t, f) /\ f.at = "done" /\ f.then = frame[t].then
    BY <1>1, <1>5, <2>1, ReturnFrame
  <2>3. Typed'
    BY <1>1, <1>2, <1>6, <1>7, <2>1 DEF IInv, TypeOK, Typed
  <2>4. StaysGrounded(t, f)
    BY <1>1, <1>6, <2>2 DEF StaysGrounded, MayFly
  <2>5. StaysWatched(t, f)
    BY <1>1, <1>2, <1>7, <2>1 DEF StaysWatched
  <2> QED BY <1>1, <2>2, <2>3, <2>4, <2>5, TaskStep
<1> QED BY <1>8, <1>9

LEMMA TookOffKeeps ==
  ASSUME IInv, NEW t \in Tasks, TookOff(t)
  PROVE  IInv' /\ KeepsWatch
<1>1. /\ HistoryGrows(t) /\ UNCHANGED <<battery, calls>> /\ t # Monitor
      /\ frame[t] \in Frames /\ frame[t].at = "takeoff"
      /\ OneCaller => Grounded /\ mode \notin Low
      /\ frame[t].then = "shutdown" => calls.shut
  BY TaskResumes DEF TookOff, MonitorAwaits, MayFly
<1>2. UNCHANGED <<target, limit, running, connected, offboard>>
  BY DEF TookOff
<1>3. PICK up \in BOOLEAN :
        /\ veh' = IF up THEN [veh EXCEPT !.flies = "takeoff"] ELSE veh
        /\ mode' = IF up THEN mode ELSE After(mode, "IDLE")
        /\ IF up THEN Suspend(t, "climb") ELSE Return(t, FALSE)
  <2>1. \A ok \in Answers : (ok /\ veh.armed /\ ~veh.inAir) \in BOOLEAN
    OBVIOUS
  <2> QED BY <2>1 DEF TookOff
<1>4. PICK f \in Frames : /\ Continue(t, f) /\ f.at = (IF up THEN "climb" ELSE "done")
                          /\ f.then = frame[t].then
  <2>1. CASE up
    BY <1>1, <1>3, <2>1, SuspendFrame DEF Awaits
  <2>2. CASE ~up
    BY <1>1, <1>3, <2>2, ReturnFrame
  <2> QED BY <2>1, <2>2
<1>5. mode \in Modes /\ veh \in Vehicles
  BY DEF IInv, TypeOK
<1>6. mode' \in Modes /\ mode' \in {mode, "IDLE"} /\ veh' \in Vehicles
  BY <1>3, <1>5, AfterKinds, ModesAre DEF Vehicles
<1>7. Typed'
  BY <1>1, <1>2, <1>6 DEF IInv, TypeOK, Typed
<1>8. StaysGrounded(t, f)
  BY <1>1, <1>3, <1>4 DEF StaysGrounded, MayFly, Grounded
<1>9. StaysWatched(t, f)
  BY <1>1, <1>2, <1>6 DEF StaysWatched
<1> QED BY <1>1, <1>4, <1>7, <1>8, <1>9, TaskStep

\* A command that only moves its own frame and, from m, the mode to n; what
\* the vehicle does is no take-off.
LEMMA ContinueKeeps ==
  ASSUME IInv, NEW t \in Tasks, HistoryGrows(t), UNCHANGED <<battery, calls>>,
         NEW f \in Frames, Continue(t, f), f.then = frame[t].then,
         frame[t].then = "shutdown" => t # Monitor /\ calls.shut,
         t = Monitor => f.at \in MonitorAwaits,
         f.at \notin {"arm", "takeoff"}, f.at = "land_wait" => veh'.flies # "takeoff",
         frame[t].at \notin {"offboard", "goto"},
         NEW n \in {"HOVERING", "LANDED"}, mode' = mode \/ mode' = After(mode, n),
         veh' \in Vehicles, offboard' \in BOOLEAN,
         Grounded => Grounded', veh.flies # "takeoff" => veh'.flies # "takeoff",
         UNCHANGED <<target, limit, running, connected>>
  PROVE  IInv' /\ KeepsWatch
<1>1. mode \in Modes
  BY DEF IInv, TypeOK
<1>2. mode' \in {mode, n} /\ mode' \in Modes
  BY <1>1, ModesAre DEF After, ValidTransitions
<1>3. Typed'
  BY <1>2 DEF IInv, TypeOK, Typed
<1>4. StaysGrounded(t, f)
  BY <1>2 DEF IInv, GroundedOK, StaysGrounded, MayFly, Low
<1>5. StaysWatched(t, f)
  BY <1>2 DEF StaysWatched
<1> QED BY <1>3, <1>4, <1>5, TaskStep

\* take-off's wait and return_to_launch's.
LEMMA ClimbedKeeps ==
  ASSUME IInv, NEW t \in Tasks, Climbed(t) \/ RtlWaited(t)
  PROVE  IInv' /\ KeepsWatch
<1>1. PICK l \in {"climb", "rtl_wait"}, n \in {"HOVERING", "LANDED"} :
        /\ Resume(t, l) /\ mode' = After(mode, n) /\ Return(t, TRUE)
        /\ UNCHANGED <<target, limit, running, connected, offboard, veh>>
  BY DEF Climbed, RtlWaited
<1>2. /\ HistoryGrows(t) /\ UNCHANGED <<battery, calls>>
      /\ frame[t] \in Frames /\ frame[t].at = l
      /\ frame[t].then = "shutdown" => t # Monitor /\ calls.shut
  BY <1>1, TaskResumes
<1>3. PICK f \in Frames : Continue(t, f) /\ f.at = "done" /\ f.then = frame[t].then
  BY <1>1, <1>2, ReturnFrame
<1>4. veh' \in Vehicles /\ offboard' \in BOOLEAN /\ Grounded' = Grounded
  BY <1>1 DEF IInv, TypeOK, Grounded
<1> QED BY <1>1, <1>2, <1>3, <1>4, ContinueKeeps DEF MonitorAwaits

LEMMA CommandedKinds ==
  ASSUME IInv, NEW w \in {"land", "rtl"}
  PROVE  /\ Commanded(veh, w) \in Vehicles /\ Commanded(veh, w).flies # "takeoff"
         /\ Commanded(veh, w).inAir = veh.inAir
<1>1. veh \in Vehicles
  BY DEF IInv, TypeOK
<1> QED BY <1>1 DEF Commanded, Vehicles

LEMMA CommandedKeeps ==
  ASSUME IInv, NEW t \in Tasks,
         LandCommanded(t) \/ RtlCommanded(t) \/ EmergencyLandCommanded(t)
  PROVE  IInv' /\ KeepsWatch
<1>1. PICK l \in {"land", "rtl", "em_land"} :
        /\ Resume(t, l)
        /\ \/ Return(t, TRUE) \/ Return(t, FALSE)
           \/ l = "land" /\ Suspend(t, "land_wait") /\ veh' = Commanded(veh, "land")
           \/ l = "rtl" /\ Suspend(t, "rtl_wait")
        /\ veh' = veh \/ \E w \in {"land", "rtl"} : veh' = Commanded(veh, w)
        /\ UNCHANGED <<mode, target, limit, running, connected, offboard>>
  BY DEF LandCommanded, RtlCommanded, EmergencyLandCommanded
<1>2. /\ HistoryGrows(t) /\ UNCHANGED <<battery, calls>>
      /\ frame[t] \in Frames /\ frame[t].at = l
      /\ l \notin MonitorAwaits => t # Monitor
      /\ frame[t].then = "shutdown" => t # Monitor /\ calls.shut
  BY <1>1, TaskResumes
<1>3. PICK f \in Frames :
        /\ Continue(t, f) /\ f.then = frame[t].then
        /\ \/ f.at = "done"
           \/ f.at = "land_wait" /\ l = "land" /\ veh' = Commanded(veh, "land")
           \/ f.at = "rtl_wait"
  <2>1. CASE Return(t, TRUE) \/ Return(t, FALSE)
    BY <1>2, <2>1, ReturnFrame
  <2>2. CASE l = "land" /\ Suspend(t, "land_wait") /\ veh' = Commanded(veh, "land")
    BY <1>2, <2>2, SuspendFrame DEF Awaits
  <2>3. CASE l = "rtl" /\ Suspend(t, "rtl_wait")
    BY <1>2, <2>3, SuspendFrame DEF Awaits
  <2> QED BY <1>1, <2>1, <2>2, <2>3
<1>4. /\ veh' \in Vehicles /\ offboard' \in BOOLEAN
      /\ Grounded => Grounded'
      /\ veh.flies # "takeoff" => veh'.flies # "takeoff"
  BY <1>1, CommandedKinds DEF IInv, TypeOK, Grounded
<1>5. f.at = "land_wait" => veh'.flies # "takeoff"
  BY <1>3, CommandedKinds
<1>6. t = Monitor => f.at \in MonitorAwaits
  BY <1>2, <1>3 DEF MonitorAwaits
<1> QED BY <1>1, <1>2, <1>3, <1>4, <1>5, <1>6, ContinueKeeps

LEMMA OffboardStoppedKeeps ==
  ASSUME IInv, NEW t \in Tasks, OffboardStopped(t)
  PROVE  IInv' /\ KeepsWatch
<1>1. /\ HistoryGrows(t) /\ UNCHANGED <<battery, calls>> /\ frame[t] \in Frames
      /\ frame[t].at \in {"land_stop", "land_stop2", "em_stop", "em_stop2", "rtl_stop"}
      /\ frame[t].at \notin MonitorAwaits => t # Monitor
      /\ frame[t].then = "shutdown" => t # Monitor /\ calls.shut
  BY TaskResumes DEF OffboardStopped
<1>2. PICK ok \in Answers :
        /\ offboard' = (offboard /\ ~ok)
        /\ veh' = IF ok /\ veh.flies = "offboard" THEN [veh EXCEPT !.flies = "hold"] ELSE veh
        /\ Suspend(t, NextAfterStop(frame[t].at, offboard'))
  BY DEF OffboardStopped
<1>3. PICK l : l = NextAfterStop(frame[t].at, offboard')
  OBVIOUS
<1>4. offboard' \in BOOLEAN
  BY <1>2
<1>5. /\ l \in {"land_stop2", "em_stop2", "land", "em_land", "rtl"}
      /\ l \in {"em_stop2", "em_land", "rtl"} \/ frame[t].at \in {"land_stop", "land_stop2"}
  BY <1>1, <1>3, <1>4 DEF NextAfterStop
<1>6. l \in Awaits /\ (t = Monitor => l \in MonitorAwaits)
  BY <1>1, <1>5 DEF Awaits, MonitorAwaits
<1>7. PICK f \in Frames : Continue(t, f) /\ f.at = l /\ f.then = frame[t].then
  BY <1>1, <1>2, <1>3, <1>6, SuspendFrame
<1>8. /\ veh' \in Vehicles /\ (Grounded => Grounded')
      /\ veh.flies # "takeoff" => veh'.flies # "takeoff"
  BY <1>2 DEF IInv, TypeOK, Vehicles, Grounded
<1> QED BY <1>1, <1>4, <1>5, <1>6, <1>7, <1>8, ContinueKeeps DEF OffboardStopped

\* Only these make a drone IDLE again, and both look whether it is in the air.
LEMMA DisarmedKeeps ==
  ASSUME IInv, NEW t \in Tasks, Disarmed(t) \/ LandWaited(t)
  PROVE  IInv' /\ KeepsWatch
<1>1. PICK l \in {"disarm", "land_wait"}, b \in BOOLEAN :
        /\ Resume(t, l) /\ Return(t, b)
        /\ UNCHANGED <<target, limit, running, connected, offboard>>
        /\ \/ /\ ~veh.inAir /\ mode' = After(mode, "IDLE")
              /\ veh' = [veh EXCEPT !.armed = FALSE, !.flies = "hold"]
           \/ /\ ~veh.inAir /\ l = "land_wait"
              /\ mode' = After(After(mode, "LANDED"), "IDLE") /\ veh' = veh
           \/ UNCHANGED <<mode, veh>>
  <2>1. CASE Disarmed(t)
    <3>1. PICK ok \in Answers :
            LET off == ok /\ ~veh.inAir
            IN  /\ veh' = IF off THEN [veh EXCEPT !.armed = FALSE, !.flies = "hold"] ELSE veh
                /\ mode' = IF off THEN After(mode, "IDLE") ELSE mode
                /\ Return(t, off)
      BY <2>1 DEF Disarmed
    <3>2. (ok /\ ~veh.inAir) \in BOOLEAN
      OBVIOUS
    <3> QED BY <2>1, <3>1, <3>2 DEF Disarmed
  <2>2. CASE LandWaited(t)
    <3>1. (~veh.inAir) \in BOOLEAN
      OBVIOUS
    <3> QED BY <2>2, <3>1 DEF LandWaited
  <2> QED BY <2>1, <2>2
<1>2. /\ HistoryGrows(t) /\ UNCHANGED <<battery, calls>> /\ t # Monitor
      /\ frame[t] \in Frames /\ frame[t].at = l /\ (OneCaller => MayFly(frame[t]))
      /\ frame[t].then = "shutdown" => t # Monitor /\ calls.shut
  BY <1>1, TaskResumes DEF MonitorAwaits
<1>3. PICK f \in Frames : Continue(t, f) /\ f.at = "done" /\ f.then = frame[t].then
  BY <1>1, <1>2, ReturnFrame
<1>4. mode \in Modes /\ veh \in Vehicles
  BY DEF IInv, TypeOK
<1>5. /\ mode' \in Modes /\ mode' \in {mode, "LANDED", "IDLE"}
  BY <1>1, <1>4, ModesAre, AfterKinds DEF After
<1>6. veh' \in Vehicles
  BY <1>1, <1>4 DEF Vehicles
<1>7. Typed'
  BY <1>1, <1>2, <1>5, <1>6 DEF IInv, TypeOK, Typed
<1>8. OneCaller => (mode' \in Low => Grounded')
  <2>1. CASE UNCHANGED <<mode, veh>>
    BY <2>1 DEF IInv, GroundedOK, Grounded
  <2>2. CASE l = "land_wait" /\ ~veh.inAir /\ veh' = veh
    BY <1>2, <2>2 DEF MayFly, Grounded
  <2>3. CASE ~veh.inAir /\ veh' = [veh EXCEPT !.armed = FALSE, !.flies = "hold"]
    BY <1>4, <2>3 DEF Grounded, Vehicles
  <2> QED BY <1>1, <2>1, <2>2, <2>3
<1>9. StaysGrounded(t, f)
  BY <1>2, <1>3, <1>8 DEF StaysGrounded, MayFly
<1>10. StaysWatched(t, f)
  BY <1>1, <1>2, <1>5 DEF StaysWatched
<1> QED BY <1>2, <1>3, <1>7, <1>9, <1>10, TaskStep

LEMMA OffboardStartedKeeps ==
  ASSUME IInv, NEW t \in Tasks, OffboardStarted(t)
  PROVE  IInv' /\ KeepsWatch
<1>1. /\ HistoryGrows(t) /\ UNCHANGED <<battery, calls>>
      /\ frame[t] \in Frames /\ frame[t].at = "offboard"
      /\ frame[t].then = "shutdown" => t # Monitor /\ calls.shut
  BY TaskResumes DEF OffboardStarted
<1>2. mode \in Modes /\ veh \in Vehicles /\ limit \in {"slow", "full"}
  BY DEF IInv, TypeOK
<1>3. CASE /\ offboard' = TRUE /\ veh' = [veh EXCEPT !.flies = "offboard"]
           /\ limit' = frame[t].speed /\ mode' = mode
           /\ Continue(t, Suspended([frame[t] EXCEPT !.old = limit], "goto"))
  <2>1. PICK f : f = Suspended([frame[t] EXCEPT !.old = limit], "goto")
    OBVIOUS
  <2>2. /\ [frame[t] EXCEPT !.old = limit] \in Frames
        /\ [frame[t] EXCEPT !.old = limit].then = frame[t].then
        /\ frame[t].speed \in {"slow", "full"}
    BY <1>1, <1>2 DEF Frames
  <2>3. f \in Frames /\ f.at = "goto" /\ f.then = frame[t].then /\ Continue(t, f)
    BY <1>3, <2>1, <2>2, SuspendedKinds DEF Awaits
  <2>4. veh' \in Vehicles /\ (Grounded => Grounded') /\ veh'.flies # "takeoff"
    BY <1>2, <1>3 DEF Vehicles, Grounded
  <2>5. Typed'
    BY <1>1, <1>3, <2>2, <2>4 DEF IInv, TypeOK, Typed, OffboardStarted
  <2>6. StaysGrounded(t, f)
    BY <1>3, <2>3, <2>4 DEF IInv, GroundedOK, StaysGrounded, MayFly
  <2>7. StaysWatched(t, f)
    BY <1>3, <2>3 DEF StaysWatched, OffboardStarted
  <2> QED BY <1>1, <2>3, <2>5, <2>6, <2>7, TaskStep DEF MonitorAwaits
<1>4. CASE mode' = After(mode, "HOVERING") /\ Return(t, FALSE) /\ UNCHANGED <<offboard, limit, veh>>
  <2>1. PICK f \in Frames : Continue(t, f) /\ f.at = "done" /\ f.then = frame[t].then
    BY <1>1, <1>4, ReturnFrame
  <2>2. /\ mode' \in {mode, "HOVERING"} /\ mode' \in Modes
        /\ mode' # "NAVIGATING"
    BY <1>2, <1>4, ModesAre DEF After, ValidTransitions
  <2>3. Typed'
    BY <1>1, <1>4, <2>2 DEF IInv, TypeOK, Typed, OffboardStarted
  <2>4. StaysGrounded(t, f)
    BY <1>4, <2>1, <2>2 DEF IInv, GroundedOK, StaysGrounded, MayFly, Grounded, Low
  <2>5. StaysWatched(t, f)
    BY <2>2 DEF StaysWatched, OffboardStarted
  <2> QED BY <1>1, <2>1, <2>3, <2>4, <2>5, TaskStep DEF MonitorAwaits
<1> QED BY <1>3, <1>4 DEF OffboardStarted

\* A goto_position never leaves NAVIGATING behind.
LEMMA GotoEndsKeeps ==
  ASSUME IInv, NEW t \in Tasks, GotoEnds(t)
  PROVE  IInv' /\ KeepsWatch
<1>1. /\ HistoryGrows(t) /\ UNCHANGED <<battery, calls>>
      /\ frame[t] \in Frames /\ frame[t].at = "goto"
      /\ frame[t].then = "shutdown" => t # Monitor /\ calls.shut
  BY TaskResumes DEF GotoEnds
<1>2. PICK b \in BOOLEAN : Return(t, b)
  <2>1. (veh.pos = frame[t].goal) \in BOOLEAN
    OBVIOUS
  <2> QED BY <2>1 DEF GotoEnds
<1>3. PICK f \in Frames : Continue(t, f) /\ f.at = "done" /\ f.then = frame[t].then
  BY <1>1, <1>2, ReturnFrame
<1>4. /\ mode' = IF running /\ mode = "NAVIGATING" THEN "HOVERING" ELSE mode
      /\ limit' = frame[t].old /\ UNCHANGED <<target, running, connected, offboard, veh>>
  BY DEF GotoEnds
<1>5. frame[t].old \in {"slow", "full"}
  BY <1>1 DEF Frames
<1>6. Typed'
  BY <1>1, <1>4, <1>5, ModesAre DEF IInv, TypeOK, Typed
<1>7. StaysGrounded(t, f)
  BY <1>3, <1>4 DEF IInv, GroundedOK, StaysGrounded, MayFly, Grounded, Low
<1>8. StaysWatched(t, f)
  BY <1>4 DEF StaysWatched
<1> QED BY <1>1, <1>3, <1>6, <1>7, <1>8, TaskStep DEF MonitorAwaits

-----------------------------------------------------------------------------
LEMMA NextKeeps ==
  ASSUME IInv, [Next]_vars
  PROVE  IInv' /\ KeepsWatch
<1>1. ASSUME NEW t \in Callers, Issues(t)
      PROVE  IInv' /\ KeepsWatch
  BY <1>1, InitializeKeeps, BeginArmKeeps, BeginTakeoffKeeps, BeginDisarmKeeps, EnterManualKeeps,
     CommandsKeep, BeginShutdownKeeps DEF Issues
<1>2. ASSUME NEW t \in Tasks, GoesOn(t)
      PROVE  IInv' /\ KeepsWatch
  BY <1>2, ArmedKeeps, TookOffKeeps, ClimbedKeeps, DisarmedKeeps, OffboardStartedKeeps,
     GotoEndsKeeps, OffboardStoppedKeeps, CommandedKeeps, ShutdownEndsKeeps DEF GoesOn
<1>3. CASE UNCHANGED vars
  BY <1>3 DEF vars, IInv, TypeOK, TasksOK, GroundedOK, OneCaller, Grounded, MayFly,
              KeepsWatch, Adrift, Watched
<1> QED BY <1>1, <1>2, <1>3, MonitorKeeps, FliesKeeps DEF Next

\* Every state the flight controller reaches satisfies the inductive
\* invariant, whatever the callers, the places and the number of commands.
THEOREM FlightInvariant == Spec => []IInv
BY InitIInv, NextKeeps, PTL DEF Spec

\* All variables of the flight controller keep their types.
THEOREM FlightTypes == Spec => []TypeOK
BY FlightInvariant, PTL DEF IInv

\* While one task commands it, a controller that says IDLE or ARMED has its
\* drone on the ground, so arm and takeoff may go by the mode.
THEOREM GroundedWhenIdle == Spec => []IdleIsGrounded
<1>1. IInv => IdleIsGrounded
  BY DEF IInv, GroundedOK, IdleIsGrounded, OneCaller, Low, Grounded
<1> QED BY <1>1, FlightInvariant, PTL

\* Whatever the callers, the monitor and the autopilot do, and through any
\* number of shutdowns: a running controller starts to navigate with no
\* goto_position to end it only out of manual control.
THEOREM NavigationWatched == Spec => NavigationStaysWatched
<1>1. IInv /\ [Next]_vars => [KeepsWatch]_vars
  BY NextKeeps
<1> QED BY <1>1, FlightInvariant, PTL DEF Spec, NavigationStaysWatched, KeepsWatch
=============================================================================
