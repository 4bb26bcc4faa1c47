----------------------------- MODULE SwarmRunner -----------------------------
(***************************************************************************)
(* SwarmWaypointRunner flies the regiment through its checkpoints          *)
(* (src/src/swarm/swarm_waypoint_runner.py), while the panel edits the     *)
(* plan and the panel or a ground station client pauses, resumes and stops *)
(* it (src/scripts/isaac_sim/waypoint_gui.py, src/src/gcs/gcs_server.py).  *)
(*                                                                         *)
(* A step of the loop is what execute() does between two awaits.  Where    *)
(* the drones are is outside the model: a tick finds a phase over or not.  *)
(* No threat is ever reported to the runner's own ThreatManager, so the    *)
(* Beta drone is never called away from a checkpoint.                      *)
(***************************************************************************)
EXTENDS Integers, Sequences

CONSTANTS
    Checkpoints,    \* what the panel may add
    MaxEdits        \* bound: additions and clearings

ASSUME RunnerAssumption ==
    MaxEdits \in Nat

VARIABLES
    plan,       \* _checkpoints
    index,      \* _current_index, counted from 0
    phase,      \* _phase
    state,      \* _status.state
    running,    \* _running
    gate,       \* _pause_event is set
    stopping,   \* _stop_requested
    home,       \* _start_center is set: the swarm returns there
    at,         \* where execute() is suspended
    woken,      \* the event was set while execute() waited for it
    pumped,     \* the event loop goes round even when nothing is due
    target,     \* the checkpoint of the leg under way
    result,     \* what the last execute() returned, or "none"
    flown,      \* history: the checkpoints reported in this mission
    edited,     \* history: the plan was cleared under way, or extended too late
    edits       \* edits so far

ending == <<state, running, result>>
env == <<plan, home, gate, stopping, pumped, edited, edits>>
vars == <<env, ending, index, phase, at, woken, target, flown>>

Phases == {"TRANSIT", "HOLD_FOR_CLIMB", "ACHIEVED", "DESCEND", "READY"}
States == {"IDLE", "RUNNING", "PAUSED", "COMPLETE", "STOPPED", "FAILED"}
Waits == {"next", "legwait", "homewait"}            \* at _pause_event.wait()
Where == Waits \cup {"off", "scheduled", "leg", "home", "homeward"}

Init ==
    /\ plan = <<>> /\ index = 0 /\ phase = "TRANSIT" /\ state = "IDLE"
    /\ running = FALSE /\ gate = TRUE /\ stopping = FALSE /\ home = FALSE
    /\ at = "off" /\ woken = FALSE /\ pumped \in BOOLEAN /\ target = "none"
    /\ result = "none" /\ flown = <<>> /\ edited = FALSE /\ edits = 0

-----------------------------------------------------------------------------
(* execute().                                                              *)

\* execute() returns r and leaves the state s.
Ends(s, r) ==
    /\ state' = s /\ result' = r /\ running' = FALSE /\ at' = "off"
    /\ UNCHANGED <<phase, target>>

\* The task goes on to w.
Goes(w) == at' = w /\ UNCHANGED ending

\* Checkpoint i becomes the target, unless the loop has to wait for the gate.
Heads(i) ==
    IF gate THEN phase' = "TRANSIT" /\ target' = plan[i + 1] /\ Goes("leg")
            ELSE Goes("next") /\ UNCHANGED <<phase, target>>

\* The head of the checkpoint loop, with i checkpoints done.
NextCheckpoint(i) ==
    /\ index' = i
    /\ \/ i < Len(plan) /\ stopping /\ Ends("STOPPED", "False")
       \/ i < Len(plan) /\ ~stopping /\ Heads(i)
       \/ /\ i >= Len(plan) /\ home
          /\ phase' = "TRANSIT" /\ Goes("home") /\ UNCHANGED target
       \/ i >= Len(plan) /\ ~home /\ Ends("COMPLETE", "True")

\* The scheduled coroutine runs for the first time.
Begin ==
    /\ at = "scheduled"
    /\ IF plan = <<>>
       THEN /\ at' = "off" /\ result' = "False"
            /\ UNCHANGED <<index, phase, state, running, target, flown, stopping, edited>>
       ELSE /\ running' = TRUE /\ stopping' = FALSE /\ index' = 0
            /\ flown' = <<>> /\ edited' = FALSE
            /\ state' = "RUNNING" /\ result' = "none" /\ phase' = "TRANSIT"
            /\ IF gate THEN target' = plan[1] /\ at' = "leg" ELSE at' = "next" /\ UNCHANGED target
    /\ UNCHANGED <<plan, home, gate, pumped, edits, woken>>

\* Setting the event makes the task ready; it goes on when the loop goes round.
\* A server's thread does not rouse a loop that sleeps: something else has to.
Wakes(w) == at = w /\ woken /\ woken' = FALSE

\* The wait at the head of the loop is over.  A plan cleared meanwhile raises
\* IndexError.
HeadWoken ==
    /\ Wakes("next")
    /\ IF index < Len(plan)
       THEN phase' = "TRANSIT" /\ target' = plan[index + 1] /\ Goes("leg")
       ELSE Ends("FAILED", "False")
    /\ UNCHANGED <<env, index, flown>>

\* The phases of a checkpoint, each of which lasts until the drones are where
\* it wants them; ACHIEVED reports the checkpoint and is left at once.
\* (Plausible bug, for mutation runs: the climb follows the report.)
Follows_Again(p) ==
    IF p = "TRANSIT" \/ p = "ACHIEVED" THEN "HOLD_FOR_CLIMB"
    ELSE IF p = "HOLD_FOR_CLIMB" THEN "ACHIEVED" ELSE "READY"
Follows(p) ==
    CASE p = "TRANSIT" -> "HOLD_FOR_CLIMB" [] p = "HOLD_FOR_CLIMB" -> "ACHIEVED"
      [] p = "ACHIEVED" -> "DESCEND" [] p = "DESCEND" -> "READY"

Lasts == phase # "ACHIEVED" /\ UNCHANGED <<phase, flown>>
Arrives ==
    /\ phase # "READY" /\ phase' = Follows(phase)
    /\ flown' = IF phase = "ACHIEVED" THEN Append(flown, target) ELSE flown

Tick(outcome) == outcome /\ Goes("leg") /\ UNCHANGED <<index, target>>

\* A turn of the tick loop: stop, then pause, are looked at before the tick.
LegTurn(outcome) ==
    /\ at = "leg" /\ ~stopping /\ gate
    /\ Tick(outcome) /\ UNCHANGED <<env, woken>>
LegHalts ==
    /\ at = "leg"
    /\ \/ stopping /\ Ends("STOPPED", "False")
       \/ ~stopping /\ ~gate /\ Goes("legwait") /\ UNCHANGED <<phase, target>>
    /\ UNCHANGED <<env, index, woken, flown>>

\* After the wait stop is not looked at again.
LegWoken ==
    Wakes("legwait") /\ (Tick(Lasts) \/ Tick(Arrives)) /\ UNCHANGED env

\* The hexagon has formed again: the checkpoint is done.
LegOver ==
    /\ at = "leg" /\ phase = "READY" /\ NextCheckpoint(index + 1)
    /\ UNCHANGED <<env, woken, flown>>

\* The flight back to the start position; arrival is looked at after a tick.
HomeTurn ==
    /\ at \in {"home", "homeward"}
    /\ \/ stopping /\ Ends("STOPPED", "False")
       \/ ~stopping /\ Goes(IF gate THEN "homeward" ELSE "homewait") /\ UNCHANGED <<phase, target>>
    /\ UNCHANGED <<env, index, woken, flown>>
HomeWoken ==
    Wakes("homewait") /\ Goes("homeward") /\ UNCHANGED <<env, index, phase, target, flown>>
HomeReached ==
    /\ at = "homeward" /\ Ends("COMPLETE", "True")
    /\ UNCHANGED <<env, index, woken, flown>>

Resumes == HeadWoken \/ LegWoken \/ HomeWoken
Turns ==
    \/ Begin \/ LegHalts \/ LegOver \/ LegTurn(Lasts) \/ LegTurn(Arrives)
    \/ HomeTurn \/ HomeReached
Execute == Turns \/ Resumes

-----------------------------------------------------------------------------
(* The operator.                                                           *)

\* The panel starts a mission when the last one is over: the coroutine is
\* scheduled and runs later.
StartMission ==
    /\ at = "off" /\ plan # <<>> /\ at' = "scheduled"
    /\ home' \in {home, TRUE}
    /\ UNCHANGED <<pumped, plan, gate, stopping, edited, edits, ending, index, phase, woken, target, flown>>

AddCheckpoint(c) ==
    /\ edits < MaxEdits /\ edits' = edits + 1
    /\ plan' = Append(plan, c)
    /\ edited' = (edited \/ at \notin {"next", "leg", "legwait"})
    /\ UNCHANGED <<pumped, ending, home, gate, stopping, index, phase, at, woken, target, flown>>

\* (Plausible bug, for mutation runs: the index is left where it was.)
ClearCheckpoints_KeepsIndex ==
    /\ edits < MaxEdits /\ edits' = edits + 1
    /\ plan' = <<>> /\ edited' = TRUE
    /\ UNCHANGED <<pumped, ending, home, gate, stopping, index, phase, at, woken, target, flown>>
ClearCheckpoints ==
    /\ edits < MaxEdits /\ edits' = edits + 1
    /\ plan' = <<>> /\ index' = 0 /\ edited' = TRUE
    /\ UNCHANGED <<pumped, ending, home, gate, stopping, phase, at, woken, target, flown>>

Pause ==
    /\ gate' = FALSE /\ state' = "PAUSED"
    /\ UNCHANGED <<pumped, plan, home, stopping, edited, edits, running, result, index, phase, at, woken, target, flown>>

Open == gate' = TRUE /\ woken' = (woken \/ at \in Waits)

Resume ==
    /\ Open /\ state' = "RUNNING"
    /\ UNCHANGED <<pumped, plan, home, stopping, edited, edits, running, result, index, phase, at, target, flown>>

\* (Plausible bug, for mutation runs: a paused mission stays paused.)
Stop_Paused ==
    /\ stopping' = TRUE
    /\ UNCHANGED <<pumped, gate, woken, plan, home, edited, edits, ending, index, phase, at, target, flown>>
Stop ==
    /\ stopping' = TRUE /\ Open
    /\ UNCHANGED <<pumped, plan, home, edited, edits, ending, index, phase, at, target, flown>>

Operator ==
    \/ StartMission \/ ClearCheckpoints \/ Pause \/ Resume \/ Stop
    \/ \E c \in Checkpoints : AddCheckpoint(c)

Next == Execute \/ Operator

\* The loop keeps turning while the task is due by its timer, and if it is
\* pumped also when nothing is; where the drones are sent they get.
Spec ==
    /\ Init /\ [][Next]_vars
    /\ WF_vars(Turns) /\ WF_vars(pumped /\ Resumes)
    /\ WF_vars(LegTurn(Arrives)) /\ WF_vars(LegOver) /\ WF_vars(HomeReached)

-----------------------------------------------------------------------------
(* Properties.                                                             *)

\* The state keeps its shape, and the index stays within the plan or one
\* step behind its end.
TypeOK ==
    /\ plan \in Seq(Checkpoints) /\ index \in 0 .. Len(plan) + 1
    /\ phase \in Phases /\ state \in States /\ at \in Where
    /\ {running, gate, stopping, home, woken, pumped, edited} \subseteq BOOLEAN
    /\ target \in Checkpoints \cup {"none"} /\ result \in {"True", "False", "none"}
    /\ flown \in Seq(Checkpoints) /\ edits \in 0 .. MaxEdits

\* While the plan is only extended, and not after its end has been reached,
\* the checkpoints are reported in the order of the plan, each once and none
\* left out, through any pauses; a mission that returns True has reported all.
Reported == index + (IF at \in {"leg", "legwait"} /\ phase \in {"DESCEND", "READY"} THEN 1 ELSE 0)
AsPlanned == Len(flown) <= Len(plan) /\ \A k \in 1 .. Len(flown) : flown[k] = plan[k]
FlownInOrder ==
    /\ running /\ ~edited => AsPlanned /\ Len(flown) = Reported
    /\ result = "True" /\ ~edited => flown = plan

\* A mission comes to its end unless a pause holds it that no stop has followed.
\* In a pumped loop a stop ends it, paused or not; in one that goes to sleep
\* while the task waits, a resume or stop may stay unnoticed, and that is the
\* only other way to hang (execute, stop's "Unblock if paused").
Held == ~gate /\ ~stopping
Unnoticed == at \in Waits /\ woken /\ ~pumped
MissionEnds == []<>(~running \/ Held \/ Unnoticed)

-----------------------------------------------------------------------------
(* What the code does not guarantee.                                       *)

\* execute() returns True when all checkpoints were executed: not those added
\* during the flight home, or skipped after the plan was cleared and refilled.
TrueMeansFlown == result = "True" /\ at = "off" => \A k \in DOMAIN plan : \E j \in DOMAIN flown : flown[j] = plan[k]

\* A mission that is reported as running is not held by the gate: one started
\* after a pause is.
RunningMoves == running /\ state = "RUNNING" => gate

\* "Unblock if paused": a stop ends a paused mission.  A loop that sleeps does
\* not notice the stop of another thread.
StopUnblocks == stopping ~> ~running

\* A stop asked for between the start and the first step of the task counts.
StopIsHeard == [][stopping /\ at = "scheduled" => stopping']_vars
=============================================================================
