------------------------------- MODULE Inspection -------------------------------
(***************************************************************************)
(* Threats and their inspection in the autonomous pipeline                 *)
(* (simulation/scenario_executor.py): the change detector reports what the *)
(* sensors see, the threat manager keeps the threats, the mission policy   *)
(* sends a drone down, neighbours fill in for its sector, and the drone    *)
(* judges the threat and comes home.  Drones fail and recover meanwhile.   *)
(*                                                                         *)
(* One thread runs it all.  A sensor tick is observations and reports      *)
(* (sensed becomes TRUE), then update, which ages the threats and makes    *)
(* the queue of candidates, then one step per candidate in the policy's    *)
(* order.  Faults and flying come between the ticks (Idle).  Positions are *)
(* abstracted: the nearest drone is any drone, an arrival may happen at    *)
(* any time, an object is alone within the 15 m that link it to a threat.  *)
(***************************************************************************)
EXTENDS ThreatManager, MissionPolicy

CONSTANTS Sensors,      \* kinds of sensor
          Firings,      \* the sets of sensors that may fire together
          MultiSensor,  \* multi_sensor_min_count
          Neighbours,   \* whom _mark_sector_backfill asks to fill in
          MaxScan,      \* most waypoints a facade scan has here
          MaxFaults,    \* bound of the model on the fault schedule
          Repairable    \* drones whose faults have a duration

Drones  == Inspectors
Objects == Sources \ Crowds

ASSUME InspectionAssumption ==
  /\ Neighbours \in [Drones -> SUBSET Drones]
  /\ \A d \in Drones : Neighbours[d] # {} /\ d \notin Neighbours[d]
  /\ RankOf \in [Sources -> Nat]
  /\ MaxInspectors \in Nat /\ MultiSensor \in Nat /\ MaxScan \in Nat
  /\ MaxFaults \in Nat /\ Firings \subseteq SUBSET Sensors
  /\ {"normal", "degraded"} \cap Drones = {}

VARIABLES active,     \* which drones work
          faults,     \* faults so far
          cooling,    \* _recently_reported of the change detector
          hits,       \* _object_sensor_hits
          evidence,   \* _threat_sensor_hits
          sensed,     \* a sensor tick has begun and the update is due
          queue,      \* candidates the policy has still to look at
          covered,    \* coverage_pct of this update is high enough (a local)
          plan,       \* _active_inspections: the inspector of each threat
          scan,       \* scan waypoints its plan has left
          assigned,   \* _drone_threat_assignment; 0 when there is none
          mission,    \* _mission_states
          task,       \* _inspection_states
          covers,     \* backfilled_by of each drone's sector
          backfill,   \* _sector_backfill_states
          overwatch   \* keys of _crowd_overwatch_goals

senseVars   == <<cooling, hits, evidence>>
policyVars  == <<queue, covered>>
inspectVars == <<plan, scan, assigned>>
sectorVars  == <<covers, backfill>>
droneVars   == <<active, faults>>
stateVars   == <<mission, task, overwatch>>
vars == <<threatVars, senseVars, sensed, policyVars, inspectVars, sectorVars,
          droneVars, stateVars>>

MissionStates == {"PATROL_HIGH", "DESCEND_CONFIRM", "FACADE_SCAN",
                  "REASCEND_REJOIN", "CROWD_OVERWATCH", "DEGRADED_SAFE"}
TaskStates == {"idle", "ingress", "facade_scan", "reascend", "high_overwatch"}

Inspected == {t \in ThreatIds : plan[t] # NoDrone}
Free      == {d \in Drones : active[d] /\ assigned[d] = 0}
Idle      == ~sensed /\ queue = {}

Init ==
  /\ ThreatsInit
  /\ active   = [d \in Drones |-> TRUE]
  /\ faults   = 0
  /\ cooling  = {}
  /\ hits     = [o \in Sources |-> {}]
  /\ evidence = [t \in ThreatIds |-> {}]
  /\ sensed   = FALSE
  /\ queue    = {}
  /\ covered  = FALSE
  /\ plan     = [t \in ThreatIds |-> NoDrone]
  /\ scan     = [t \in ThreatIds |-> 0]
  /\ assigned = [d \in Drones |-> 0]
  /\ mission  = [d \in Drones |-> "PATROL_HIGH"]
  /\ task     = [d \in Drones |-> "idle"]
  /\ covers   = [d \in Drones |-> {}]
  /\ backfill = [d \in Drones |-> "normal"]
  /\ overwatch = {}

(***************************************************************************)
(* A sensor tick: observations.                                            *)
(***************************************************************************)
\* A working drone sees object o with the sensors that fired.  A report needs
\* the object's cooldown to be over; the new threat is linked to all the kinds
\* of sensor that have seen the object so far.
Observe(o, fired) ==
  /\ queue = {}
  /\ \E d \in Drones : active[d]
  /\ hits' = [hits EXCEPT ![o] = @ \cup fired]
  /\ IF o \in cooling
     THEN UNCHANGED <<threatVars, cooling, evidence>>
     ELSE /\ ReportThreat(o)
          /\ cooling'  = cooling \cup {o}
          /\ evidence' = [evidence EXCEPT ![counter'] = hits'[o]]
  /\ sensed' = TRUE
  /\ UNCHANGED <<policyVars, inspectVars, sectorVars, droneVars, stateVars>>

\* The crowd coordinator finds a zone at WARNING or above.
ReportCrowd(z) ==
  /\ queue = {}
  /\ \E d \in Drones : active[d]
  /\ ReportThreat(z)
  /\ sensed' = TRUE
  /\ UNCHANGED <<senseVars, policyVars, inspectVars, sectorVars, droneVars, stateVars>>

(***************************************************************************)
(* The end of the tick: threats age, crowd overwatch is called off, and    *)
(* every unjudged threat that nobody inspects is a candidate.              *)
(***************************************************************************)
Candidates == {t \in ThreatIds : /\ status'[t] \in Doubtful \cup {"CONFIRMING"}
                                 /\ plan[t] = NoDrone}

CalledOff(d) == assigned[d] = 0 /\ mission[d] = "CROWD_OVERWATCH"

Update ==
  /\ queue = {}
  /\ UpdateThreats
  /\ sensed' = FALSE
  /\ queue' = Candidates
  /\ covered' \in IF queue' = {} THEN {FALSE} ELSE BOOLEAN
  /\ overwatch' = {}
  /\ mission' = [d \in Drones |-> IF CalledOff(d) THEN "PATROL_HIGH" ELSE mission[d]]
  /\ task'    = [d \in Drones |-> IF CalledOff(d) THEN "idle" ELSE task[d]]
  /\ UNCHANGED <<senseVars, inspectVars, sectorVars, droneVars>>

(***************************************************************************)
(* The policy looks at one candidate, the most urgent that is left.        *)
(***************************************************************************)
Decision(t) ==
  EvaluateThreat(source[t], Cardinality(evidence[t]) >= MultiSensor,
                 Cardinality(Inspected), covered)

IsFirst_Oldest(t) == \A u \in queue \ {t} : t < u

IsFirst(t) == \A u \in queue \ {t} : Before(t, source[t], u, source[u])

\* _assign_crowd_overwatch: the two nearest free drones.
AssignCrowdOverwatch ==
  /\ \E watch \in SUBSET Free :
       /\ Cardinality(watch) = 2 \/ (watch = Free /\ Cardinality(Free) < 2)
       /\ overwatch' = overwatch \cup watch
       /\ mission' = [d \in Drones |-> IF d \in watch THEN "CROWD_OVERWATCH" ELSE mission[d]]
       /\ task'    = [d \in Drones |-> IF d \in watch THEN "high_overwatch" ELSE task[d]]
  /\ UNCHANGED <<threatVars, inspectVars, sectorVars>>

\* _mark_sector_backfill, after the inspector's own entry has been made.
MarkSectorBackfill(d) ==
  /\ covers'   = [covers EXCEPT ![d] = Neighbours[d]]
  /\ backfill' = [x \in Drones |-> IF x = d THEN "degraded"
                                 ELSE IF x \in Neighbours[d] THEN d ELSE backfill[x]]

Dispatch(t, d) ==
  /\ RequestInspection(t, d)
  /\ plan'     = [plan EXCEPT ![t] = d]
  /\ \E n \in 0..MaxScan : /\ Decision(t) # "EXECUTE_FACADE_SCAN" => n = 0
                           /\ scan' = [scan EXCEPT ![t] = n]
  /\ assigned' = [assigned EXCEPT ![d] = t]
  /\ mission'  = [mission EXCEPT ![d] = IF Decision(t) = "DESCEND"
                                        THEN "DESCEND_CONFIRM" ELSE "FACADE_SCAN"]
  /\ task'     = [task EXCEPT ![d] = "ingress"]
  /\ MarkSectorBackfill(d)
  /\ UNCHANGED overwatch

PassOver == UNCHANGED <<threatVars, inspectVars, sectorVars, stateVars>>

Consider(t) ==
  /\ t \in queue /\ IsFirst(t)
  /\ queue' = queue \ {t}
  /\ covered' = (covered /\ queue' # {})
  /\ \/ /\ Decision(t) = "CROWD_RETASK"
        /\ AssignCrowdOverwatch
     \/ /\ Decision(t) \in Descents /\ status[t] \in Doubtful
        /\ \E d \in Free : Dispatch(t, d)
     \/ /\ \/ Decision(t) \in {"HOLD", "ABORT"}
           \/ Decision(t) \in Descents /\ (status[t] \notin Doubtful \/ Free = {})
        /\ PassOver
  /\ UNCHANGED <<senseVars, sensed, droneVars>>

(***************************************************************************)
(* _advance_active_inspections, for an inspector within reach of its       *)
(* target.  The branch for a threat that is gone is never taken: that is   *)
(* part of ConfirmingIsInspected.                                          *)
(***************************************************************************)
NextScanPoint(t) ==
  /\ task[plan[t]] # "reascend"
  /\ scan[t] > 1
  /\ scan' = [scan EXCEPT ![t] = @ - 1]
  /\ task' = [task EXCEPT ![plan[t]] = "facade_scan"]
  /\ UNCHANGED <<threatVars, plan, assigned, mission, sectorVars>>

Judge_PopsEmpty(t) ==
  /\ task[plan[t]] # "reascend"
  /\ scan[t] <= 1
  /\ \E real \in BOOLEAN : ConfirmThreat(t, real)
  /\ scan'    = [scan EXCEPT ![t] = @ - 1]
  /\ task'    = [task EXCEPT ![plan[t]] = "reascend"]
  /\ mission' = [mission EXCEPT ![plan[t]] = "REASCEND_REJOIN"]
  /\ UNCHANGED <<plan, assigned, sectorVars>>

Judge(t) ==
  /\ task[plan[t]] # "reascend"
  /\ scan[t] <= 1
  /\ \E real \in BOOLEAN : ConfirmThreat(t, real)
  /\ scan'    = [scan EXCEPT ![t] = 0]
  /\ task'    = [task EXCEPT ![plan[t]] = "reascend"]
  /\ mission' = [mission EXCEPT ![plan[t]] = "REASCEND_REJOIN"]
  /\ UNCHANGED <<plan, assigned, sectorVars>>

Rejoin_ForgetsHelpers(t) ==
  LET d == plan[t]
  IN  /\ task[d] = "reascend"
      /\ plan'     = [plan EXCEPT ![t] = NoDrone]
      /\ assigned' = [assigned EXCEPT ![d] = 0]
      /\ mission'  = [mission EXCEPT ![d] = "PATROL_HIGH"]
      /\ task'     = [task EXCEPT ![d] = "idle"]
      /\ covers'   = [covers EXCEPT ![d] = {}]
      /\ backfill' = [backfill EXCEPT ![d] = "normal"]
      /\ UNCHANGED <<threatVars, scan>>

Rejoin(t) ==
  LET d == plan[t]
  IN  /\ task[d] = "reascend"
      /\ plan'     = [plan EXCEPT ![t] = NoDrone]
      /\ assigned' = [assigned EXCEPT ![d] = 0]
      /\ mission'  = [mission EXCEPT ![d] = "PATROL_HIGH"]
      /\ task'     = [task EXCEPT ![d] = "idle"]
      /\ covers'   = [covers EXCEPT ![d] = {}]
      /\ backfill' = [x \in Drones |-> IF x = d \/ x \in covers[d] THEN "normal"
                                                                  ELSE backfill[x]]
      /\ UNCHANGED <<threatVars, scan>>

Arrive(t) ==
  /\ Idle
  /\ t \in Inspected
  /\ active[plan[t]]
  /\ NextScanPoint(t) \/ Judge(t) \/ Rejoin(t)
  /\ UNCHANGED <<senseVars, sensed, policyVars, droneVars, overwatch>>

(***************************************************************************)
(* Faults and recoveries (_process_scheduled_faults).  An inspector that   *)
(* fails keeps its inspection and is DEGRADED_SAFE from the same tick on.  *)
(***************************************************************************)
Fault_AnyDrone(d) ==
  /\ Idle
  /\ active[d]
  /\ faults < MaxFaults
  /\ faults'  = faults + 1
  /\ active'  = [active EXCEPT ![d] = FALSE]
  /\ mission' = [mission EXCEPT ![d] = "DEGRADED_SAFE"]
  /\ UNCHANGED <<threatVars, senseVars, sensed, policyVars, inspectVars,
                 sectorVars, task, overwatch>>

Fault_DropsInspection(d) ==
  /\ Idle
  /\ active[d]
  /\ faults < MaxFaults
  /\ faults'  = faults + 1
  /\ active'  = [active EXCEPT ![d] = FALSE]
  /\ mission' = IF assigned[d] # 0 THEN [mission EXCEPT ![d] = "DEGRADED_SAFE"]
                                   ELSE mission
  /\ plan'     = [t \in ThreatIds |-> IF plan[t] = d THEN NoDrone ELSE plan[t]]
  /\ assigned' = [assigned EXCEPT ![d] = 0]
  /\ UNCHANGED <<threatVars, senseVars, sensed, policyVars, scan,
                 sectorVars, task, overwatch>>

Fault(d) ==
  /\ Idle
  /\ active[d]
  /\ faults < MaxFaults
  /\ faults'  = faults + 1
  /\ active'  = [active EXCEPT ![d] = FALSE]
  /\ mission' = IF assigned[d] # 0 THEN [mission EXCEPT ![d] = "DEGRADED_SAFE"]
                                   ELSE mission
  /\ UNCHANGED <<threatVars, senseVars, sensed, policyVars, inspectVars,
                 sectorVars, task, overwatch>>

Recover(d) ==
  /\ Idle
  /\ ~active[d]
  /\ d \in Repairable
  /\ active' = [active EXCEPT ![d] = TRUE]
  /\ UNCHANGED <<threatVars, senseVars, sensed, policyVars, inspectVars,
                 sectorVars, stateVars, faults>>

(***************************************************************************)
(* The passing of time: age limits, and the cooldown of a report (10 s).   *)
(* Threats age by the simulation's clock, but report_change is called      *)
(* without a time and stamps an object's threat with the wall clock, which *)
(* is ahead by decades: such a threat does not grow old until it has been  *)
(* judged.                                                                 *)
(***************************************************************************)
StampedBySimTime(t) == status[t] \in Doubtful => source[t] \in Crowds

Older(t) ==
  /\ StampedBySimTime(t)
  /\ TimePasses(t)
  /\ UNCHANGED <<senseVars, sensed, policyVars, inspectVars, sectorVars,
                 droneVars, stateVars>>

CooldownEnds(o) ==
  /\ Idle
  /\ o \in cooling
  /\ cooling' = cooling \ {o}
  /\ UNCHANGED <<threatVars, hits, evidence, sensed, policyVars, inspectVars,
                 sectorVars, droneVars, stateVars>>

Next ==
  \/ \E o \in Objects, fired \in Firings : Observe(o, fired)
  \/ \E z \in Sources \cap Crowds : ReportCrowd(z)
  \/ Update
  \/ \E t \in ThreatIds : Consider(t) \/ Arrive(t) \/ Older(t)
  \/ \E d \in Drones : Fault(d) \/ Recover(d)
  \/ \E o \in Objects : CooldownEnds(o)

Spec == Init /\ [][Next]_vars

(***************************************************************************)
(* Fairness.  The main loop ticks for ever and a sensor tick looks at every *)
(* candidate; every loop flies the inspectors (so one that works reaches   *)
(* its target however often sensor ticks come between) and mends the       *)
(* faults that have a duration; time passes.                               *)
(***************************************************************************)
Fairness ==
  /\ WF_vars(Update)
  /\ WF_vars(\E t \in ThreatIds : Consider(t))
  /\ \A t \in ThreatIds : WF_vars(Older(t)) /\ SF_vars(Arrive(t))
  /\ \A d \in Drones : SF_vars(Recover(d))

FairSpec == Spec /\ Fairness

-----------------------------------------------------------------------------
\* Types.  Nothing but the shape of the state.
TypeOK ==
  /\ ThreatsTypeOK
  /\ active   \in [Drones -> BOOLEAN] /\ faults \in 0..MaxFaults
  /\ cooling  \subseteq Objects
  /\ hits     \in [Sources -> SUBSET Sensors]
  /\ evidence \in [ThreatIds -> SUBSET Sensors]
  /\ sensed   \in BOOLEAN /\ covered \in BOOLEAN
  /\ queue    \subseteq ThreatIds
  /\ plan     \in [ThreatIds -> Drones \cup {NoDrone}]
  /\ scan     \in [ThreatIds -> 0..MaxScan]
  /\ assigned \in [Drones -> ThreatIds \cup {0}]
  /\ mission  \in [Drones -> MissionStates]
  /\ task     \in [Drones -> TaskStates]
  /\ covers   \in [Drones -> SUBSET Drones]
  /\ backfill \in [Drones -> Drones \cup {"normal", "degraded"}]
  /\ overwatch \subseteq Drones

\* A threat is being confirmed exactly while some drone has it in hand and has
\* not judged it: the manager (status, assigned_inspector, guidance) and the
\* executor (active inspections, inspection state) never disagree, through
\* faults, aging and pruning.  A CONFIRMING threat outside every inspection
\* would be for ever: it neither ages out nor is it ever dispatched again.
ConfirmingIsInspected ==
  /\ \A t \in ThreatIds :
       status[t] = "CONFIRMING" <=> /\ plan[t] # NoDrone
                                    /\ task[plan[t]] # "reascend"
  /\ \A t \in ThreatIds : status[t] = "CONFIRMING" => inspector[t] = plan[t]
  /\ shepherds = {t \in ThreatIds : status[t] = "CONFIRMING"}

\* Inspections and assignments are two records of one thing, and what a drone
\* is said to do agrees with them: only a drone that has an inspection is off
\* its patrol (crowd overwatch aside), and none keeps the state of an
\* inspection that is over.
DutyAgrees ==
  /\ \A t \in Inspected : assigned[plan[t]] = t
  /\ \A d \in Drones : assigned[d] # 0 => plan[assigned[d]] = d
  /\ \A d \in Drones :
       IF assigned[d] = 0
       THEN /\ mission[d] \in {"PATROL_HIGH", "CROWD_OVERWATCH"}
            /\ task[d] \in {"idle", "high_overwatch"}
       ELSE /\ mission[d] \notin {"PATROL_HIGH", "CROWD_OVERWATCH"}
            /\ task[d] \notin {"idle", "high_overwatch"}

\* The record of who was asked to fill in is made when an inspection begins,
\* and its end gives back by it.  Whatever other inspections and faults came
\* between, nobody goes on filling in for a drone that is back, and none stays
\* degraded; with one inspector at a time, the default, everybody that was
\* asked, working or not, is said to fill in until the inspection ends.
GivenBack ==
  /\ \A d \in Drones : covers[d] = IF assigned[d] # 0 THEN Neighbours[d] ELSE {}
  /\ \A d \in Drones : backfill[d] = "degraded" => assigned[d] # 0
  /\ \A d, x \in Drones : backfill[x] = d => x \in covers[d]
FilledIn ==
  /\ \A d \in Drones : assigned[d] # 0 => backfill[d] = "degraded"
  /\ \A d, x \in Drones : x \in covers[d] => backfill[x] = d
SectorsRestored == GivenBack /\ (MaxInspectors = 1 => FilledIn)

\* When a drone is sent to a threat, no threat that the policy would inspect
\* as well is more urgent.
MostUrgentFirst ==
  [][\A t \in ThreatIds : plan[t] = NoDrone /\ plan'[t] # NoDrone =>
       \A u \in ThreatIds :
         /\ status[u] \in Doubtful
         /\ Decision(u) \in Descents
         => ~Before(u, source[u], t, source[t])]_vars

\* The detailed system implements the abstract life cycle of threats, with its
\* promise that an inspection ends.
Stage == [t \in ThreatIds |-> IF t > counter THEN "UNBORN"
                              ELSE IF status[t] = "ABSENT" THEN "GONE" ELSE status[t]]
Life == INSTANCE ThreatLifecycle WITH
          Limit <- MaxInspectors, stage <- Stage, inHand <- Inspected

LifecycleKept == Life!LifeSpec

\* Every threat comes to an end: it is confirmed or it leaves the books,
\* whichever way it was dispatched, passed over, cleared or forgotten.
DoubtSettles ==
  \A t \in ThreatIds : t <= counter ~> status[t] \in {"CONFIRMED", "ABSENT"}

\* A crowd's threat, which nobody inspects, and an inspected threat do come to
\* an end, through faults of the inspector, verdicts and pruning.
CareEnds ==
  \A t \in ThreatIds :
    status[t] # "ABSENT" /\ (source[t] \in Crowds \/ inspector[t] # NoDrone)
      ~> status[t] \in {"CONFIRMED", "ABSENT"}

\* Not guaranteed: an inspecting drone's sector is covered.  _mark_sector_backfill
\* asks the neighbours without looking whether they work.
SectorsCovered ==
  \A d \in Drones : assigned[d] # 0 => \E x \in covers[d] : active[x]

\* An object or zone that is reported again and again is one threat.
OneThreatPerSource ==
  \A t, u \in ThreatIds :
    /\ t # u /\ source[t] = source[u]
    /\ status[t] \in Doubtful \cup {"CONFIRMING"}
    => status[u] \notin Doubtful \cup {"CONFIRMING"}
===============================================================================
