--------------------------- MODULE Inspection_proofs ---------------------------
(***************************************************************************)
(* Theorems about Inspection, for every set of drones, sources and sensors *)
(* and any number of threats: types, the agreement of the threat manager   *)
(* and the executor, the restored sectors (with one inspector at a time,   *)
(* the policy's default), and that every step is a step of ThreatLifecycle *)
(* or leaves its variables alone.                                          *)
(***************************************************************************)
EXTENDS Inspection, TLAPS, FiniteSetTheorems

-----------------------------------------------------------------------------
(* Types. *)

LEMMA TypesAtFirst ==
  ASSUME Init
  PROVE  TypeOK
<1>1. PICK o \in Sources : o = CHOOSE p \in Sources : TRUE
  BY ThreatsAssumption
<1>2. source = [t \in ThreatIds |-> o]
  BY <1>1 DEF Init, ThreatsInit
<1>3. ThreatsTypeOK
  BY <1>2, ThreatsAssumption DEF Init, ThreatsInit, ThreatsTypeOK, Statuses, Waiting
<1>4. faults \in 0..MaxFaults /\ 0 \in 0..MaxScan
  BY InspectionAssumption DEF Init
<1> QED
  BY <1>3, <1>4 DEF Init, TypeOK, MissionStates, TaskStates

LEMMA TypesReport ==
  ASSUME TypeOK, NEW o \in Sources, ReportThreat(o)
  PROVE  ThreatsTypeOK'
  BY ThreatsAssumption
  DEF TypeOK, ThreatsTypeOK, ReportThreat, ThreatIds, Statuses, Waiting, ScoredStatus, Doubtful

LEMMA TypesObserve ==
  ASSUME TypeOK, NEW o \in Objects, NEW fired \in Firings, Observe(o, fired)
  PROVE  TypeOK'
<1>0. o \in Sources /\ fired \subseteq Sensors
  BY InspectionAssumption DEF Objects
<1>1. hits' \in [Sources -> SUBSET Sensors]
  BY <1>0 DEF TypeOK, Observe
<1>2. /\ cooling' \subseteq Objects
      /\ evidence' \in [ThreatIds -> SUBSET Sensors]
      /\ ThreatsTypeOK'
  <2>1. CASE o \in cooling
    BY <2>1 DEF Observe, TypeOK, threatVars, ThreatsTypeOK
  <2>2. CASE o \notin cooling
    <3>1. ReportThreat(o) /\ cooling' = cooling \cup {o}
      BY <2>2 DEF Observe
    <3>2. evidence' = [evidence EXCEPT ![counter'] = hits'[o]]
      BY <2>2 DEF Observe
    <3> QED
      BY <3>1, <3>2, <1>0, <1>1, TypesReport DEF TypeOK
  <2> QED
    BY <2>1, <2>2
<1> QED
  BY <1>1, <1>2
  DEF Observe, TypeOK, policyVars, inspectVars, sectorVars, droneVars, stateVars

LEMMA TypesReportCrowd ==
  ASSUME TypeOK, NEW z \in Sources, ReportCrowd(z)
  PROVE  TypeOK'
<1>1. ThreatsTypeOK'
  BY TypesReport DEF ReportCrowd
<1> QED
  BY <1>1
  DEF ReportCrowd, TypeOK, senseVars, policyVars, inspectVars, sectorVars, droneVars, stateVars

LEMMA AgedIsStatus ==
  ASSUME TypeOK, NEW t \in ThreatIds
  PROVE  Aged(t) \in Statuses
  BY DEF TypeOK, ThreatsTypeOK, Aged, Statuses, Waiting, Doubtful

LEMMA TypesUpdate ==
  ASSUME TypeOK, Update
  PROVE  TypeOK'
<1>1. ThreatsTypeOK'
  <2>1. status' \in [ThreatIds -> Statuses]
    BY AgedIsStatus DEF Update, UpdateThreats
  <2>2. inspector' \in [ThreatIds -> Inspectors \cup {NoDrone}]
    BY DEF Update, UpdateThreats, TypeOK, ThreatsTypeOK
  <2> QED
    BY <2>1, <2>2 DEF Update, UpdateThreats, TypeOK, ThreatsTypeOK
<1>2. /\ sensed' \in BOOLEAN /\ covered' \in BOOLEAN
      /\ queue' \subseteq ThreatIds /\ overwatch' \subseteq Drones
  BY DEF Update, Candidates
<1>3. /\ mission' \in [Drones -> MissionStates]
      /\ task' \in [Drones -> TaskStates]
  BY DEF Update, TypeOK, MissionStates, TaskStates
<1> QED
  BY <1>1, <1>2, <1>3 DEF Update, TypeOK, senseVars, inspectVars, sectorVars, droneVars

LEMMA TypesOverwatch ==
  ASSUME TypeOK, AssignCrowdOverwatch
  PROVE  /\ overwatch' \subseteq Drones
         /\ mission' \in [Drones -> MissionStates]
         /\ task' \in [Drones -> TaskStates]
<1>1. PICK watch \in SUBSET Free :
        /\ overwatch' = overwatch \cup watch
        /\ mission' = [d \in Drones |-> IF d \in watch THEN "CROWD_OVERWATCH" ELSE mission[d]]
        /\ task'    = [d \in Drones |-> IF d \in watch THEN "high_overwatch" ELSE task[d]]
  BY DEF AssignCrowdOverwatch
<1>2. watch \subseteq Drones
  BY DEF Free
<1> QED
  BY <1>1, <1>2 DEF TypeOK, MissionStates, TaskStates

LEMMA TypesBackfill ==
  ASSUME TypeOK, NEW d \in Drones, MarkSectorBackfill(d)
  PROVE  /\ covers' \in [Drones -> SUBSET Drones]
         /\ backfill' \in [Drones -> Drones \cup {"normal", "degraded"}]
  BY InspectionAssumption DEF TypeOK, MarkSectorBackfill

LEMMA TypesDispatch ==
  ASSUME TypeOK, NEW t \in ThreatIds, NEW d \in Free, Dispatch(t, d)
  PROVE  /\ ThreatsTypeOK'
         /\ plan'     \in [ThreatIds -> Drones \cup {NoDrone}]
         /\ scan'     \in [ThreatIds -> 0..MaxScan]
         /\ assigned' \in [Drones -> ThreatIds \cup {0}]
         /\ mission'  \in [Drones -> MissionStates]
         /\ task'     \in [Drones -> TaskStates]
         /\ overwatch' \subseteq Drones
<1>0. d \in Drones
  BY DEF Free
<1>1. ThreatsTypeOK'
  BY <1>0 DEF TypeOK, ThreatsTypeOK, Dispatch, RequestInspection, Statuses, Drones
<1> QED
  BY <1>0, <1>1 DEF TypeOK, Dispatch, MissionStates, TaskStates

LEMMA TypesConsider ==
  ASSUME TypeOK, NEW t \in ThreatIds, Consider(t)
  PROVE  TypeOK'
<1>1. queue' \subseteq ThreatIds /\ covered' \in BOOLEAN
  BY DEF Consider, TypeOK
<1>2. CASE AssignCrowdOverwatch
  BY <1>1, <1>2, TypesOverwatch
  DEF Consider, AssignCrowdOverwatch, TypeOK, ThreatsTypeOK, threatVars, inspectVars, sectorVars,
      senseVars, droneVars
<1>3. CASE \E d \in Free : Dispatch(t, d)
  <2>1. PICK d \in Free : Dispatch(t, d)
    BY <1>3
  <2>2. d \in Drones /\ MarkSectorBackfill(d)
    BY <2>1 DEF Free, Dispatch
  <2> QED
    BY <1>1, <2>1, <2>2, TypesDispatch, TypesBackfill DEF Consider, TypeOK, senseVars, droneVars
<1>4. CASE PassOver
  BY <1>1, <1>4
  DEF Consider, PassOver, TypeOK, ThreatsTypeOK, threatVars, inspectVars, sectorVars, stateVars,
      senseVars, droneVars
<1> QED
  BY <1>2, <1>3, <1>4 DEF Consider

LEMMA TypesArrive ==
  ASSUME TypeOK, NEW t \in ThreatIds, Arrive(t)
  PROVE  TypeOK'
<1>0. plan[t] \in Drones
  BY DEF Arrive, Inspected, TypeOK
<1>1. CASE NextScanPoint(t)
  BY <1>0, <1>1, InspectionAssumption
  DEF NextScanPoint, Arrive, TypeOK, ThreatsTypeOK, TaskStates, threatVars, senseVars, sectorVars,
      droneVars, policyVars
<1>2. CASE Judge(t)
  <2>1. PICK real \in BOOLEAN : ConfirmThreat(t, real)
    BY <1>2 DEF Judge
  <2>2. ThreatsTypeOK'
    BY <2>1 DEF ConfirmThreat, TypeOK, ThreatsTypeOK, Statuses, Waiting
  <2>3. 0 \in 0..MaxScan
    BY InspectionAssumption
  <2> QED
    BY <1>0, <1>2, <2>2, <2>3
    DEF Judge, Arrive, TypeOK, MissionStates, TaskStates, senseVars, sectorVars, droneVars,
        policyVars
<1>3. CASE Rejoin(t)
  BY <1>0, <1>3
  DEF Rejoin, Arrive, TypeOK, ThreatsTypeOK, MissionStates, TaskStates, threatVars, senseVars,
      droneVars, policyVars
<1> QED
  BY <1>1, <1>2, <1>3 DEF Arrive

LEMMA TypesFault ==
  ASSUME TypeOK, NEW d \in Drones, Fault(d)
  PROVE  TypeOK'
<1>1. faults' \in 0..MaxFaults
  BY InspectionAssumption DEF Fault, TypeOK
<1>2. mission' \in [Drones -> MissionStates]
  BY DEF Fault, TypeOK, MissionStates
<1> QED
  BY <1>1, <1>2
  DEF Fault, TypeOK, ThreatsTypeOK, threatVars, senseVars, policyVars, inspectVars, sectorVars

LEMMA TypesEnvironment ==
  ASSUME TypeOK,
         \/ \E t \in ThreatIds : Older(t)
         \/ \E d \in Drones : Recover(d)
         \/ \E o \in Objects : CooldownEnds(o)
         \/ UNCHANGED vars
  PROVE  TypeOK'
  BY DEF Older, TimePasses, Recover, CooldownEnds, TypeOK, ThreatsTypeOK, vars, threatVars,
         senseVars, policyVars, inspectVars, sectorVars, droneVars, stateVars

\* All variables keep their types.
THEOREM InspectionTypes == Spec => []TypeOK
<1>1. Init => TypeOK
  BY TypesAtFirst
<1>2. TypeOK /\ [Next]_vars => TypeOK'
  BY TypesObserve, TypesReportCrowd, TypesUpdate, TypesConsider, TypesArrive, TypesFault,
     TypesEnvironment DEF Next
<1> QED
  BY <1>1, <1>2, PTL DEF Spec

-----------------------------------------------------------------------------
(* The agreement of manager and executor. *)

\* Numbers not used yet are no threats, and an inspected threat is past doubt.
Books ==
  /\ \A t \in ThreatIds : t > counter => status[t] = "ABSENT"
  /\ \A t \in Inspected : t <= counter /\ status[t] \notin Doubtful

Agreement == Books /\ ConfirmingIsInspected /\ DutyAgrees

LEMMA AgreementAtFirst == Init => Agreement
  BY ThreatsAssumption
  DEF Init, ThreatsInit, Agreement, Books, ConfirmingIsInspected, DutyAgrees, Inspected, Drones

\* A new threat is one that nobody can have in hand.
LEMMA ReportAgrees ==
  ASSUME TypeOK, Agreement, NEW o \in Sources, ReportThreat(o),
         UNCHANGED <<inspectVars, stateVars>>
  PROVE  Agreement'
<1>0. /\ counter' = counter + 1 /\ counter' \in ThreatIds /\ counter \in Nat
      /\ status' = [status EXCEPT ![counter'] = ScoredStatus(o)]
      /\ ScoredStatus(o) \in Doubtful
  BY ThreatsAssumption
  DEF ReportThreat, TypeOK, ThreatsTypeOK, ScoredStatus, Doubtful, ThreatIds
<1>1. status[counter'] = "ABSENT" /\ plan[counter'] = NoDrone
  BY <1>0 DEF Agreement, Books, Inspected
<1>2. Books'
  BY <1>0, <1>1
  DEF Agreement, Books, Inspected, inspectVars, TypeOK, ThreatsTypeOK, ThreatIds
<1>3. \A t \in ThreatIds : status'[t] = "CONFIRMING" <=> status[t] = "CONFIRMING"
  BY <1>0, <1>1 DEF Doubtful, TypeOK, ThreatsTypeOK
<1> QED
  BY <1>2, <1>3
  DEF Agreement, ConfirmingIsInspected, DutyAgrees, Inspected, ReportThreat, inspectVars, stateVars

LEMMA UpdateAgrees ==
  ASSUME TypeOK, Agreement, Update
  PROVE  Agreement'
<1>0. \A t \in ThreatIds : status'[t] = Aged(t)
  BY DEF Update, UpdateThreats
<1>1. \A t \in ThreatIds : status'[t] = "CONFIRMING" <=> status[t] = "CONFIRMING"
  BY <1>0 DEF Aged, Doubtful
<1>2. Books'
  <2>1. \A t \in ThreatIds : status[t] = "ABSENT" => status'[t] = "ABSENT"
    BY <1>0 DEF Aged, Doubtful
  <2>2. \A t \in ThreatIds : status[t] \notin Doubtful => status'[t] \notin Doubtful
    BY <1>0 DEF Aged, Doubtful
  <2> QED
    BY <2>1, <2>2 DEF Agreement, Books, Inspected, Update, UpdateThreats, inspectVars
<1>3. \A t \in ThreatIds : status'[t] = "CONFIRMING" => inspector'[t] = inspector[t]
  BY <1>0 DEF Update, UpdateThreats
<1>4. \A d \in Drones : /\ CalledOff(d) => assigned[d] = 0
                        /\ assigned[d] # 0 => /\ mission'[d] = mission[d]
                                              /\ task'[d] = task[d]
                        /\ task'[d] = "reascend" <=> task[d] = "reascend"
  <2> SUFFICES ASSUME NEW d \in Drones
               PROVE  /\ CalledOff(d) => assigned[d] = 0
                      /\ assigned[d] # 0 => /\ mission'[d] = mission[d]
                                            /\ task'[d] = task[d]
                      /\ task'[d] = "reascend" <=> task[d] = "reascend"
    OBVIOUS
  <2>1. /\ mission'[d] = IF CalledOff(d) THEN "PATROL_HIGH" ELSE mission[d]
        /\ task'[d] = IF CalledOff(d) THEN "idle" ELSE task[d]
    BY DEF Update
  <2>2. assigned[d] = 0 => task[d] \in {"idle", "high_overwatch"}
    BY DEF Agreement, DutyAgrees
  <2> QED
    BY <2>1, <2>2 DEF CalledOff
<1>5. ConfirmingIsInspected'
  <2>1. \A t \in ThreatIds : plan[t] # NoDrone => plan[t] \in Drones
    BY DEF TypeOK
  <2> QED
    BY <1>1, <1>3, <1>4, <2>1
    DEF Agreement, ConfirmingIsInspected, Update, UpdateThreats, inspectVars
<1>6. DutyAgrees'
  <2>1. \A d \in Drones : assigned[d] = 0 => /\ mission'[d] \in {"PATROL_HIGH", "CROWD_OVERWATCH"}
                                             /\ task'[d] \in {"idle", "high_overwatch"}
    BY DEF Agreement, DutyAgrees, Update
  <2> QED
    BY <1>4, <2>1 DEF Agreement, DutyAgrees, Inspected, Update, inspectVars
<1> QED
  BY <1>2, <1>5, <1>6 DEF Agreement

\* Only drones that are free are sent to watch a crowd.
LEMMA OverwatchAgrees ==
  ASSUME TypeOK, Agreement, AssignCrowdOverwatch
  PROVE  Agreement'
<1>1. PICK watch \in SUBSET Free :
        /\ mission' = [d \in Drones |-> IF d \in watch THEN "CROWD_OVERWATCH" ELSE mission[d]]
        /\ task'    = [d \in Drones |-> IF d \in watch THEN "high_overwatch" ELSE task[d]]
  BY DEF AssignCrowdOverwatch
<1>2. \A d \in watch : assigned[d] = 0
  BY DEF Free
<1>3. \A d \in Drones : assigned[d] = 0 => task[d] \in {"idle", "high_overwatch"}
  BY DEF Agreement, DutyAgrees
<1>4. \A d \in Drones : task'[d] = "reascend" <=> task[d] = "reascend"
  BY <1>1, <1>2, <1>3
<1>5. \A t \in ThreatIds : plan[t] # NoDrone => plan[t] \in Drones
  BY DEF TypeOK
<1>6. DutyAgrees'
  BY <1>1, <1>2 DEF Agreement, DutyAgrees, Inspected, AssignCrowdOverwatch, inspectVars
<1> QED
  BY <1>4, <1>5, <1>6
  DEF Agreement, Books, ConfirmingIsInspected, Inspected, AssignCrowdOverwatch, inspectVars,
      threatVars

LEMMA DispatchAgrees ==
  ASSUME TypeOK, Agreement, NEW t \in ThreatIds, NEW d \in Free,
         status[t] \in Doubtful, Dispatch(t, d)
  PROVE  Agreement'
<1>0. d \in Drones /\ assigned[d] = 0 /\ d # NoDrone /\ t # 0
  BY ThreatsAssumption DEF Free, Drones, ThreatIds
<1>1. plan[t] = NoDrone /\ status[t] # "CONFIRMING" /\ t <= counter
  BY ThreatsAssumption
  DEF Agreement, Books, Inspected, Doubtful, TypeOK, ThreatsTypeOK, ThreatIds
<1>2. /\ \A u \in ThreatIds : status'[u] = IF u = t THEN "CONFIRMING" ELSE status[u]
      /\ \A u \in ThreatIds : inspector'[u] = IF u = t THEN d ELSE inspector[u]
      /\ \A u \in ThreatIds : plan'[u] = IF u = t THEN d ELSE plan[u]
      /\ \A x \in Drones : assigned'[x] = IF x = d THEN t ELSE assigned[x]
      /\ \A x \in Drones : task'[x] = IF x = d THEN "ingress" ELSE task[x]
      /\ \A x \in Drones : x # d => mission'[x] = mission[x]
      /\ mission'[d] \in {"DESCEND_CONFIRM", "FACADE_SCAN"}
      /\ shepherds' = shepherds \cup {t} /\ counter' = counter
  BY <1>0 DEF Dispatch, RequestInspection, TypeOK, ThreatsTypeOK
<1>3. \A u \in ThreatIds : plan[u] # NoDrone => plan[u] \in Drones /\ plan[u] # d
  BY <1>0 DEF Agreement, DutyAgrees, Inspected, TypeOK, ThreatIds
<1>4. Books'
  BY <1>1, <1>2 DEF Agreement, Books, Inspected, Doubtful
<1>5. ConfirmingIsInspected'
  BY <1>0, <1>2, <1>3 DEF Agreement, ConfirmingIsInspected
<1>6. DutyAgrees'
  <2>1. \A u \in ThreatIds : plan'[u] # NoDrone => assigned'[plan'[u]] = u
    BY <1>0, <1>2, <1>3 DEF Agreement, DutyAgrees, Inspected
  <2>2. ASSUME NEW x \in Drones, assigned'[x] # 0
        PROVE  plan'[assigned'[x]] = x
    <3>1. CASE x = d
      BY <1>2, <3>1
    <3>2. CASE x # d
      <4>1. assigned'[x] = assigned[x] /\ assigned[x] \in ThreatIds
        BY <1>2, <2>2, <3>2 DEF TypeOK
      <4>2. plan[assigned[x]] = x /\ x # NoDrone
        BY <2>2, <4>1, ThreatsAssumption DEF Agreement, DutyAgrees, Drones
      <4> QED
        BY <1>1, <1>2, <4>1, <4>2
    <3> QED
      BY <3>1, <3>2
  <2> QED
    BY <1>0, <1>2, <2>1, <2>2 DEF Agreement, DutyAgrees, Inspected
<1> QED
  BY <1>4, <1>5, <1>6 DEF Agreement

LEMMA ConsiderAgrees ==
  ASSUME TypeOK, Agreement, NEW t \in ThreatIds, Consider(t)
  PROVE  Agreement'
<1>1. CASE PassOver
  BY <1>1
  DEF PassOver, Agreement, Books, ConfirmingIsInspected, DutyAgrees, Inspected, threatVars,
      inspectVars, stateVars
<1> QED
  BY <1>1, OverwatchAgrees, DispatchAgrees DEF Consider

\* Another threat's inspection is another drone's.
LEMMA ArriveAgrees ==
  ASSUME TypeOK, Agreement, NEW t \in ThreatIds, Arrive(t)
  PROVE  Agreement'
<1> DEFINE d == plan[t]
<1>0. d \in Drones /\ assigned[d] = t /\ t # 0 /\ d # NoDrone
  BY ThreatsAssumption DEF Arrive, Inspected, TypeOK, Agreement, DutyAgrees, ThreatIds, Drones
<1>1. \A u \in ThreatIds : plan[u] # NoDrone /\ u # t => plan[u] \in Drones /\ plan[u] # d
  BY <1>0 DEF Agreement, DutyAgrees, Inspected, TypeOK
<1>2. task[d] \notin {"idle", "high_overwatch"} /\ mission[d] \notin {"PATROL_HIGH", "CROWD_OVERWATCH"}
  BY <1>0 DEF Agreement, DutyAgrees
<1>3. CASE NextScanPoint(t)
  <2>1. /\ \A x \in Drones : x # d => task'[x] = task[x]
        /\ task'[d] = "facade_scan" /\ task[d] # "reascend"
    BY <1>0, <1>3 DEF NextScanPoint, TypeOK
  <2> QED
    BY <1>0, <1>1, <1>3, <2>1
    DEF NextScanPoint, Agreement, Books, ConfirmingIsInspected, DutyAgrees, Inspected, threatVars
<1>4. CASE Judge(t)
  <2>0. PICK real \in BOOLEAN : ConfirmThreat(t, real)
    BY <1>4 DEF Judge
  <2>1. /\ \A u \in ThreatIds : u # t => status'[u] = status[u]
        /\ status'[t] \in {"CONFIRMED", "CLEARED"}
        /\ shepherds' = shepherds \ {t}
        /\ UNCHANGED <<counter, inspector>>
    BY <2>0 DEF ConfirmThreat, TypeOK, ThreatsTypeOK
  <2>2. /\ \A x \in Drones : x # d => task'[x] = task[x] /\ mission'[x] = mission[x]
        /\ task'[d] = "reascend" /\ mission'[d] = "REASCEND_REJOIN"
        /\ UNCHANGED <<plan, assigned>>
    BY <1>0, <1>4 DEF Judge, TypeOK
  <2>3. t \in Inspected
    BY DEF Arrive
  <2>4. Books'
    <3>1. t <= counter /\ status[t] # "ABSENT"
      BY <2>0, <2>3 DEF Agreement, Books, ConfirmThreat
    <3>2. \A u \in ThreatIds : status'[u] \in Doubtful => status[u] \in Doubtful
      BY <2>1 DEF Doubtful
    <3>3. \A u \in ThreatIds : u > counter => status'[u] = "ABSENT"
      BY <2>1, <3>1 DEF Agreement, Books
    <3> QED
      BY <2>1, <2>2, <3>2, <3>3 DEF Agreement, Books, Inspected
  <2>5. ConfirmingIsInspected'
    BY <1>0, <1>1, <2>1, <2>2 DEF Agreement, ConfirmingIsInspected
  <2>6. DutyAgrees'
    BY <1>0, <2>2 DEF Agreement, DutyAgrees, Inspected
  <2> QED
    BY <2>4, <2>5, <2>6 DEF Agreement
<1>5. CASE Rejoin(t)
  <2>1. /\ \A x \in Drones : x # d => /\ task'[x] = task[x] /\ mission'[x] = mission[x]
                                       /\ assigned'[x] = assigned[x]
        /\ task'[d] = "idle" /\ mission'[d] = "PATROL_HIGH" /\ assigned'[d] = 0
        /\ \A u \in ThreatIds : plan'[u] = IF u = t THEN NoDrone ELSE plan[u]
        /\ UNCHANGED threatVars /\ task[d] = "reascend"
    BY <1>0, <1>5 DEF Rejoin, TypeOK
  <2>2. Books'
    BY <2>1 DEF Agreement, Books, Inspected, threatVars
  <2>3. ConfirmingIsInspected'
    BY <1>0, <1>1, <2>1 DEF Agreement, ConfirmingIsInspected, threatVars
  <2>4. DutyAgrees'
    <3>1. \A u \in ThreatIds : plan'[u] # NoDrone => assigned'[plan'[u]] = u
      BY <1>1, <2>1 DEF Agreement, DutyAgrees, Inspected
    <3>2. ASSUME NEW x \in Drones, assigned'[x] # 0
          PROVE  plan'[assigned'[x]] = x
      <4>1. x # d /\ assigned'[x] = assigned[x] /\ assigned[x] \in ThreatIds
        BY <2>1, <3>2 DEF TypeOK
      <4>2. plan[assigned[x]] = x
        BY <3>2, <4>1 DEF Agreement, DutyAgrees
      <4> QED
        BY <2>1, <4>1, <4>2
    <3> QED
      BY <2>1, <3>1, <3>2 DEF Agreement, DutyAgrees, Inspected
  <2> QED
    BY <2>2, <2>3, <2>4 DEF Agreement
<1> QED
  BY <1>3, <1>4, <1>5 DEF Arrive

LEMMA FaultAgrees ==
  ASSUME TypeOK, Agreement, NEW d \in Drones, Fault(d)
  PROVE  Agreement'
<1>1. \A x \in Drones : \/ mission'[x] = mission[x]
                        \/ assigned[x] # 0 /\ mission'[x] = "DEGRADED_SAFE"
  BY DEF Fault, TypeOK
<1> QED
  BY <1>1
  DEF Fault, Agreement, Books, ConfirmingIsInspected, DutyAgrees, Inspected, threatVars, inspectVars

LEMMA EnvironmentAgrees ==
  ASSUME TypeOK, Agreement,
         \/ \E t \in ThreatIds : Older(t)
         \/ \E d \in Drones : Recover(d)
         \/ \E o \in Objects : CooldownEnds(o)
         \/ UNCHANGED vars
  PROVE  Agreement'
  BY DEF Older, TimePasses, Recover, CooldownEnds, Agreement, Books, ConfirmingIsInspected,
         DutyAgrees, Inspected, vars, threatVars, inspectVars, stateVars

LEMMA ReportsAgree ==
  ASSUME TypeOK, Agreement,
         \/ \E o \in Objects, fired \in Firings : Observe(o, fired)
         \/ \E z \in Sources \cap Crowds : ReportCrowd(z)
  PROVE  Agreement'
<1>1. ASSUME NEW o \in Objects, NEW fired \in Firings, Observe(o, fired)
      PROVE  Agreement'
  <2>1. CASE o \in cooling
    BY <1>1, <2>1
    DEF Observe, Agreement, Books, ConfirmingIsInspected, DutyAgrees, Inspected, threatVars,
        inspectVars, stateVars
  <2>2. CASE o \notin cooling
    BY <1>1, <2>2, ReportAgrees DEF Observe, Objects
  <2> QED
    BY <2>1, <2>2
<1>2. ASSUME NEW z \in Sources \cap Crowds, ReportCrowd(z)
      PROVE  Agreement'
  BY <1>2, ReportAgrees DEF ReportCrowd
<1> QED
  BY <1>1, <1>2

\* Types and agreement together are inductive.
THEOREM InspectionInvariant == Spec => [](TypeOK /\ Agreement)
<1>1. Init => TypeOK /\ Agreement
  BY TypesAtFirst, AgreementAtFirst
<1>2. TypeOK /\ Agreement /\ [Next]_vars => TypeOK' /\ Agreement'
  <2>1. TypeOK /\ Agreement /\ [Next]_vars => TypeOK'
    BY TypesObserve, TypesReportCrowd, TypesUpdate, TypesConsider, TypesArrive, TypesFault,
       TypesEnvironment DEF Next
  <2>2. TypeOK /\ Agreement /\ [Next]_vars => Agreement'
    BY ReportsAgree, UpdateAgrees, ConsiderAgrees, ArriveAgrees, FaultAgrees,
       EnvironmentAgrees DEF Next
  <2> QED
    BY <2>1, <2>2
<1> QED
  BY <1>1, <1>2, PTL DEF Spec

\* The threat manager confirms exactly what the executor inspects, through
\* faults, aging and pruning.
THEOREM ConfirmingInspected == Spec => []ConfirmingIsInspected
BY InspectionInvariant, PTL DEF Agreement

\* Assignments, inspections and the state of each drone agree.
THEOREM DutyAgreed == Spec => []DutyAgrees
BY InspectionInvariant, PTL DEF Agreement

-----------------------------------------------------------------------------
(* The sectors.  With several inspectors the neighbours of a later one are *)
(* taken from an earlier one, but what is given back stays so.             *)

LEMMA InspectedFinite == IsFiniteSet(Inspected) /\ Cardinality(Inspected) \in Nat
<1>1. IsFiniteSet(ThreatIds)
  BY FS_Interval, ThreatsAssumption DEF ThreatIds
<1>2. IsFiniteSet(Inspected)
  BY <1>1, FS_Subset DEF Inspected
<1> QED
  BY <1>2, FS_CardinalityType

Exact == GivenBack /\ FilledIn

LEMMA NoneInspects ==
  ASSUME TypeOK, Agreement, MaxInspectors = 1, Cardinality(Inspected) < MaxInspectors
  PROVE  \A x \in Drones : assigned[x] = 0
<1>2. Inspected = {}
  BY InspectedFinite, FS_EmptySet
<1> QED
  BY <1>2, ThreatsAssumption DEF Agreement, DutyAgrees, Inspected, TypeOK, Drones

LEMMA SectorsAtFirst == Init => Exact
  BY InspectionAssumption DEF Init, Exact, GivenBack, FilledIn, Drones

LEMMA DispatchFillsIn ==
  ASSUME TypeOK, Agreement, Exact, MaxInspectors = 1,
         Cardinality(Inspected) < MaxInspectors,
         NEW t \in ThreatIds, NEW d \in Free, Dispatch(t, d)
  PROVE  Exact'
<1>0. /\ d \in Drones /\ d \notin Neighbours[d] /\ Neighbours[d] \subseteq Drones
      /\ t # 0 /\ "degraded" \notin Drones /\ "normal" \notin Drones
  BY InspectionAssumption DEF Free, ThreatIds, Drones
<1>1. \A x \in Drones : assigned[x] = 0
  BY NoneInspects
<1>2. \A x \in Drones : covers[x] = {} /\ backfill[x] \notin Drones /\ backfill[x] # "degraded"
  BY <1>1 DEF Exact, GivenBack, FilledIn, TypeOK
<1>3. /\ \A x \in Drones : assigned'[x] = IF x = d THEN t ELSE 0
      /\ \A x \in Drones : covers'[x] = IF x = d THEN Neighbours[d] ELSE {}
      /\ \A x \in Drones : backfill'[x] = IF x = d THEN "degraded"
                                          ELSE IF x \in Neighbours[d] THEN d ELSE backfill[x]
  BY <1>0, <1>1, <1>2 DEF Dispatch, MarkSectorBackfill, TypeOK
<1> QED
  BY <1>0, <1>2, <1>3 DEF Exact, GivenBack, FilledIn

LEMMA RejoinFillsIn ==
  ASSUME TypeOK, Agreement, Exact, NEW t \in Inspected, Rejoin(t)
  PROVE  Exact'
<1> DEFINE d == plan[t]
<1>0. /\ d \in Drones /\ "degraded" \notin Drones /\ "normal" \notin Drones
      /\ assigned[d] # 0
  BY InspectionAssumption
  DEF Inspected, TypeOK, Drones, Agreement, DutyAgrees, ThreatIds
<1>1. /\ \A x \in Drones : assigned'[x] = IF x = d THEN 0 ELSE assigned[x]
      /\ \A x \in Drones : covers'[x] = IF x = d THEN {} ELSE covers[x]
      /\ \A x \in Drones : backfill'[x] = IF x = d \/ x \in covers[d] THEN "normal"
                                                                     ELSE backfill[x]
  BY <1>0 DEF Rejoin, TypeOK
<1>2. backfill[d] = "degraded" /\ \A x \in Drones : d \notin covers[x]
  BY <1>0 DEF Exact, GivenBack, FilledIn
<1>3. \A x \in covers[d] : x \in Drones /\ backfill[x] = d
  BY <1>0 DEF Exact, GivenBack, FilledIn, TypeOK
<1>4. \A x \in covers[d] : assigned[x] = 0
  BY <1>0, <1>3 DEF Exact, GivenBack, FilledIn
<1>5. \A x \in Drones : covers'[x] = IF assigned'[x] # 0 THEN Neighbours[x] ELSE {}
  BY <1>1 DEF Exact, GivenBack, FilledIn
<1>6. \A x \in Drones : backfill'[x] = "degraded" <=> assigned'[x] # 0
  BY <1>1, <1>4 DEF Exact, GivenBack, FilledIn
<1>7. \A y, x \in Drones : backfill'[x] = y <=> x \in covers'[y]
  BY <1>0, <1>1, <1>2, <1>3 DEF Exact, GivenBack, FilledIn
<1> QED
  BY <1>5, <1>6, <1>7 DEF Exact, GivenBack, FilledIn

LEMMA DispatchGivesBack ==
  ASSUME TypeOK, GivenBack, NEW t \in ThreatIds, NEW d \in Free, Dispatch(t, d)
  PROVE  GivenBack'
<1>0. /\ d \in Drones /\ assigned[d] = 0 /\ t # 0
      /\ "degraded" \notin Drones /\ "normal" \notin Drones
  BY InspectionAssumption DEF Free, ThreatIds
<1>1. /\ \A x \in Drones : assigned'[x] = IF x = d THEN t ELSE assigned[x]
      /\ \A x \in Drones : covers'[x] = IF x = d THEN Neighbours[d] ELSE covers[x]
      /\ \A x \in Drones : backfill'[x] = IF x = d THEN "degraded"
                                          ELSE IF x \in Neighbours[d] THEN d ELSE backfill[x]
  BY <1>0 DEF Dispatch, MarkSectorBackfill, TypeOK
<1>2. covers[d] = {}
  BY <1>0 DEF GivenBack
<1> QED
  BY <1>0, <1>1, <1>2 DEF GivenBack

LEMMA RejoinGivesBack ==
  ASSUME TypeOK, Agreement, GivenBack, NEW t \in Inspected, Rejoin(t)
  PROVE  GivenBack'
<1> DEFINE d == plan[t]
<1>0. /\ d \in Drones /\ "degraded" \notin Drones /\ "normal" \notin Drones
      /\ assigned[d] # 0
  BY InspectionAssumption
  DEF Inspected, TypeOK, Drones, Agreement, DutyAgrees, ThreatIds
<1>1. /\ \A x \in Drones : assigned'[x] = IF x = d THEN 0 ELSE assigned[x]
      /\ \A x \in Drones : covers'[x] = IF x = d THEN {} ELSE covers[x]
      /\ \A x \in Drones : backfill'[x] = IF x = d \/ x \in covers[d] THEN "normal"
                                                                     ELSE backfill[x]
  BY <1>0 DEF Rejoin, TypeOK
<1> HIDE DEF d
<1> QED
  BY <1>0, <1>1 DEF GivenBack

LEMMA OthersKeepSectors ==
  ASSUME TypeOK, UNCHANGED <<sectorVars, assigned>>
  PROVE  GivenBack' = GivenBack /\ Exact' = Exact
  BY DEF Exact, GivenBack, FilledIn, sectorVars

\* Whose sector a candidate's turn of the policy touches.
LEMMA ConsiderIs ==
  ASSUME TypeOK, NEW t \in ThreatIds, Consider(t)
  PROVE  \/ \E d \in Free : Dispatch(t, d) /\ Cardinality(Inspected) < MaxInspectors
         \/ UNCHANGED <<sectorVars, assigned>>
<1>1. CASE \E d \in Free : Decision(t) \in Descents /\ Dispatch(t, d)
  <2>1. ~(Cardinality(Inspected) >= MaxInspectors)
    BY <1>1 DEF Decision, EvaluateThreat, Descents
  <2> QED
    BY <1>1, <2>1, InspectedFinite, InspectionAssumption
<1>2. CASE UNCHANGED <<sectorVars, assigned>>
  BY <1>2
<1> QED
  BY <1>1, <1>2 DEF Consider, AssignCrowdOverwatch, PassOver, inspectVars

LEMMA StepIs ==
  ASSUME [Next]_vars
  PROVE  \/ \E t \in ThreatIds : Consider(t) \/ (t \in Inspected /\ Rejoin(t))
         \/ UNCHANGED <<sectorVars, assigned>>
  BY DEF Next, Observe, ReportCrowd, Update, Arrive, NextScanPoint, Judge, Older, Recover, Fault,
      CooldownEnds, vars, inspectVars

LEMMA StepGivesBack ==
  ASSUME TypeOK, Agreement, GivenBack, [Next]_vars
  PROVE  GivenBack'
<1>1. ASSUME NEW t \in ThreatIds, Consider(t) PROVE GivenBack'
  BY <1>1, ConsiderIs, DispatchGivesBack, OthersKeepSectors
<1>2. ASSUME NEW t \in Inspected, Rejoin(t) PROVE GivenBack'
  BY <1>2, RejoinGivesBack
<1> QED
  BY <1>1, <1>2, StepIs, OthersKeepSectors

LEMMA StepFillsIn ==
  ASSUME TypeOK, Agreement, Exact, MaxInspectors = 1, [Next]_vars
  PROVE  Exact'
<1>1. ASSUME NEW t \in ThreatIds, Consider(t) PROVE Exact'
  BY <1>1, ConsiderIs, DispatchFillsIn, OthersKeepSectors
<1>2. ASSUME NEW t \in Inspected, Rejoin(t) PROVE Exact'
  BY <1>2, RejoinFillsIn
<1> QED
  BY <1>1, <1>2, StepIs, OthersKeepSectors

\* Nobody goes on filling in for a drone that has rejoined, however many drones
\* inspect and fail meanwhile; with one inspector at a time, those it asked
\* fill in until it rejoins.
THEOREM SectorsComeBack == Spec => []SectorsRestored
<1>1. Init => SectorsRestored
  BY SectorsAtFirst DEF Exact, SectorsRestored
<1>2. (TypeOK /\ Agreement /\ SectorsRestored /\ [Next]_vars) => SectorsRestored'
  BY StepGivesBack, StepFillsIn DEF Exact, SectorsRestored
<1> QED
  BY <1>1, <1>2, InspectionInvariant, PTL DEF Spec

-----------------------------------------------------------------------------
(* The implementation of the abstract life cycle, step by step. *)

LEMMA LifeAtFirst ==
  ASSUME Init
  PROVE  Life!LifeInit
  BY ThreatsAssumption
  DEF Init, ThreatsInit, Life!LifeInit, Stage, Inspected, ThreatIds, Drones

\* A report is the birth of a threat.
LEMMA ReportIsBirth ==
  ASSUME TypeOK, Agreement, NEW o \in Sources, ReportThreat(o), UNCHANGED plan
  PROVE  \E t \in ThreatIds : Life!IsBorn(t)
<1>0. /\ counter' = counter + 1 /\ counter' \in ThreatIds /\ counter \in Nat
      /\ status' = [status EXCEPT ![counter'] = ScoredStatus(o)]
      /\ ScoredStatus(o) \in Doubtful
  BY ThreatsAssumption
  DEF ReportThreat, TypeOK, ThreatsTypeOK, ScoredStatus, Doubtful, ThreatIds
<1>1. Stage[counter'] = "UNBORN"
  BY <1>0 DEF Stage
<1>2. Stage' = [Stage EXCEPT ![counter'] = ScoredStatus(o)]
  <2>1. \A t \in ThreatIds : Stage'[t] = IF t = counter' THEN ScoredStatus(o) ELSE Stage[t]
    <3> SUFFICES ASSUME NEW t \in ThreatIds
                 PROVE  Stage'[t] = IF t = counter' THEN ScoredStatus(o) ELSE Stage[t]
      OBVIOUS
    <3>1. CASE t = counter'
      BY <1>0, <3>1 DEF Stage, TypeOK, ThreatsTypeOK, ThreatIds, Doubtful
    <3>2. CASE t # counter'
      <4>1. status'[t] = status[t] /\ (t > counter' <=> t > counter)
        BY <1>0, <3>2 DEF TypeOK, ThreatsTypeOK, ThreatIds
      <4> QED
        BY <3>2, <4>1 DEF Stage
    <3> QED
      BY <3>1, <3>2
  <2> QED
    BY <2>1 DEF Stage
<1>3. Inspected' = Inspected
  BY DEF Inspected
<1>4. ScoredStatus(o) \in Life!Doubtful
  BY <1>0 DEF Doubtful, Life!Doubtful
<1> QED
  BY <1>0, <1>1, <1>2, <1>3, <1>4 DEF Life!IsBorn

LEMMA UpdateIsAging ==
  ASSUME TypeOK, Agreement, Update
  PROVE  \E ts \in SUBSET ThreatIds : Life!ThreatsAge(ts)
<1> DEFINE ts == {t \in ThreatIds : due[t]}
<1>1. Inspected' = Inspected
  BY DEF Inspected, Update, inspectVars
<1>2. \A t \in ThreatIds : Stage'[t] = IF t \in ts THEN Life!Older(Stage[t]) ELSE Stage[t]
  <2> SUFFICES ASSUME NEW t \in ThreatIds
               PROVE  Stage'[t] = IF t \in ts THEN Life!Older(Stage[t]) ELSE Stage[t]
    OBVIOUS
  <2>1. counter' = counter /\ status'[t] = Aged(t)
    BY DEF Update, UpdateThreats
  <2>2. CASE t > counter
    BY <2>1, <2>2 DEF Stage, Life!Older, Life!Doubtful
  <2>3. CASE ~(t > counter)
    BY <2>1, <2>3
    DEF Stage, Aged, Life!Older, Life!Doubtful, Doubtful, TypeOK, ThreatsTypeOK, Statuses, Waiting
  <2> QED
    BY <2>2, <2>3
<1>3. Stage' = [t \in ThreatIds |-> IF t \in ts THEN Life!Older(Stage[t]) ELSE Stage[t]]
  BY <1>2 DEF Stage
<1> QED
  BY <1>1, <1>3 DEF Life!ThreatsAge

LEMMA DispatchIsStart ==
  ASSUME TypeOK, Agreement, NEW t \in ThreatIds, NEW d \in Free,
         status[t] \in Doubtful, Decision(t) \in Descents, Dispatch(t, d)
  PROVE  Life!StartsInspection(t)
<1>0. d \in Drones /\ d # NoDrone /\ counter' = counter
  BY ThreatsAssumption DEF Free, Drones, Dispatch, RequestInspection
<1>1. t <= counter /\ t \notin Inspected
  BY ThreatsAssumption DEF Agreement, Books, Inspected, Doubtful, TypeOK, ThreatsTypeOK, ThreatIds
<1>2. Inspected' = Inspected \cup {t}
  BY <1>0 DEF Inspected, Dispatch, TypeOK
<1>3. ~(Cardinality(Inspected) >= MaxInspectors)
  BY DEF Decision, EvaluateThreat, Descents
<1>4. Cardinality(Inspected) < MaxInspectors
  BY <1>3, InspectedFinite, InspectionAssumption
<1>5. status' = [status EXCEPT ![t] = "CONFIRMING"]
  BY DEF Dispatch, RequestInspection
<1>6. Stage[t] \in Life!Doubtful /\ ~(t > counter)
  BY <1>1, ThreatsAssumption
  DEF Stage, Doubtful, Life!Doubtful, TypeOK, ThreatsTypeOK, ThreatIds
<1>7. Stage' = [Stage EXCEPT ![t] = "CONFIRMING"]
  BY <1>0, <1>5, <1>6 DEF Stage, TypeOK, ThreatsTypeOK
<1>8. Life!Cardinality(Inspected) = Cardinality(Inspected)
  BY DEF Life!Cardinality, Cardinality
<1> QED
  BY <1>1, <1>2, <1>4, <1>6, <1>7, <1>8 DEF Life!StartsInspection

LEMMA JudgeIsVerdict ==
  ASSUME TypeOK, Agreement, NEW t \in Inspected, Judge(t)
  PROVE  Life!IsJudged(t)
<1>0. PICK s \in {"CONFIRMED", "CLEARED"} : status' = [status EXCEPT ![t] = s]
  BY DEF Judge, ConfirmThreat
<1>1. t \in ThreatIds /\ counter' = counter /\ Inspected' = Inspected
  BY DEF Judge, ConfirmThreat, Inspected
<1>2. status[t] = "CONFIRMING"
  BY <1>1 DEF Agreement, ConfirmingIsInspected, Inspected, Judge
<1>3. ~(t > counter)
  BY <1>1, <1>2 DEF Agreement, Books
<1>4. Stage[t] = "CONFIRMING" /\ Stage' = [Stage EXCEPT ![t] = s]
  BY <1>0, <1>1, <1>2, <1>3 DEF Stage, TypeOK, ThreatsTypeOK
<1> QED
  BY <1>1, <1>4 DEF Life!IsJudged

LEMMA RejoinIsEnd ==
  ASSUME TypeOK, Agreement, NEW t \in Inspected, Rejoin(t)
  PROVE  Life!EndsInspection(t)
<1>1. t \in ThreatIds /\ Stage' = Stage
  BY DEF Inspected, Rejoin, threatVars, Stage
<1>2. Inspected' = Inspected \ {t}
  BY DEF Inspected, Rejoin, TypeOK
<1>3. status[t] # "CONFIRMING"
  BY <1>1 DEF Agreement, ConfirmingIsInspected, Rejoin
<1>4. Stage[t] # "CONFIRMING"
  BY <1>1, <1>3 DEF Stage
<1> QED
  BY <1>1, <1>2, <1>4 DEF Life!EndsInspection

LEMMA OthersStutter ==
  ASSUME UNCHANGED <<counter, status, plan>>
  PROVE  UNCHANGED Life!lifeVars
  BY DEF Stage, Inspected, Life!lifeVars

LEMMA StepIsLifeStep ==
  ASSUME TypeOK, Agreement, [Next]_vars
  PROVE  [Life!LifeNext]_(Life!lifeVars)
<1>1. CASE \E o \in Sources : ReportThreat(o) /\ UNCHANGED plan
  BY <1>1, ReportIsBirth DEF Life!LifeNext
<1>2. CASE Update
  BY <1>2, UpdateIsAging DEF Life!LifeNext
<1>3. CASE \E t \in ThreatIds, d \in Free :
             status[t] \in Doubtful /\ Decision(t) \in Descents /\ Dispatch(t, d)
  BY <1>3, DispatchIsStart DEF Life!LifeNext
<1>4. CASE \E t \in Inspected : Judge(t)
  BY <1>4, JudgeIsVerdict DEF Life!LifeNext, Inspected
<1>5. CASE \E t \in Inspected : Rejoin(t)
  BY <1>5, RejoinIsEnd DEF Life!LifeNext, Inspected
<1>6. CASE UNCHANGED <<counter, status, plan>>
  BY <1>6, OthersStutter
<1> QED
  <2>1. CASE \E o \in Objects, fired \in Firings : Observe(o, fired)
    BY <2>1, <1>1, <1>6 DEF Observe, Objects, inspectVars, threatVars
  <2>2. CASE \E z \in Sources \cap Crowds : ReportCrowd(z)
    BY <2>2, <1>1 DEF ReportCrowd, inspectVars
  <2>3. CASE \E t \in ThreatIds : Consider(t)
    BY <2>3, <1>3, <1>6
    DEF Consider, AssignCrowdOverwatch, PassOver, threatVars, inspectVars
  <2>4. CASE \E t \in ThreatIds : Arrive(t)
    BY <2>4, <1>4, <1>5, <1>6 DEF Arrive, NextScanPoint, threatVars
  <2>5. CASE \/ \E t \in ThreatIds : Older(t)
             \/ \E d \in Drones : Fault(d) \/ Recover(d)
             \/ \E o \in Objects : CooldownEnds(o)
             \/ UNCHANGED vars
    BY <2>5, <1>6
    DEF Older, TimePasses, Fault, Recover, CooldownEnds, threatVars, inspectVars, vars
  <2> QED
    BY <2>1, <2>2, <2>3, <2>4, <2>5, <1>2 DEF Next

\* The pipeline implements the safety part of the abstract life cycle: no
\* threat moves backwards, no number is used twice, never more inspections
\* than the policy allows, and none that ends before the verdict.
THEOREM ImplementsLifecycle == Spec => Life!LifeSafety
<1>1. Init => Life!LifeInit
  BY LifeAtFirst
<1>2. TypeOK /\ Agreement /\ [Next]_vars => [Life!LifeNext]_(Life!lifeVars)
  BY StepIsLifeStep
<1> QED
  BY <1>1, <1>2, InspectionInvariant, PTL DEF Spec, Life!LifeSafety

-----------------------------------------------------------------------------
(* The order of the policy.  While the candidates are gone through, a      *)
(* threat that is worth an inspection and has been passed over was passed  *)
(* over because no drone was free; none becomes free before the next tick. *)

PassedOver ==
  queue # {} =>
    \A u \in ThreatIds \ queue :
      status[u] \in Doubtful /\ Decision(u) \in Descents => Free = {}

LEMMA UpdatePassesNone ==
  ASSUME TypeOK, Agreement, Update
  PROVE  PassedOver'
<1>1. \A u \in ThreatIds : status'[u] \in Doubtful => status[u] \in Doubtful
  BY DEF Update, UpdateThreats, Aged, Doubtful
<1>2. \A u \in ThreatIds : status'[u] \in Doubtful => plan[u] = NoDrone
  BY <1>1 DEF Agreement, Books, Inspected
<1>3. \A u \in ThreatIds : status'[u] \in Doubtful => u \in queue'
  BY <1>2 DEF Update, Candidates
<1> QED
  BY <1>3 DEF PassedOver

\* What is not worth an inspection now is not worth one after a dispatch.
LEMMA DispatchHolds ==
  ASSUME TypeOK, NEW t \in ThreatIds, NEW d \in Free, Dispatch(t, d),
         covered' = covered, UNCHANGED evidence,
         NEW u \in ThreatIds, Decision(u)' \in Descents
  PROVE  Decision(u) \in Descents
<1>1. Inspected \subseteq Inspected'
  <2>1. d # NoDrone
    BY ThreatsAssumption DEF Free, Drones
  <2> QED
    BY <2>1 DEF Inspected, Dispatch, TypeOK
<1>2. IsFiniteSet(Inspected')
  <2>1. IsFiniteSet(ThreatIds)
    BY FS_Interval, ThreatsAssumption DEF ThreatIds
  <2>2. Inspected' \subseteq ThreatIds
    BY DEF Inspected
  <2> QED
    BY <2>1, <2>2, FS_Subset
<1>3. Cardinality(Inspected) <= Cardinality(Inspected')
  BY <1>1, <1>2, FS_Subset
<1>4. Cardinality(Inspected') \in Nat
  BY <1>2, FS_CardinalityType
<1>5. Cardinality(Inspected') >= MaxInspectors \/ ~(Cardinality(Inspected) >= MaxInspectors)
  BY <1>3, <1>4, InspectedFinite, InspectionAssumption
<1> QED
  BY <1>5 DEF Decision, EvaluateThreat, Descents, Dispatch, RequestInspection

LEMMA ConsiderPassesRightly ==
  ASSUME TypeOK, Agreement, PassedOver, NEW t \in ThreatIds, Consider(t)
  PROVE  PassedOver'
<1> SUFFICES ASSUME queue' # {}, NEW u \in ThreatIds \ queue',
                    status'[u] \in Doubtful, Decision(u)' \in Descents
             PROVE  Free' = {}
  BY DEF PassedOver
<1>0. /\ queue # {} /\ covered' = covered /\ active' = active /\ UNCHANGED evidence
      /\ u = t \/ u \in ThreatIds \ queue
  BY DEF Consider, TypeOK, senseVars, droneVars
<1>1. CASE \E d \in Free : status[t] \in Doubtful /\ Dispatch(t, d)
  <2>1. PICK d \in Free : Dispatch(t, d)
    BY <1>1
  <2>2. status' = [status EXCEPT ![t] = "CONFIRMING"]
    BY <2>1 DEF Dispatch, RequestInspection
  <2>3. u # t /\ status[u] \in Doubtful
    BY <2>2 DEF Doubtful, TypeOK, ThreatsTypeOK
  <2>4. Decision(u) \in Descents
    BY <2>1, <1>0, DispatchHolds
  <2> QED
    BY <1>0, <2>1, <2>3, <2>4 DEF PassedOver
<1>2. CASE UNCHANGED <<status, source, plan, assigned>>
  <2>1. Decision(u)' = Decision(u) /\ Free' = Free /\ status'[u] = status[u]
    BY <1>0, <1>2 DEF Decision, EvaluateThreat, Inspected, Free
  <2>2. CASE u # t
    BY <1>0, <2>1, <2>2 DEF PassedOver
  <2>3. CASE u = t /\ ~(\E d \in Free : Dispatch(t, d))
    BY <2>1, <2>3 DEF Consider, Descents
  <2>4. CASE u = t /\ \E d \in Free : Dispatch(t, d)
    <3>1. status'[t] = "CONFIRMING"
      BY <2>4 DEF Dispatch, RequestInspection, TypeOK, ThreatsTypeOK
    <3> QED
      BY <2>4, <3>1 DEF Doubtful
  <2> QED
    BY <2>2, <2>3, <2>4
<1> QED
  BY <1>1, <1>2 DEF Consider, AssignCrowdOverwatch, PassOver, threatVars, inspectVars

LEMMA OthersPassNone ==
  ASSUME TypeOK, Agreement, PassedOver, [Next]_vars, ~Update,
         ~ \E t \in ThreatIds : Consider(t)
  PROVE  PassedOver'
<1>1. CASE queue' = {}
  BY <1>1 DEF PassedOver
<1>2. CASE UNCHANGED <<queue, status, source, evidence, covered, plan, active, assigned>>
  <2>1. /\ Free' = Free /\ queue' = queue /\ status' = status
        /\ \A u \in ThreatIds : Decision(u)' = Decision(u)
    BY <1>2 DEF Decision, EvaluateThreat, Inspected, Free
  <2> QED
    BY <2>1 DEF PassedOver
<1> QED
  BY <1>1, <1>2
  DEF Next, Observe, ReportCrowd, Arrive, Older, TimePasses, Fault, Recover, CooldownEnds, Idle,
      vars, threatVars, senseVars, policyVars, inspectVars, droneVars

LEMMA DispatchIsUrgent ==
  ASSUME TypeOK, Agreement, PassedOver, [Next]_vars,
         NEW t \in ThreatIds, plan[t] = NoDrone, plan'[t] # NoDrone,
         NEW u \in ThreatIds, status[u] \in Doubtful, Decision(u) \in Descents
  PROVE  ~Before(u, source[u], t, source[t])
<1>1. PICK c \in ThreatIds : Consider(c) /\ \E d \in Free : Dispatch(c, d)
  <2>1. plan' # plan
    OBVIOUS
  <2>2. ~ \E c \in ThreatIds : Arrive(c)
    BY DEF Arrive, NextScanPoint, Judge, Rejoin, TypeOK
  <2> QED
    BY <2>1, <2>2
    DEF Next, Observe, ReportCrowd, Update, Older, Fault, Recover, CooldownEnds, vars, Consider,
        AssignCrowdOverwatch, PassOver, inspectVars
<1>2. c = t
  BY <1>1 DEF Dispatch, TypeOK
<1>3. u \in queue
  BY <1>1 DEF PassedOver, Consider
<1>4. u = t \/ Before(t, source[t], u, source[u])
  BY <1>1, <1>2, <1>3 DEF Consider, IsFirst
<1>5. RankOf[source[t]] \in Nat /\ RankOf[source[u]] \in Nat
  <2>1. source[t] \in Sources /\ source[u] \in Sources
    BY DEF TypeOK, ThreatsTypeOK
  <2> QED
    BY <2>1, InspectionAssumption
<1>6. t \in Nat /\ u \in Nat
  BY ThreatsAssumption DEF ThreatIds
<1> QED
  BY <1>4, <1>5, <1>6 DEF Before

\* A drone is only ever sent to the most urgent of the threats that are worth
\* an inspection at that moment.
THEOREM UrgentFirst == Spec => MostUrgentFirst
<1>1. Init => PassedOver
  BY DEF Init, PassedOver
<1>2. (TypeOK /\ Agreement /\ PassedOver /\ [Next]_vars) => PassedOver'
  BY UpdatePassesNone, ConsiderPassesRightly, OthersPassNone
<1>3. (TypeOK /\ Agreement /\ PassedOver /\ [Next]_vars)
        => [\A t \in ThreatIds : plan[t] = NoDrone /\ plan'[t] # NoDrone =>
              \A u \in ThreatIds :
                /\ status[u] \in Doubtful
                /\ Decision(u) \in Descents
                => ~Before(u, source[u], t, source[t])]_vars
  BY DispatchIsUrgent
<1> QED
  BY <1>1, <1>2, <1>3, InspectionInvariant, PTL DEF Spec, MostUrgentFirst
===============================================================================
