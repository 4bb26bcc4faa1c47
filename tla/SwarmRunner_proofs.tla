-------------------------- MODULE SwarmRunner_proofs --------------------------
(***************************************************************************)
(* Theorems about SwarmRunner: its types, and that the checkpoints of a    *)
(* mission are reported in the order of the plan, and that no waiting task *)
(* misses a resume or stop, for any checkpoints, number of edits, pauses,  *)
(* stops and missions.                                                     *)
(***************************************************************************)
EXTENDS SwarmRunner, SequenceTheorems, TLAPS

(* What the place of the task in the code says about the rest.             *)
Legs ==
    /\ running <=> at \notin {"off", "scheduled"}
    /\ running => result = "none"
    /\ at \in {"leg", "legwait", "next"} => index <= Len(plan)
    /\ at \in {"leg", "legwait"} => target \in Checkpoints

(* As long as the plan has only grown, and in time, a leg flies to the     *)
(* checkpoint of its index, and the flight home starts behind the last.    *)
Bound ==
    ~edited =>
        /\ at \in {"leg", "legwait"} => index < Len(plan) /\ target = plan[index + 1]
        /\ at = "next" => index < Len(plan)
        /\ at \in {"home", "homeward", "homewait"} => index = Len(plan)

IInv == TypeOK /\ Legs /\ Bound /\ FlownInOrder

(* A checkpoint at the end of a sequence leaves what was before it.        *)
LEMMA AppendFacts ==
    ASSUME NEW S, NEW s \in Seq(S), NEW e \in S
    PROVE  /\ Append(s, e) \in Seq(S)
           /\ Len(Append(s, e)) = Len(s) + 1
           /\ \A k \in 1 .. Len(s) : Append(s, e)[k] = s[k]
           /\ Append(s, e)[Len(s) + 1] = e
    OBVIOUS

(* The report of the next checkpoint of the plan continues the reports.    *)
LEMMA ReportContinues ==
    ASSUME TypeOK, AsPlanned, target \in Checkpoints, Len(flown) = index,
           index < Len(plan), target = plan[index + 1], UNCHANGED plan,
           flown' = Append(flown, target)
    PROVE  AsPlanned' /\ Len(flown') = index + 1
<1>1. Len(flown) \in Nat /\ Len(plan) \in Nat
    BY DEF TypeOK
<1>2. /\ Len(flown') = Len(flown) + 1
      /\ \A k \in 1 .. Len(flown) : flown'[k] = flown[k]
      /\ flown'[Len(flown) + 1] = target
    BY AppendFacts DEF TypeOK
<1>3. ASSUME NEW k \in 1 .. Len(flown')
      PROVE  flown'[k] = plan[k]
    <2>1. CASE k \in 1 .. Len(flown)
        BY <2>1, <1>2 DEF AsPlanned
    <2>2. CASE k = Len(flown) + 1
        BY <2>2, <1>2
    <2> QED BY <1>1, <1>2, <2>1, <2>2
<1> QED BY <1>1, <1>2, <1>3 DEF AsPlanned

(* Reports in the order of the plan, as many as it has, are the plan.      *)
LEMMA AllReported ==
    ASSUME TypeOK, AsPlanned, Len(flown) = Len(plan)
    PROVE  flown = plan
BY SeqEqual DEF TypeOK, AsPlanned

(* Every step of the task keeps the invariant.                             *)
LEMMA BeginKeeps == ASSUME IInv, Begin PROVE IInv'
<1> USE DEF IInv
<1>0. plan # <<>> => plan[1] \in Checkpoints /\ Len(plan) >= 1
    BY DEF TypeOK
<1>1. TypeOK'
    <2>1. <<>> \in Seq(Checkpoints) /\ Len(plan) \in Nat
        BY DEF TypeOK
    <2>2. CASE plan = <<>>
        BY <2>2 DEF TypeOK, Begin, Where, Waits
    <2>3. CASE plan # <<>>
        <3>1. index' \in 0 .. Len(plan) + 1 /\ flown' \in Seq(Checkpoints) /\ UNCHANGED plan
            BY <2>1, <2>3 DEF Begin
        <3>2. target' \in Checkpoints \cup {"none"} /\ at' \in Where
            BY <1>0, <2>3 DEF TypeOK, Begin, Where, Waits
        <3> QED BY <2>3, <3>1, <3>2 DEF TypeOK, Begin, Phases, States
    <2> QED BY <2>2, <2>3
<1>2. Legs' /\ Bound'
    BY <1>0 DEF TypeOK, Begin, Legs, Bound
<1>3. FlownInOrder'
    <2>1. CASE plan = <<>>
        BY <2>1 DEF TypeOK, Begin, FlownInOrder, AsPlanned, Reported, Legs
    <2>2. CASE plan # <<>>
        <3>1. Len(flown') = 0 /\ index' = 0 /\ phase' = "TRANSIT" /\ result' = "none" /\ plan' = plan
            BY <2>2 DEF Begin
        <3> QED BY <3>1 DEF TypeOK, FlownInOrder, AsPlanned, Reported
    <2> QED BY <2>1, <2>2
<1> QED BY <1>1, <1>2, <1>3

LEMMA TickKeeps ==
    ASSUME IInv, Tick(Lasts) \/ Tick(Arrives), at \in {"leg", "legwait"},
           woken' \in BOOLEAN, UNCHANGED env
    PROVE  IInv'
<1> USE DEF IInv
<1>1. flown' \in Seq(Checkpoints) /\ phase' \in Phases
    <2>1. CASE Tick(Lasts)
        BY <2>1 DEF Tick, Lasts, TypeOK
    <2>2. CASE Tick(Arrives)
        <3>1. phase' \in Phases
            BY <2>2 DEF Tick, Arrives, Follows, TypeOK, Phases
        <3>2. Append(flown, target) \in Seq(Checkpoints)
            BY AppendFacts DEF TypeOK, Legs
        <3> QED BY <2>2, <3>1, <3>2 DEF Tick, Arrives, TypeOK
    <2> QED BY <2>1, <2>2
<1>2. TypeOK'
    BY <1>1 DEF TypeOK, Tick, Goes, ending, env, Where, Waits
<1>3. Legs' /\ Bound'
    BY DEF Legs, Bound, Tick, Goes, ending, env
<1>4. ASSUME running, ~edited
      PROVE  AsPlanned' /\ Len(flown') = Reported'
    <2>1. CASE Tick(Arrives) /\ phase = "ACHIEVED"
        <3>1. Len(flown) = index /\ AsPlanned
            BY <1>4, <2>1 DEF FlownInOrder, Reported, TypeOK
        <3>2. AsPlanned' /\ Len(flown') = index + 1
            BY <1>4, <2>1, <3>1, ReportContinues DEF Legs, Bound, Tick, Arrives, env
        <3> QED BY <2>1, <3>2 DEF Reported, Tick, Arrives, Goes, Follows
    <2>2. CASE Tick(Arrives) /\ phase # "ACHIEVED"
        <3>1. (phase \in {"DESCEND", "READY"}) <=> (phase' \in {"DESCEND", "READY"})
            BY <2>2 DEF Tick, Arrives, Follows, TypeOK, Phases
        <3> QED BY <1>4, <2>2, <3>1 DEF FlownInOrder, AsPlanned, Reported, Tick, Arrives, Goes, env
    <2>3. CASE Tick(Lasts)
        BY <1>4, <2>3 DEF FlownInOrder, AsPlanned, Reported, Tick, Lasts, Goes, env
    <2> QED BY <2>1, <2>2, <2>3
<1>5. running /\ result # "True"
    BY DEF Legs
<1>6. FlownInOrder'
    BY <1>4, <1>5 DEF FlownInOrder, Tick, Goes, ending, env
<1> QED BY <1>2, <1>3, <1>6

(* A step that ends the mission, or moves the task between waits, without  *)
(* a new report.                                                           *)
LEMMA HeadWokenKeeps == ASSUME IInv, HeadWoken PROVE IInv'
<1> USE DEF IInv
<1>0. index < Len(plan) => plan[index + 1] \in Checkpoints
    BY DEF TypeOK
<1>1. TypeOK'
    BY <1>0 DEF TypeOK, HeadWoken, Wakes, Goes, Ends, ending, env, Where, Waits, Phases, States
<1>2. Legs' /\ Bound'
    BY <1>0 DEF TypeOK, Legs, Bound, HeadWoken, Wakes, Goes, Ends, ending, env
<1>3. FlownInOrder'
    BY DEF TypeOK, Legs, FlownInOrder, AsPlanned, Reported, HeadWoken, Wakes, Goes, Ends, ending, env
<1> QED BY <1>1, <1>2, <1>3

LEMMA LegHaltsKeeps == ASSUME IInv, LegHalts PROVE IInv'
<1> USE DEF IInv
<1>1. TypeOK'
    BY DEF TypeOK, LegHalts, Goes, Ends, ending, env, Where, Waits, States
<1>2. Legs' /\ Bound'
    BY DEF TypeOK, Legs, Bound, LegHalts, Goes, Ends, ending, env
<1>3. FlownInOrder'
    BY DEF TypeOK, Legs, FlownInOrder, AsPlanned, Reported, LegHalts, Goes, Ends, ending, env
<1> QED BY <1>1, <1>2, <1>3

(* A checkpoint that is done has been reported, and the next one is the    *)
(* next of the plan.                                                       *)
LEMMA LegOverKeeps == ASSUME IInv, LegOver PROVE IInv'
<1> USE DEF IInv
<1>0. /\ index + 1 < Len(plan) => plan[(index + 1) + 1] \in Checkpoints
      /\ index \in Nat /\ Len(plan) \in Nat /\ index <= Len(plan) /\ Len(flown) \in Nat
    BY DEF TypeOK, Legs, LegOver
<1>1. TypeOK'
    <2>1. index' = index + 1 /\ UNCHANGED <<env, woken, flown>>
        BY DEF LegOver, NextCheckpoint
    <2>2. phase' \in Phases /\ at' \in Where /\ state' \in States
        BY DEF TypeOK, LegOver, NextCheckpoint, Heads, Goes, Ends, ending, Where, Waits, Phases, States
    <2>3. running' \in BOOLEAN /\ result' \in {"True", "False", "none"}
        BY DEF TypeOK, LegOver, NextCheckpoint, Heads, Goes, Ends, ending
    <2>4. target' \in Checkpoints \cup {"none"}
        BY <1>0 DEF TypeOK, LegOver, NextCheckpoint, Heads, Goes, Ends
    <2> QED BY <1>0, <2>1, <2>2, <2>3, <2>4 DEF TypeOK, env
<1>2. Legs' /\ Bound'
    <2>1. index' = index + 1 /\ UNCHANGED <<plan, edited>>
        BY DEF LegOver, NextCheckpoint, env
    <2>2. CASE at' = "off"
        BY <2>1, <2>2 DEF Legs, Bound, LegOver, NextCheckpoint, Heads, Goes, Ends, ending
    <2>3. CASE at' = "home"
        <3>1. running' /\ result' = "none" /\ index + 1 >= Len(plan)
            BY <2>3 DEF Legs, LegOver, NextCheckpoint, Heads, Goes, Ends, ending
        <3>2. ~edited => index < Len(plan)
            BY DEF Bound, LegOver
        <3> QED BY <1>0, <2>1, <2>3, <3>1, <3>2 DEF Legs, Bound
    <2>4. CASE at' \in {"leg", "next"}
        <3>1. running' /\ result' = "none" /\ index + 1 < Len(plan)
            BY <2>4 DEF Legs, LegOver, NextCheckpoint, Heads, Goes, Ends, ending
        <3>2. at' = "leg" => target' = plan[(index + 1) + 1]
            BY <2>4 DEF LegOver, NextCheckpoint, Heads, Goes, Ends
        <3> QED BY <1>0, <2>1, <2>4, <3>1, <3>2 DEF Legs, Bound
    <2> QED BY <2>2, <2>3, <2>4 DEF LegOver, NextCheckpoint, Heads, Goes, Ends
<1>3. ~edited => AsPlanned' /\ Len(flown') = index + 1 /\ index < Len(plan)
    BY <1>0 DEF Legs, Bound, FlownInOrder, AsPlanned, Reported, LegOver, env
<1>4. (~edited /\ index + 1 >= Len(plan)) => flown = plan
    <2> SUFFICES ASSUME ~edited, index + 1 >= Len(plan)
                 PROVE  flown = plan
        OBVIOUS
    <2>1. AsPlanned /\ Len(flown) = index + 1 /\ index < Len(plan)
        BY DEF Legs, Bound, FlownInOrder, Reported, LegOver
    <2> QED BY <1>0, <2>1, AllReported
<1>5. FlownInOrder'
    <2>1. (running' /\ ~edited') => (AsPlanned' /\ Len(flown') = Reported')
        <3>1. running' => Reported' = index + 1
            BY DEF LegOver, NextCheckpoint, Heads, Goes, Ends, Reported
        <3> QED BY <1>3, <3>1 DEF LegOver, env
    <2>2. (result' = "True" /\ ~edited') => flown' = plan'
        BY <1>4 DEF Legs, LegOver, NextCheckpoint, Heads, Goes, Ends, ending, env
    <2> QED BY <2>1, <2>2 DEF FlownInOrder
<1> QED BY <1>1, <1>2, <1>5

(* The flight home.                                                        *)
LEMMA HomeKeeps == ASSUME IInv, HomeTurn \/ HomeWoken \/ HomeReached PROVE IInv'
<1> USE DEF IInv
<1>1. TypeOK'
    BY DEF TypeOK, HomeTurn, HomeWoken, HomeReached, Wakes, Goes, Ends, ending, env, Where, Waits, States
<1>2. Legs' /\ Bound'
    BY DEF Legs, Bound, HomeTurn, HomeWoken, HomeReached, Wakes, Goes, Ends, ending, env
<1>3. (HomeReached /\ ~edited) => flown = plan
    <2> SUFFICES ASSUME HomeReached, ~edited
                 PROVE  flown = plan
        OBVIOUS
    <2>1. AsPlanned /\ Len(flown) = Len(plan)
        BY DEF Legs, Bound, FlownInOrder, Reported, HomeReached
    <2> QED BY <2>1, AllReported
<1>4. FlownInOrder'
    BY <1>3 DEF Legs, FlownInOrder, AsPlanned, Reported, HomeTurn, HomeWoken, HomeReached, Wakes, Goes, Ends, ending, env
<1> QED BY <1>1, <1>2, <1>4

(* The operator.                                                           *)
LEMMA AddKeeps ==
    ASSUME IInv, NEW c \in Checkpoints, AddCheckpoint(c)
    PROVE  IInv'
<1> USE DEF IInv
<1>0. /\ plan' \in Seq(Checkpoints)
      /\ Len(plan') = Len(plan) + 1
      /\ \A k \in 1 .. Len(plan) : plan'[k] = plan[k]
      /\ Len(plan) \in Nat /\ Len(flown) \in Nat
    BY AppendFacts DEF TypeOK, AddCheckpoint
<1>1. TypeOK'
    BY <1>0, RunnerAssumption DEF TypeOK, AddCheckpoint, ending
<1>2. Legs' /\ Bound'
    BY <1>0 DEF TypeOK, Legs, Bound, AddCheckpoint, ending
<1>3. FlownInOrder'
    <2>1. (running' /\ ~edited') => (AsPlanned' /\ Len(flown') = Reported')
        <3>1. (running' /\ ~edited') => (running /\ ~edited)
            BY DEF AddCheckpoint, ending
        <3>2. (running' /\ ~edited') => (AsPlanned /\ Len(flown) = Reported)
            BY <3>1 DEF FlownInOrder
        <3>3. Reported' = Reported /\ flown' = flown
            BY DEF Reported, AddCheckpoint
        <3>4. AsPlanned => AsPlanned'
            BY <1>0, <3>3 DEF AsPlanned
        <3> QED BY <3>2, <3>3, <3>4
    <2>2. (result' = "True") => edited'
        BY DEF Legs, TypeOK, AddCheckpoint, ending, Where, Waits
    <2> QED BY <2>1, <2>2 DEF FlownInOrder
<1> QED BY <1>1, <1>2, <1>3

LEMMA ClearKeeps == ASSUME IInv, ClearCheckpoints PROVE IInv'
<1> USE DEF IInv
<1>0. plan' = <<>> /\ Len(plan') = 0 /\ plan' \in Seq(Checkpoints) /\ index' = 0 /\ edited'
    BY DEF ClearCheckpoints
<1>1. TypeOK'
    BY <1>0, RunnerAssumption DEF TypeOK, ClearCheckpoints, ending
<1>2. Legs' /\ Bound'
    BY <1>0 DEF Legs, Bound, ClearCheckpoints, ending
<1>3. FlownInOrder'
    BY <1>0 DEF FlownInOrder
<1> QED BY <1>1, <1>2, <1>3

LEMMA CommandsKeep ==
    ASSUME IInv, StartMission \/ Pause \/ Resume \/ Stop
    PROVE  IInv'
<1> USE DEF IInv
<1>1. TypeOK'
    BY DEF TypeOK, StartMission, Pause, Resume, Stop, Open, ending, env, Where, Waits, States
<1>2. UNCHANGED <<plan, index, phase, running, result, target, flown, edited>>
    BY DEF StartMission, Pause, Resume, Stop, ending
<1>3. CASE StartMission
    <2>1. ~running /\ at = "off" /\ at' = "scheduled"
        BY <1>3 DEF StartMission, Legs
    <2> QED BY <1>1, <1>2, <2>1 DEF Legs, Bound, FlownInOrder
<1>4. CASE UNCHANGED at
    <2>1. Legs' /\ Bound'
        BY <1>2, <1>4 DEF Legs, Bound
    <2>2. AsPlanned' = AsPlanned /\ Reported' = Reported
        BY <1>2, <1>4 DEF AsPlanned, Reported
    <2> QED BY <1>1, <1>2, <2>1, <2>2 DEF FlownInOrder
<1> QED BY <1>3, <1>4 DEF Pause, Resume, Stop

(* The inductive invariant: the types, the place of the task, and the plan *)
(* it works through.                                                       *)
THEOREM RunnerInvariant == Spec => []IInv
<1>1. Init => IInv
    <2> SUFFICES ASSUME Init
                 PROVE  IInv
        OBVIOUS
    <2>1. plan \in Seq(Checkpoints) /\ flown \in Seq(Checkpoints) /\ Len(plan) = 0
        BY EmptySeq DEF Init
    <2>2. TypeOK
        <3>1. {running, gate, stopping, home, woken, pumped, edited} \subseteq BOOLEAN
            BY DEF Init
        <3>2. index \in 0 .. Len(plan) + 1 /\ edits \in 0 .. MaxEdits
            BY <2>1, RunnerAssumption DEF Init
        <3>3. phase \in Phases /\ state \in States /\ at \in Where
            BY DEF Init, Phases, States, Where
        <3> QED BY <2>1, <3>1, <3>2, <3>3 DEF Init, TypeOK
    <2>3. Legs /\ Bound /\ FlownInOrder
        BY DEF Init, Legs, Bound, FlownInOrder
    <2> QED BY <2>2, <2>3 DEF IInv
<1>2. IInv /\ [Next]_vars => IInv'
    <2> SUFFICES ASSUME IInv, [Next]_vars
                 PROVE  IInv'
        OBVIOUS
    <2>1. CASE Begin
        BY <2>1, BeginKeeps
    <2>2. CASE HeadWoken
        BY <2>2, HeadWokenKeeps
    <2>3. CASE LegHalts
        BY <2>3, LegHaltsKeeps
    <2>4. CASE LegWoken
        BY <2>4, TickKeeps DEF LegWoken, Wakes
    <2>5. CASE LegOver
        BY <2>5, LegOverKeeps
    <2>6. CASE LegTurn(Lasts) \/ LegTurn(Arrives)
        <3>1. woken' \in BOOLEAN /\ at = "leg" /\ UNCHANGED env
            BY <2>6 DEF LegTurn, IInv, TypeOK
        <3>2. Tick(Lasts) \/ Tick(Arrives)
            BY <2>6 DEF LegTurn
        <3> QED BY <3>1, <3>2, TickKeeps
    <2>7. CASE HomeTurn \/ HomeWoken \/ HomeReached
        BY <2>7, HomeKeeps
    <2>8. CASE \E c \in Checkpoints : AddCheckpoint(c)
        BY <2>8, AddKeeps
    <2>9. CASE ClearCheckpoints
        BY <2>9, ClearKeeps
    <2>10. CASE StartMission \/ Pause \/ Resume \/ Stop
        BY <2>10, CommandsKeep
    <2>11. CASE UNCHANGED vars
        BY <2>11 DEF vars, env, ending, IInv, TypeOK, Legs, Bound, FlownInOrder, AsPlanned, Reported
    <2> QED
        BY <2>1, <2>2, <2>3, <2>4, <2>5, <2>6, <2>7, <2>8, <2>9, <2>10, <2>11 DEF Next, Execute, Turns, Resumes, Operator
<1> QED BY <1>1, <1>2, PTL DEF Spec

(* The state keeps its shape.                                              *)
THEOREM RunnerTypes == Spec => []TypeOK
BY RunnerInvariant, PTL DEF IInv

(* Checkpoints are reported in the order of the plan, each once, and a     *)
(* mission that returns True has reported all of them, as long as the plan *)
(* is only extended and in time.                                           *)
THEOREM CheckpointsInOrder == Spec => []FlownInOrder
BY RunnerInvariant, PTL DEF IInv

-----------------------------------------------------------------------------
(* The safety half of MissionEnds: at a wait of its loop the task is       *)
(* either due to go on or held by a pause, and never held against a stop.  *)
NoLostWakeup ==
    /\ woken => at \in Waits
    /\ at \in Waits /\ ~woken => ~gate /\ ~stopping

LEMMA TaskKeepsWakeups == ASSUME NoLostWakeup, Execute PROVE NoLostWakeup'
<1>1. CASE Begin
    <2>1. ~woken /\ woken' = woken
        BY <1>1 DEF NoLostWakeup, Begin, Waits
    <2>2. at' \in {"off", "leg"} \/ (at' = "next" /\ ~gate' /\ ~stopping')
        BY <1>1 DEF Begin
    <2> QED BY <2>1, <2>2 DEF NoLostWakeup, Waits
<1>2. CASE HeadWoken \/ LegWoken \/ HomeWoken
    <2>1. ~woken'
        BY <1>2 DEF HeadWoken, LegWoken, HomeWoken, Wakes
    <2>2. at' \in {"leg", "off", "homeward"}
        BY <1>2 DEF HeadWoken, LegWoken, HomeWoken, Tick, Goes, Ends
    <2> QED BY <2>1, <2>2 DEF NoLostWakeup, Waits
<1>3. CASE LegHalts \/ LegOver \/ LegTurn(Lasts) \/ LegTurn(Arrives) \/ HomeTurn \/ HomeReached
    <2>1. at \notin Waits /\ UNCHANGED <<woken, gate, stopping>>
        BY <1>3 DEF LegHalts, LegOver, LegTurn, HomeTurn, HomeReached, env, Waits
    <2>2. at' \in Waits => ~gate /\ ~stopping
        BY <1>3 DEF LegHalts, LegOver, LegTurn, HomeTurn, HomeReached, NextCheckpoint, Heads,
                    Tick, Goes, Ends, Waits
    <2> QED BY <2>1, <2>2 DEF NoLostWakeup
<1> QED BY <1>1, <1>2, <1>3 DEF Execute, Turns, Resumes

LEMMA OperatorKeepsWakeups == ASSUME NoLostWakeup, Operator PROVE NoLostWakeup'
<1>1. CASE StartMission
    BY <1>1 DEF NoLostWakeup, StartMission, Waits
<1>2. CASE Stop \/ Resume
    BY <1>2 DEF NoLostWakeup, Stop, Resume, Open
<1>3. CASE Pause
    BY <1>3 DEF NoLostWakeup, Pause
<1>4. CASE ClearCheckpoints \/ \E c \in Checkpoints : AddCheckpoint(c)
    BY <1>4 DEF NoLostWakeup, ClearCheckpoints, AddCheckpoint
<1> QED BY <1>1, <1>2, <1>3, <1>4 DEF Operator

(* No pause, resume or stop is lost between the task and its operators,    *)
(* whichever of execute()'s three waits they meet.  What MissionEnds adds  *)
(* is that a woken task gets its turn when the loop goes round.            *)
THEOREM WakeupsAreKept == Spec => []NoLostWakeup
<1>1. Init => NoLostWakeup
    BY DEF Init, NoLostWakeup, Waits
<1>2. NoLostWakeup /\ [Next]_vars => NoLostWakeup'
    BY TaskKeepsWakeups, OperatorKeepsWakeups DEF Next, vars, env, NoLostWakeup
<1> QED BY <1>1, <1>2, PTL DEF Spec
=============================================================================
