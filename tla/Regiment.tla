------------------------------ MODULE Regiment ------------------------------
(***************************************************************************)
(* AlphaRegimentCoordinator: every drone keeps a table of the regiment's   *)
(* members and gives each a sector of the surveyed area                    *)
(* (src/src/swarm/coordination/regiment_coordinator.py), and the tick that *)
(* drives the coordinators in one process: own state, gossip to the        *)
(* nearest neighbours, coordination step (scenario_executor.py).           *)
(*                                                                         *)
(* Abstracted: positions, so that any drones may be the nearest ones and   *)
(* the greedy match of drones to vertices may be any match; a triangle's   *)
(* waypoints are two pieces; heartbeat ages count ticks.  A drone outside  *)
(* Coordinators has no table of its own here: its payload reaches any.     *)
(***************************************************************************)
EXTENDS Integers, Sequences, FiniteSets

CONSTANTS
    N,              \* REGIMENT_SIZE, the number of drones and of vertices
    Coordinators,   \* the drones whose table is part of the state
    Fanout,         \* nearest neighbours a payload is addressed to
    Timeout         \* ticks of silence a member survives (5 s)

Drones == 0 .. N - 1
Vertex == 0 .. N - 1

ASSUME RegimentAssumption ==
    /\ N \in Nat /\ N >= 3
    /\ Coordinators \subseteq Drones
    /\ Fanout \in Nat
    /\ Timeout \in Nat

VARIABLES
    up,         \* the drones that fly (DroneState.active of the executor)
    order,      \* order[i]: i's _members, in the order they were registered
    active,     \* active[i]: the members with is_active
    age,        \* age[i][d]: ticks since last_heartbeat, up to Timeout + 1
    sector      \* sector[i][d]: what i's table has d survey

vars == <<up, order, active, age, sector>>

-----------------------------------------------------------------------------
(* Sectors.                                                                *)

Piece == Vertex \X {1, 2}
Unassigned == [kind |-> "none"]
Triangle(v, points) == [kind |-> "triangle", vertex |-> v, points |-> points]
Plain(k, n) == [kind |-> "plain", slot |-> k, of |-> n]
Sector ==
    {Unassigned}
    \cup [kind : {"triangle"}, vertex : Vertex, points : Seq(Piece)]
    \cup {s \in [kind : {"plain"}, slot : 0 .. N - 1, of : 1 .. N] : s.slot < s.of}

Lawnmower(v) == << <<v, 1>>, <<v, 2>> >>

Members(i) == {order[i][k] : k \in DOMAIN order[i]}
Before(i, d, e) ==
    \E j, k \in DOMAIN order[i] : j < k /\ order[i][j] = d /\ order[i][k] = e

\* The plan for the active members S that are fewer than the regiment: the
\* positions of the pattern are dealt out in the order of registration.
\* (Plausible bug, for a mutation run: the first position is skipped.)
PlainPlan_FromOne(i, S) ==
    [d \in S |-> Plain(Cardinality({e \in S : e = d \/ Before(i, e, d)}), Cardinality(S))]
PlainPlan(i, S) ==
    [d \in S |-> Plain(Cardinality({e \in S : Before(i, e, d)}), Cardinality(S))]

\* (A plausible bug, for a mutation run.)
Match_NotRemoved(S) == [S -> Vertex]
\* Each member takes the closest vertex that is still available.
Match(S) == {f \in [S -> Vertex] : \A d, e \in S : f[d] = f[e] => d = e}
TrianglePlan(f) == [d \in DOMAIN f |-> Triangle(f[d], Lawnmower(f[d]))]

\* _assign_sectors for the active members S; who is not in S keeps its sector.
Plans(i, S) ==
    IF Cardinality(S) = N THEN {TrianglePlan(f) : f \in Match(S)} ELSE {PlainPlan(i, S)}
Reassigned(old, plan) ==
    [d \in Drones |-> IF d \in DOMAIN plan THEN plan[d] ELSE old[d]]

Left(v) == IF v = 0 THEN N - 1 ELSE v - 1
Right(v) == IF v = N - 1 THEN 0 ELSE v + 1
HoldsVertex(i, d, v) == sector[i][d].kind = "triangle" /\ sector[i][d].vertex = v

\* Half of a lost drone's waypoints goes to each neighbour on the ring.
FirstHalf(points) == SubSeq(points, 1, Len(points) \div 2)
\* (A plausible bug, for a mutation run.)
SecondHalf_SkipsOne(points) == SubSeq(points, (Len(points) \div 2) + 2, Len(points))
SecondHalf(points) == SubSeq(points, (Len(points) \div 2) + 1, Len(points))

Expanded(s, points) == Triangle(s.vertex, s.points \o points)
HandedOver(i, d) ==
    LET v == sector[i][d].vertex
    IN  [e \in Drones |->
            IF e = d THEN Unassigned
            ELSE IF HoldsVertex(i, e, Left(v))
            THEN Expanded(sector[i][e], FirstHalf(sector[i][d].points))
            ELSE IF HoldsVertex(i, e, Right(v))
            THEN Expanded(sector[i][e], SecondHalf(sector[i][d].points))
            ELSE sector[i][e]]

-----------------------------------------------------------------------------
(* Membership.                                                             *)

\* The set-up registers the drone itself and then every drone in turn; the
\* last registration assigns the triangles.
SetUp(i) == [k \in 1 .. N |-> IF k = 1 THEN i ELSE IF k - 1 <= i THEN k - 2 ELSE k - 1]

Init ==
    /\ up = Drones
    /\ order = [i \in Coordinators |-> SetUp(i)]
    /\ active = [i \in Coordinators |-> Drones]
    /\ age = [i \in Coordinators |-> [d \in Drones |-> 0]]
    /\ \E match \in [Coordinators -> Match(Drones)] :
        sector = [i \in Coordinators |-> TrianglePlan(match[i])]

Register(i, d) ==
    /\ d \notin Members(i)
    /\ order' = [order EXCEPT ![i] = Append(@, d)]
    /\ active' = [active EXCEPT ![i] = @ \cup {d}]
    /\ age' = [age EXCEPT ![i][d] = 0]
    /\ IF Len(order[i]) + 1 = N
       THEN \E plan \in Plans(i, active[i] \cup {d})' :
                sector' = [sector EXCEPT ![i] = Reassigned(@, plan)]
       ELSE UNCHANGED sector
    /\ UNCHANGED up

Without(i, k) == SubSeq(order[i], 1, k - 1) \o SubSeq(order[i], k + 1, Len(order[i]))

\* A drone is not removed from its own table.
Unregister(i, d) ==
    /\ d # i
    /\ \E k \in DOMAIN order[i] :
        order[i][k] = d /\ order' = [order EXCEPT ![i] = Without(i, k)]
    /\ active' = [active EXCEPT ![i] = @ \ {d}]
    /\ age' = [age EXCEPT ![i][d] = 0]
    /\ IF sector[i][d].kind = "triangle"
       THEN sector' = [sector EXCEPT ![i] = HandedOver(i, d)]
       ELSE sector' = [sector EXCEPT ![i] =
                Reassigned([@ EXCEPT ![d] = Unassigned], PlainPlan(i, active[i] \ {d}))]
    /\ UNCHANGED up

\* reassign_sectors_for_radius: every member, active or not, gets a triangle.
ReassignForRadius(i) ==
    /\ \E f \in Match(Members(i)) :
        sector' = [sector EXCEPT ![i] = Reassigned(@, TrianglePlan(f))]
    /\ UNCHANGED <<up, order, active, age>>

-----------------------------------------------------------------------------
(* The tick.                                                               *)

\* The tables a payload of j may be ingested by: the nearest neighbours that
\* are active in j's own table.
Addressees(j) ==
    IF j \notin up THEN {{}}
    ELSE IF j \notin Coordinators THEN SUBSET Coordinators
    ELSE LET others == active[j] \ {j}
         IN  {T \cap Coordinators : T \in
                {T \in SUBSET others : \/ Cardinality(T) = Fanout
                                       \/ T = others /\ Cardinality(T) < Fanout}}

\* What the tables hear in a tick: heard[i] has the members whose state
\* reaches i, its own and those gossip brings.
Deliveries ==
    {[i \in Coordinators |-> {d \in Members(i) : IF d = i THEN i \in up ELSE i \in to[d]}] :
        to \in {to \in [Drones -> SUBSET Coordinators] :
                    \A j \in Drones : to[j] \in Addressees(j)}}

\* The code compares time stamps; here the silence is counted, as far as the
\* comparison can tell ages apart.
Aged(i, heard) ==
    [d \in Drones |-> IF d \in heard THEN 0
                      ELSE IF d \in Members(i) /\ age[i][d] <= Timeout THEN age[i][d] + 1
                      ELSE age[i][d]]

\* (A plausible bug, for a mutation run.)
Silent_Longer(ages) == {d \in Drones : ages[d] > Timeout + 1}
Silent(ages) == {d \in Drones : ages[d] > Timeout}

\* _check_member_health walks the table of the members awake and reassigns
\* after every one it gives up: one that is given up later in the walk has
\* taken part in the reassignments before it.
AfterHealthCheck(i, awake, lost) ==
    LET gone(d) == {e \in lost : d \in lost => Before(i, e, d)}
    IN  [d \in Drones |-> IF d \in awake /\ gone(d) # {}
                          THEN PlainPlan(i, awake \ gone(d))[d]
                          ELSE sector[i][d]]

Tick ==
    /\ UNCHANGED <<up, order>>
    /\ \E heard \in Deliveries :
        /\ age' = [i \in Coordinators |-> Aged(i, heard[i])]
        /\ active' = [i \in Coordinators |-> (active[i] \cup heard[i]) \ Silent(age'[i])]
        /\ sector' = [i \in Coordinators |->
                AfterHealthCheck(i, active[i] \cup heard[i],
                                 (active[i] \cup heard[i]) \cap Silent(age'[i]))]

Fail(d) == d \in up /\ up' = up \ {d} /\ UNCHANGED <<order, active, age, sector>>
Recover(d) ==
    d \notin up /\ up' = up \cup {d} /\ UNCHANGED <<order, active, age, sector>>

Next ==
    \/ Tick
    \/ \E d \in Drones : Fail(d) \/ Recover(d)
    \/ \E i \in Coordinators :
        \/ ReassignForRadius(i)
        \/ \E d \in Drones : Register(i, d) \/ Unregister(i, d)

Spec == Init /\ [][Next]_vars /\ WF_vars(Tick)

-----------------------------------------------------------------------------
(* Properties.                                                             *)

\* The tables keep their shape: members once each, the active ones among
\* them, ages within the timeout, sectors for members alone.
TypeOK ==
    /\ up \subseteq Drones
    /\ order \in [Coordinators -> Seq(Drones)]
    /\ active \in [Coordinators -> SUBSET Drones]
    /\ age \in [Coordinators -> [Drones -> 0 .. Timeout + 1]]
    /\ sector \in [Coordinators -> [Drones -> Sector]]
    /\ \A i \in Coordinators :
        /\ active[i] \subseteq Members(i)
        /\ \A j, k \in DOMAIN order[i] : order[i][j] = order[i][k] => j = k
        /\ \A d \in Drones \ Members(i) : sector[i][d] = Unassigned

\* No two members of a table survey the triangle of the same vertex, whatever
\* mix of losses, returns, take-overs and reassignments left the table with
\* both old triangles and new plain sectors.
TrianglesDistinct ==
    \A i \in Coordinators : \A d, e \in Drones : \A v \in Vertex :
        HoldsVertex(i, d, v) /\ HoldsVertex(i, e, v) => d = e

\* Whatever is left of the ring when a drone is removed, its waypoints, those
\* handed to it before among them, stay covered but for a half whose neighbour
\* is gone itself: nothing falls between two neighbours that are left, and the
\* neighbour of a second loss keeps its half (unregister_drone).
Pieces(points) == {points[k] : k \in DOMAIN points}
Covered(i) ==
    UNION {Pieces(sector[i][d].points) :
            d \in {d \in Members(i) : sector[i][d].kind = "triangle"}}
Gone(i, d, v) == \A e \in Members(i) \ {d} : ~HoldsVertex(i, e, v)
Orphaned(i, d) ==
    LET v == sector[i][d].vertex
        points == sector[i][d].points
    IN  (IF Gone(i, d, Left(v)) THEN Pieces(FirstHalf(points)) ELSE {})
        \cup (IF Gone(i, d, Right(v)) THEN Pieces(SecondHalf(points)) ELSE {})
HandOver ==
    [][\A i \in Coordinators : \A d \in Members(i) :
        d \notin Members(i)' /\ sector[i][d].kind = "triangle" =>
            /\ Covered(i)' \subseteq Covered(i)
            /\ Covered(i) \subseteq Covered(i)' \cup Orphaned(i, d)]_vars

\* A drone that stops is given up by every table that has it active, unless
\* it comes back first.
LostIsNoticed ==
    \A i \in Coordinators : \A d \in Drones :
        d \notin up ~> (d \in up \/ d \notin active[i])

\* What the code does not guarantee.  "Divides the total coverage area into
\* sectors": no two active members of a table have the same sector.  A member
\* that is heard again becomes active with the sector it had, which may have
\* been given to another meanwhile (update_member_state).
SectorsApart ==
    \A i \in Coordinators : \A d, e \in active[i] :
        sector[i][d] = sector[i][e] /\ sector[i][d] # Unassigned => d = e

\* Nor that "its orphaned waypoints are distributed to the two adjacent Alpha
\* drones" (unregister_drone): the half of a neighbour that was removed before
\* is dropped.
NothingFalls ==
    [][\A i \in Coordinators : \A d \in Members(i) :
        d \notin Members(i)' /\ sector[i][d].kind = "triangle" => Covered(i)' = Covered(i)]_vars

\* Not guaranteed either: a drone that flies is active in every table it is
\* registered in.  Payloads go to the nearest neighbours only and are not
\* passed on, so a drone further away is silent for good.
NobodyGivenUp ==
    \A i \in Coordinators : \A d \in Members(i) :
        {i, d} \subseteq up => d \in active[i]

=============================================================================
