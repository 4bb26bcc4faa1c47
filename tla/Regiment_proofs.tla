--------------------------- MODULE Regiment_proofs ---------------------------
(***************************************************************************)
(* Theorems about Regiment: its types, the triangles of a table, and what  *)
(* becomes of a removed drone's waypoints, for every size of the regiment, *)
(* set of coordinators, fan-out and timeout.                               *)
(***************************************************************************)
EXTENDS Regiment, FiniteSetTheorems, SequenceTheorems, TLAPS

(* A table of sectors in which triangles have one vertex each, and a table *)
(* whose triangles were there before.                                      *)
Distinct(t) ==
    \A d, e \in Drones :
        (t[d].kind = "triangle" /\ t[e].kind = "triangle" /\ t[d].vertex = t[e].vertex) => d = e
Shrinks(new, old) ==
    \A d \in Drones : new[d].kind = "triangle" =>
        (old[d].kind = "triangle" /\ new[d].vertex = old[d].vertex)

(* Drones are finitely many: any set of them has at most N.                *)
LEMMA DronesCount ==
    ASSUME NEW S \in SUBSET Drones
    PROVE  /\ Cardinality(S) \in 0 .. N
           /\ Cardinality(S) = N => S = Drones
<1>1. IsFiniteSet(Drones) /\ Cardinality(Drones) = N
    <2>1. N - 1 >= 0 /\ 0 \in Int /\ N - 1 \in Int
        BY RegimentAssumption
    <2>2. IsFiniteSet(0 .. N - 1)
        BY <2>1, FS_Interval
    <2>3. Cardinality(0 .. N - 1) = (N - 1) - 0 + 1
        BY <2>1, FS_Interval
    <2> QED BY <2>2, <2>3, RegimentAssumption DEF Drones
<1>2. IsFiniteSet(S) /\ Cardinality(S) <= Cardinality(Drones)
    BY <1>1, FS_Subset
<1>3. Cardinality(S) \in Nat
    BY <1>2, FS_CardinalityType
<1>4. Cardinality(S) = Cardinality(Drones) => S = Drones
    BY <1>1, FS_Subset
<1> QED BY <1>1, <1>2, <1>3, <1>4, RegimentAssumption

(* The kinds of sectors are told apart by their kind.                      *)
LEMMA SectorFacts ==
    /\ Unassigned \in Sector /\ Unassigned.kind = "none"
    /\ \A v \in Vertex, points \in Seq(Piece) :
        /\ Triangle(v, points) \in Sector
        /\ Triangle(v, points).kind = "triangle"
        /\ Triangle(v, points).vertex = v
        /\ Triangle(v, points).points = points
    /\ \A n \in 1 .. N : \A k \in 0 .. n - 1 :
        Plain(k, n) \in Sector /\ Plain(k, n).kind = "plain"
    /\ \A s \in Sector : s.kind = "triangle" => s.vertex \in Vertex /\ s.points \in Seq(Piece)
<1>1. Unassigned \in Sector /\ Unassigned.kind = "none"
    BY DEF Unassigned, Sector
<1>2. ASSUME NEW v \in Vertex, NEW points \in Seq(Piece)
      PROVE  /\ Triangle(v, points) \in Sector
             /\ Triangle(v, points).kind = "triangle"
             /\ Triangle(v, points).vertex = v
             /\ Triangle(v, points).points = points
    BY DEF Triangle, Sector
<1>3. ASSUME NEW n \in 1 .. N, NEW k \in 0 .. n - 1
      PROVE  Plain(k, n) \in Sector /\ Plain(k, n).kind = "plain"
    <2>1. k \in 0 .. N - 1 /\ k < n
        BY RegimentAssumption
    <2> QED BY <2>1 DEF Plain, Sector
<1>4. ASSUME NEW s \in Sector, s.kind = "triangle"
      PROVE  s.vertex \in Vertex /\ s.points \in Seq(Piece)
    BY <1>4 DEF Sector, Unassigned
<1> QED BY <1>1, <1>2, <1>3, <1>4

(* Who comes before a member has a position before it.                     *)
LEMMA PositionFacts ==
    ASSUME NEW S \in SUBSET Drones, NEW d \in S, NEW E \in SUBSET (S \ {d})
    PROVE  Plain(Cardinality(E), Cardinality(S)) \in Sector
           /\ Plain(Cardinality(E), Cardinality(S)).kind = "plain"
<1>1. Cardinality(S) \in 0 .. N /\ Cardinality(E) \in 0 .. N
    BY DronesCount
<1>2. IsFiniteSet(S)
    <2>1. IsFiniteSet(Drones)
        BY RegimentAssumption, FS_Interval DEF Drones
    <2> QED BY <2>1, FS_Subset
<1>3. Cardinality(E) <= Cardinality(S) /\ (Cardinality(E) = Cardinality(S) => E = S)
    BY <1>2, FS_Subset
<1>4. Cardinality(E) < Cardinality(S)
    BY <1>1, <1>3
<1>5. Cardinality(S) \in 1 .. N /\ Cardinality(E) \in 0 .. Cardinality(S) - 1
    BY <1>1, <1>4, RegimentAssumption
<1> QED BY <1>5, SectorFacts

(* A triangle plan has one triangle per member, of the vertex it matched.  *)
LEMMA TrianglePlanFacts ==
    ASSUME NEW S \in SUBSET Drones, NEW f \in Match(S)
    PROVE  /\ DOMAIN TrianglePlan(f) = S
           /\ \A d \in S : /\ TrianglePlan(f)[d] \in Sector
                           /\ TrianglePlan(f)[d].kind = "triangle"
                           /\ TrianglePlan(f)[d].vertex = f[d]
           /\ \A d, e \in S : f[d] = f[e] => d = e
<1>1. f \in [S -> Vertex] /\ \A d, e \in S : f[d] = f[e] => d = e
    BY DEF Match
<1>2. ASSUME NEW v \in Vertex PROVE Lawnmower(v) \in Seq(Piece)
    BY DEF Lawnmower, Piece
<1>3. DOMAIN TrianglePlan(f) = S
    BY <1>1 DEF TrianglePlan
<1>4. ASSUME NEW d \in S
      PROVE  /\ TrianglePlan(f)[d] \in Sector
             /\ TrianglePlan(f)[d].kind = "triangle"
             /\ TrianglePlan(f)[d].vertex = f[d]
    <2>1. TrianglePlan(f)[d] = Triangle(f[d], Lawnmower(f[d])) /\ f[d] \in Vertex
        BY <1>1 DEF TrianglePlan
    <2> QED BY <2>1, <1>2, SectorFacts
<1> QED BY <1>1, <1>3, <1>4

(* The table of i, one row at a time.                                      *)
Row(i) ==
    /\ order[i] \in Seq(Drones)
    /\ active[i] \subseteq Drones
    /\ age[i] \in [Drones -> 0 .. Timeout + 1]
    /\ sector[i] \in [Drones -> Sector]
    /\ active[i] \subseteq Members(i)
    /\ \A j, k \in DOMAIN order[i] : order[i][j] = order[i][k] => j = k
    /\ \A d \in Drones \ Members(i) : sector[i][d] = Unassigned
    /\ Distinct(sector[i])
Shape ==
    /\ up \subseteq Drones
    /\ DOMAIN order = Coordinators
    /\ DOMAIN active = Coordinators
    /\ DOMAIN age = Coordinators
    /\ DOMAIN sector = Coordinators
    /\ order = [i \in Coordinators |-> order[i]]
    /\ active = [i \in Coordinators |-> active[i]]
    /\ age = [i \in Coordinators |-> age[i]]
    /\ sector = [i \in Coordinators |-> sector[i]]

(* No entry of a list without repetitions comes before itself.             *)
LEMMA NotBeforeItself == ASSUME NEW i \in Coordinators, Row(i), NEW d PROVE ~Before(i, d, d)
<1>1. \A j, k \in DOMAIN order[i] : order[i][j] = order[i][k] => j = k
    BY DEF Row
<1>2. \A j \in DOMAIN order[i] : j \in Int
    BY DEF Row
<1> QED BY <1>1, <1>2 DEF Before

(* A plan for fewer members than the regiment has plain sectors only.      *)
LEMMA PlainPlanFacts ==
    ASSUME NEW i \in Coordinators, Row(i), NEW S \in SUBSET Drones
    PROVE  /\ DOMAIN PlainPlan(i, S) = S
           /\ \A d \in S : PlainPlan(i, S)[d] \in Sector /\ PlainPlan(i, S)[d].kind = "plain"
<1>1. DOMAIN PlainPlan(i, S) = S
    BY DEF PlainPlan
<1>2. ASSUME NEW d \in S
      PROVE  PlainPlan(i, S)[d] \in Sector /\ PlainPlan(i, S)[d].kind = "plain"
    <2> DEFINE earlier == {e \in S : Before(i, e, d)}
    <2>1. PlainPlan(i, S)[d] = Plain(Cardinality(earlier), Cardinality(S))
        BY DEF PlainPlan
    <2>2. earlier \in SUBSET (S \ {d})
        BY NotBeforeItself
    <2> HIDE DEF earlier
    <2> QED BY <2>1, <2>2, PositionFacts
<1> QED BY <1>1, <1>2

(* The invariant, table by table.                                          *)
IInv == Shape /\ \A i \in Coordinators : Row(i)

LEMMA InvariantIsTypesAndTriangles == IInv <=> (TypeOK /\ TrianglesDistinct)
<1>1. ASSUME IInv PROVE TypeOK /\ TrianglesDistinct
    <2>1. TypeOK
        BY <1>1 DEF IInv, Shape, Row, TypeOK
    <2>2. TrianglesDistinct
        BY <1>1 DEF IInv, Row, Distinct, TrianglesDistinct, HoldsVertex
    <2> QED BY <2>1, <2>2
<1>2. ASSUME TypeOK, TrianglesDistinct PROVE IInv
    <2>1. Shape
        BY <1>2 DEF TypeOK, Shape
    <2>2. ASSUME NEW i \in Coordinators PROVE Row(i)
        <3>1. Distinct(sector[i])
            <4> SUFFICES ASSUME NEW d \in Drones, NEW e \in Drones,
                                sector[i][d].kind = "triangle", sector[i][e].kind = "triangle",
                                sector[i][d].vertex = sector[i][e].vertex
                         PROVE  d = e
                BY DEF Distinct
            <4>1. sector[i][d] \in Sector
                BY <1>2 DEF TypeOK
            <4>2. sector[i][d].vertex \in Vertex
                BY <4>1, SectorFacts
            <4> QED BY <1>2, <4>2 DEF TrianglesDistinct, HoldsVertex
        <3> QED BY <1>2, <3>1 DEF TypeOK, Row
    <2> QED BY <2>1, <2>2 DEF IInv
<1> QED BY <1>1, <1>2

(* Triangles that were there before stay distinct.                         *)
LEMMA ShrinksDistinct ==
    ASSUME NEW new, NEW old, Shrinks(new, old), Distinct(old)
    PROVE  Distinct(new)
BY DEF Shrinks, Distinct

(* The two halves of a list have its elements between them.                *)
LEMMA Halves ==
    ASSUME NEW T, NEW s \in Seq(T)
    PROVE  LET mid == Len(s) \div 2
           IN  /\ mid \in 0 .. Len(s)
               /\ FirstHalf(s) \in Seq(T) /\ Len(FirstHalf(s)) = mid
               /\ \A k \in 1 .. mid : FirstHalf(s)[k] = s[k]
               /\ SecondHalf(s) \in Seq(T) /\ Len(SecondHalf(s)) = Len(s) - mid
               /\ \A k \in 1 .. Len(s) - mid : SecondHalf(s)[k] = s[k + mid]
<1> DEFINE mid == Len(s) \div 2
<1>1. Len(s) \in Nat
    OBVIOUS
<1>2. \A n \in Nat : n \div 2 \in 0 .. n
    OBVIOUS
<1>3. mid \in 0 .. Len(s)
    BY <1>1, <1>2
<1>4. FirstHalf(s) = SubSeq(s, 1, mid) /\ SecondHalf(s) = SubSeq(s, mid + 1, Len(s))
    BY DEF FirstHalf, SecondHalf
<1> HIDE DEF mid
<1>5. /\ SubSeq(s, 1, mid) \in Seq(T) /\ Len(SubSeq(s, 1, mid)) = mid
      /\ \A k \in 1 .. mid : SubSeq(s, 1, mid)[k] = s[k]
    BY <1>1, <1>3
<1>6. /\ SubSeq(s, mid + 1, Len(s)) \in Seq(T)
      /\ Len(SubSeq(s, mid + 1, Len(s))) = Len(s) - mid
      /\ \A k \in 1 .. Len(s) - mid : SubSeq(s, mid + 1, Len(s))[k] = s[k + mid]
    <2> DEFINE b == SubSeq(s, mid + 1, Len(s))
    <2>1. mid \in Int /\ 0 <= mid /\ mid <= Len(s)
        BY <1>1, <1>3
    <2>2. b \in Seq(T)
        <3>1. \A k \in (mid + 1) .. Len(s) : s[k] \in T
            BY <1>1, <2>1
        <3> QED BY <3>1, <2>1, <1>1
    <2>3. Len(b) = Len(s) - mid
        BY <1>1, <2>1
    <2>4. \A k \in 1 .. Len(s) - mid : b[k] = s[k + mid]
        BY <1>1, <2>1
    <2> QED BY <2>2, <2>3, <2>4
<1> QED BY <1>3, <1>4, <1>5, <1>6 DEF mid

(* A list with one entry taken out.                                        *)
LEMMA TakenOut ==
    ASSUME NEW T, NEW s \in Seq(T), NEW k \in 1 .. Len(s)
    PROVE  LET t == SubSeq(s, 1, k - 1) \o SubSeq(s, k + 1, Len(s))
           IN  /\ t \in Seq(T)
               /\ Len(t) = Len(s) - 1
               /\ \A j \in 1 .. Len(s) - 1 : t[j] = IF j < k THEN s[j] ELSE s[j + 1]
<1> DEFINE a == SubSeq(s, 1, k - 1)
           b == SubSeq(s, k + 1, Len(s))
<1>1. Len(s) \in Nat /\ k \in Nat
    OBVIOUS
<1>2. /\ a \in Seq(T) /\ Len(a) = k - 1
      /\ \A j \in 1 .. k - 1 : a[j] = s[j]
    BY <1>1
<1>3. /\ b \in Seq(T) /\ Len(b) = Len(s) - k
      /\ \A j \in 1 .. Len(s) - k : b[j] = s[j + k]
    BY <1>1
<1> HIDE DEF a, b
<1>4. a \o b \in Seq(T) /\ Len(a \o b) = Len(a) + Len(b)
    BY <1>2, <1>3, ConcatProperties
<1>7. Len(a \o b) = Len(s) - 1
    BY <1>1, <1>2, <1>3, <1>4
<1>5. ASSUME NEW j \in 1 .. Len(s) - 1, j < k PROVE (a \o b)[j] = s[j]
    BY <1>1, <1>2, <1>3, <1>5
<1>6. ASSUME NEW j \in 1 .. Len(s) - 1, ~(j < k) PROVE (a \o b)[j] = s[j + 1]
    <2>1. (a \o b)[j] = b[j - (k - 1)]
        <3>1. j \in Len(a) + 1 .. Len(a) + Len(b)
            BY <1>1, <1>2, <1>3, <1>6
        <3>2. (a \o b)[j] = b[j - Len(a)]
            BY <3>1, <1>2, <1>3
        <3> QED BY <3>2, <1>2
    <2>2. j - (k - 1) \in 1 .. Len(s) - k /\ (j - (k - 1)) + k = j + 1
        BY <1>1, <1>6
    <2> QED BY <2>1, <2>2, <1>3
<1> QED BY <1>4, <1>5, <1>6, <1>7 DEF a, b

(* The table after a reassignment.                                         *)
LEMMA ReassignedFacts ==
    ASSUME NEW i \in Coordinators, Row(i), NEW S \in SUBSET Drones, NEW plan,
           DOMAIN plan = S, \A d \in S : plan[d] \in Sector,
           NEW old, old \in [Drones -> Sector]
    PROVE  /\ Reassigned(old, plan) \in [Drones -> Sector]
           /\ \A d \in Drones : Reassigned(old, plan)[d] = IF d \in S THEN plan[d] ELSE old[d]
BY DEF Reassigned

(* Dealing plain sectors out keeps the remaining triangles distinct.       *)
LEMMA PlainKeepsDistinct ==
    ASSUME NEW i \in Coordinators, Row(i), NEW S \in SUBSET Drones,
           NEW old, old \in [Drones -> Sector], Distinct(old)
    PROVE  /\ Reassigned(old, PlainPlan(i, S)) \in [Drones -> Sector]
           /\ Distinct(Reassigned(old, PlainPlan(i, S)))
           /\ \A d \in Drones \ S : Reassigned(old, PlainPlan(i, S))[d] = old[d]
<1>1. DOMAIN PlainPlan(i, S) = S /\ \A d \in S : PlainPlan(i, S)[d] \in Sector
    BY PlainPlanFacts
<1>2. /\ Reassigned(old, PlainPlan(i, S)) \in [Drones -> Sector]
      /\ \A d \in Drones : Reassigned(old, PlainPlan(i, S))[d]
            = IF d \in S THEN PlainPlan(i, S)[d] ELSE old[d]
    BY <1>1, ReassignedFacts
<1>3. \A d \in S : PlainPlan(i, S)[d].kind = "plain"
    BY PlainPlanFacts
<1>4. Shrinks(Reassigned(old, PlainPlan(i, S)), old)
    BY <1>2, <1>3 DEF Shrinks
<1> QED BY <1>2, <1>4, ShrinksDistinct

(* Triangles for a set of members, when the others hold none.              *)
LEMMA TrianglesAreDistinct ==
    ASSUME NEW i \in Coordinators, Row(i), NEW S \in SUBSET Drones, NEW f \in Match(S),
           NEW old, old \in [Drones -> Sector],
           \A d \in Drones \ S : old[d].kind # "triangle"
    PROVE  /\ Reassigned(old, TrianglePlan(f)) \in [Drones -> Sector]
           /\ Distinct(Reassigned(old, TrianglePlan(f)))
           /\ \A d \in Drones \ S : Reassigned(old, TrianglePlan(f))[d] = old[d]
<1>1. DOMAIN TrianglePlan(f) = S /\ \A d \in S : TrianglePlan(f)[d] \in Sector
    BY TrianglePlanFacts
<1>2. /\ Reassigned(old, TrianglePlan(f)) \in [Drones -> Sector]
      /\ \A d \in Drones : Reassigned(old, TrianglePlan(f))[d]
            = IF d \in S THEN TrianglePlan(f)[d] ELSE old[d]
    BY <1>1, ReassignedFacts
<1>3. /\ \A d \in S : TrianglePlan(f)[d].vertex = f[d]
      /\ \A d, e \in S : f[d] = f[e] => d = e
    BY TrianglePlanFacts
<1> QED BY <1>2, <1>3 DEF Distinct

(* The table without a drone that held a triangle.                         *)
LEMMA HandedOverFacts ==
    ASSUME NEW i \in Coordinators, Row(i), NEW d \in Drones, sector[i][d].kind = "triangle"
    PROVE  /\ HandedOver(i, d) \in [Drones -> Sector]
           /\ HandedOver(i, d)[d] = Unassigned
           /\ Shrinks(HandedOver(i, d), sector[i])
           /\ \A e \in Drones : sector[i][e].kind # "triangle" =>
                HandedOver(i, d)[e] = sector[i][e]
<1> DEFINE v == sector[i][d].vertex
           points == sector[i][d].points
<1>1. v \in Vertex /\ points \in Seq(Piece)
    BY SectorFacts DEF Row
<1>2. FirstHalf(points) \in Seq(Piece) /\ SecondHalf(points) \in Seq(Piece)
    BY <1>1, Halves
<1>3. \A e \in Drones : HandedOver(i, d)[e] =
        IF e = d THEN Unassigned
        ELSE IF HoldsVertex(i, e, Left(v)) THEN Expanded(sector[i][e], FirstHalf(points))
        ELSE IF HoldsVertex(i, e, Right(v)) THEN Expanded(sector[i][e], SecondHalf(points))
        ELSE sector[i][e]
    BY DEF HandedOver
<1>4. ASSUME NEW e \in Drones, sector[i][e].kind = "triangle", NEW half \in Seq(Piece)
      PROVE  /\ Expanded(sector[i][e], half) \in Sector
             /\ Expanded(sector[i][e], half).kind = "triangle"
             /\ Expanded(sector[i][e], half).vertex = sector[i][e].vertex
    <2>1. sector[i][e].vertex \in Vertex /\ sector[i][e].points \in Seq(Piece)
        BY <1>4, SectorFacts DEF Row
    <2>2. sector[i][e].points \o half \in Seq(Piece)
        BY <2>1
    <2> QED BY <2>1, <2>2, SectorFacts DEF Expanded
<1> HIDE DEF v, points
<1>5. ASSUME NEW e \in Drones
      PROVE  /\ HandedOver(i, d)[e] \in Sector
             /\ HandedOver(i, d)[e].kind = "triangle" =>
                    /\ sector[i][e].kind = "triangle"
                    /\ HandedOver(i, d)[e].vertex = sector[i][e].vertex
             /\ sector[i][e].kind # "triangle" =>
                    HandedOver(i, d)[e] \in {Unassigned, sector[i][e]}
    <2>1. CASE e = d
        BY <2>1, <1>3, SectorFacts
    <2>2. CASE e # d /\ sector[i][e].kind = "triangle"
        BY <2>2, <1>2, <1>3, <1>4 DEF Row
    <2>3. CASE e # d /\ sector[i][e].kind # "triangle"
        BY <2>3, <1>3 DEF Row, HoldsVertex
    <2> QED BY <2>1, <2>2, <2>3
<1>6. HandedOver(i, d)[d] = Unassigned
    BY <1>3
<1>7. HandedOver(i, d) \in [Drones -> Sector]
    BY <1>5 DEF HandedOver
<1>8. Shrinks(HandedOver(i, d), sector[i])
    BY <1>5 DEF Shrinks
<1>9. \A e \in Drones : sector[i][e].kind # "triangle" => HandedOver(i, d)[e] = sector[i][e]
    BY <1>3 DEF HoldsVertex
<1> QED BY <1>6, <1>7, <1>8, <1>9

(* Removing one entry of a list without repetitions.                       *)
LEMMA WithoutFacts ==
    ASSUME NEW i \in Coordinators, Row(i), NEW k \in DOMAIN order[i]
    PROVE  /\ Without(i, k) \in Seq(Drones)
           /\ {Without(i, k)[j] : j \in DOMAIN Without(i, k)} = Members(i) \ {order[i][k]}
           /\ \A j, l \in DOMAIN Without(i, k) :
                Without(i, k)[j] = Without(i, k)[l] => j = l
<1> DEFINE s == order[i]
           t == Without(i, k)
<1>1. s \in Seq(Drones) /\ DOMAIN s = 1 .. Len(s) /\ Len(s) \in Nat /\ k \in 1 .. Len(s)
    BY DEF Row
<1>2. /\ t \in Seq(Drones)
      /\ Len(t) = Len(s) - 1
      /\ \A j \in 1 .. Len(s) - 1 : t[j] = IF j < k THEN s[j] ELSE s[j + 1]
    BY <1>1, TakenOut DEF Without
<1>3. \A j, l \in 1 .. Len(s) : s[j] = s[l] => j = l
    BY <1>1 DEF Row
<1>4. Members(i) = {s[j] : j \in 1 .. Len(s)}
    BY <1>1 DEF Members
<1>5. DOMAIN t = 1 .. Len(s) - 1
    BY <1>1, <1>2
<1> HIDE DEF s, t
<1>6. ASSUME NEW d \in Members(i) \ {s[k]} PROVE \E j \in DOMAIN t : t[j] = d
    <2>1. PICK j \in 1 .. Len(s) : s[j] = d
        BY <1>4
    <2>2. CASE j < k
        BY <2>1, <2>2, <1>1, <1>2, <1>5
    <2>3. CASE j > k
        <3>1. j - 1 \in 1 .. Len(s) - 1 /\ ~(j - 1 < k)
            BY <2>3, <1>1
        <3>2. t[j - 1] = s[(j - 1) + 1]
            BY <3>1, <1>2
        <3>3. (j - 1) + 1 = j
            BY <1>1
        <3> QED BY <3>1, <3>2, <3>3, <2>1, <1>5
    <2> QED BY <2>1, <2>2, <2>3, <1>1, <1>6
<1>7. ASSUME NEW j \in DOMAIN t PROVE t[j] \in Members(i) \ {s[k]}
    BY <1>1, <1>2, <1>3, <1>4, <1>5
<1>8. \A j, l \in DOMAIN t : t[j] = t[l] => j = l
    BY <1>1, <1>2, <1>3, <1>5
<1>9. {t[j] : j \in DOMAIN t} = Members(i) \ {s[k]}
    BY <1>6, <1>7
<1> QED BY <1>2, <1>8, <1>9 DEF s, t

-----------------------------------------------------------------------------
(* Every action keeps the invariant.                                       *)

LEMMA InitInvariant == Init => IInv
<1> SUFFICES ASSUME Init PROVE IInv
    OBVIOUS
<1>1. PICK match \in [Coordinators -> Match(Drones)] :
        sector = [i \in Coordinators |-> TrianglePlan(match[i])]
    BY DEF Init
<1>2. Shape
    BY <1>1 DEF Init, Shape
<1>3. ASSUME NEW i \in Coordinators PROVE Row(i)
    <2>1. i \in 0 .. N - 1 /\ N \in Nat /\ N >= 3
        BY RegimentAssumption DEF Drones
    <2>2. order[i] = SetUp(i)
        BY DEF Init
    <2>3. /\ SetUp(i) \in Seq(Drones)
          /\ DOMAIN SetUp(i) = 1 .. N
          /\ \A k \in 1 .. N : SetUp(i)[k] = IF k = 1 THEN i ELSE IF k - 1 <= i THEN k - 2 ELSE k - 1
        BY <2>1 DEF SetUp, Drones
    <2>4. \A j, k \in DOMAIN order[i] : order[i][j] = order[i][k] => j = k
        BY <2>1, <2>2, <2>3
    <2>5. Drones \subseteq Members(i)
        <3> SUFFICES ASSUME NEW d \in Drones PROVE \E k \in DOMAIN order[i] : order[i][k] = d
            BY DEF Members
        <3>1. d \in 0 .. N - 1
            BY DEF Drones
        <3>2. CASE d = i
            BY <3>2, <2>1, <2>2, <2>3
        <3>3. CASE d < i
            <4>1. d + 2 \in 1 .. N /\ SetUp(i)[d + 2] = d
                BY <3>1, <3>3, <2>1, <2>3
            <4> QED BY <4>1, <2>2, <2>3
        <3>4. CASE d > i
            <4>1. d + 1 \in 1 .. N /\ SetUp(i)[d + 1] = d
                BY <3>1, <3>4, <2>1, <2>3
            <4> QED BY <4>1, <2>2, <2>3
        <3> QED BY <3>1, <3>2, <3>3, <3>4, <2>1
    <2>6. sector[i] \in [Drones -> Sector] /\ Distinct(sector[i])
        <3>1. sector[i] = TrianglePlan(match[i]) /\ match[i] \in Match(Drones)
            BY <1>1
        <3>2. /\ DOMAIN sector[i] = Drones
              /\ \A d \in Drones : sector[i][d] \in Sector /\ sector[i][d].vertex = match[i][d]
              /\ \A d, e \in Drones : match[i][d] = match[i][e] => d = e
            BY <3>1, TrianglePlanFacts
        <3>3. sector[i] = [d \in Drones |-> sector[i][d]]
            BY <3>1, <3>2 DEF TrianglePlan
        <3> QED BY <3>2, <3>3 DEF Distinct
    <2>7. active[i] = Drones /\ age[i] = [d \in Drones |-> 0]
        BY DEF Init
    <2>8. 0 \in 0 .. Timeout + 1
        BY RegimentAssumption
    <2> QED BY <2>2, <2>3, <2>4, <2>5, <2>6, <2>7, <2>8 DEF Row
<1> QED BY <1>2, <1>3 DEF IInv

(* A step that changes the table of i alone.                               *)
LEMMA OneTable ==
    ASSUME IInv, NEW i \in Coordinators,
           up' \subseteq Drones,
           NEW o, NEW a, NEW g, NEW s,
           order' = [order EXCEPT ![i] = o],
           active' = [active EXCEPT ![i] = a],
           age' = [age EXCEPT ![i] = g],
           sector' = [sector EXCEPT ![i] = s],
           Row(i)'
    PROVE  IInv'
<1>1. Shape'
    BY DEF IInv, Shape
<1>2. ASSUME NEW j \in Coordinators, j # i PROVE Row(j)'
    <2>1. order'[j] = order[j] /\ active'[j] = active[j] /\ age'[j] = age[j] /\ sector'[j] = sector[j]
        BY <1>2 DEF IInv, Shape
    <2>2. Row(j)
        BY DEF IInv
    <2> QED BY <2>1, <2>2 DEF Row, Members, Distinct
<1> QED BY <1>1, <1>2 DEF IInv

LEMMA RegisterInvariant ==
    ASSUME IInv, NEW i \in Coordinators, NEW d \in Drones, Register(i, d)
    PROVE  IInv' /\ \A j \in Coordinators : Members(j) \subseteq Members(j)'
<1> DEFINE o == Append(order[i], d)
           a == active[i] \cup {d}
           g == [age[i] EXCEPT ![d] = 0]
<1>1. Row(i) /\ Shape
    BY DEF IInv
<1>2. /\ order' = [order EXCEPT ![i] = o]
      /\ active' = [active EXCEPT ![i] = a]
      /\ age' = [age EXCEPT ![i] = g]
      /\ up' \subseteq Drones
    BY <1>1 DEF Register, Shape
<1>3. /\ order'[i] = o /\ active'[i] = a /\ age'[i] = g
    BY <1>1, <1>2 DEF Shape
<1>4. /\ o \in Seq(Drones)
      /\ Len(o) = Len(order[i]) + 1 /\ Len(order[i]) \in Nat
      /\ DOMAIN o = 1 .. Len(order[i]) + 1 /\ DOMAIN order[i] = 1 .. Len(order[i])
      /\ \A k \in 1 .. Len(order[i]) : o[k] = order[i][k]
      /\ o[Len(order[i]) + 1] = d
    BY <1>1 DEF Row
<1>5. Members(i)' = Members(i) \cup {d}
    <2> HIDE DEF o
    <2> QED BY <1>3, <1>4 DEF Members
<1>6. \A j, k \in DOMAIN o : o[j] = o[k] => j = k
    <2>1. \A k \in DOMAIN order[i] : order[i][k] # d
        BY DEF Register, Members
    <2>2. \A j, k \in 1 .. Len(order[i]) : order[i][j] = order[i][k] => j = k
        BY <1>1, <1>4 DEF Row
    <2>3. \A j \in 1 .. Len(order[i]) + 1 : j \in 1 .. Len(order[i]) \/ j = Len(order[i]) + 1
        BY <1>4
    <2> HIDE DEF o
    <2>4. \A j \in 1 .. Len(order[i]) : o[j] = order[i][j] /\ o[j] # d
        BY <1>4, <2>1
    <2> SUFFICES ASSUME NEW j \in 1 .. Len(order[i]) + 1, NEW k \in 1 .. Len(order[i]) + 1,
                        o[j] = o[k]
                 PROVE  j = k
        BY <1>4
    <2> QED BY <2>2, <2>3, <2>4, <1>4
<1>7. g \in [Drones -> 0 .. Timeout + 1]
    BY <1>1, RegimentAssumption DEF Row
<1>8. PICK s : /\ sector' = [sector EXCEPT ![i] = s]
               /\ s \in [Drones -> Sector] /\ Distinct(s)
               /\ \A e \in Drones \ (Members(i) \cup {d}) : s[e] = Unassigned
    <2>1. CASE Len(order[i]) + 1 # N
        <3>1. sector' = [sector EXCEPT ![i] = sector[i]]
            BY <2>1, <1>1 DEF Register, Shape
        <3> QED BY <3>1, <1>1 DEF Row
    <2>2. CASE Len(order[i]) + 1 = N
        <3>1. PICK plan \in Plans(i, active[i] \cup {d})' :
                sector' = [sector EXCEPT ![i] = Reassigned(sector[i], plan)]
            BY <2>2, <1>1 DEF Register, Shape
        <3>2. (active[i] \cup {d})' = a /\ a \in SUBSET Drones
            BY <1>1, <1>3 DEF Row
        <3>3. CASE Cardinality(a) = N
            <4>1. plan \in {TrianglePlan(f) : f \in Match(a)}
                BY <3>1, <3>2, <3>3 DEF Plans, TrianglePlan, Match, Triangle, Lawnmower
            <4>2. PICK f \in Match(a) : plan = TrianglePlan(f)
                BY <4>1
            <4>3. a = Drones
                BY <3>2, <3>3, DronesCount
            <4>4. /\ Reassigned(sector[i], plan) \in [Drones -> Sector]
                  /\ Distinct(Reassigned(sector[i], plan))
                BY <4>2, <4>3, <1>1, TrianglesAreDistinct DEF Row
            <4>5. Drones \subseteq Members(i) \cup {d}
                BY <4>3, <1>1 DEF Row
            <4> QED BY <3>1, <4>4, <4>5
        <3>4. CASE Cardinality(a) # N
            <4>1. plan = PlainPlan(i, a)'
                BY <3>1, <3>2, <3>4 DEF Plans
            <4>2. /\ DOMAIN plan = a
                  /\ \A e \in a : plan[e] \in Sector /\ plan[e].kind = "plain"
                <5>1. plan = [e \in a |-> Plain(Cardinality({c \in a : Before(i, c, e)'}), Cardinality(a))]
                    BY <4>1, <3>2 DEF PlainPlan
                <5>2. ASSUME NEW e \in a
                      PROVE  plan[e] \in Sector /\ plan[e].kind = "plain"
                    <6> DEFINE c == {c \in a : Before(i, c, e)'}
                    <6>1. c \in SUBSET (a \ {e})
                        <7>1. ~Before(i, e, e)'
                            <8> HIDE DEF o
                            <8> QED BY <1>3, <1>4, <1>6 DEF Before
                        <7> HIDE DEF a
                        <7> QED BY <7>1
                    <6>2. plan[e] = Plain(Cardinality(c), Cardinality(a))
                        BY <5>1
                    <6> HIDE DEF c, a
                    <6> QED BY <6>1, <6>2, <3>2, PositionFacts
                <5> QED BY <5>1, <5>2
            <4>3. /\ Reassigned(sector[i], plan) \in [Drones -> Sector]
                  /\ \A e \in Drones : Reassigned(sector[i], plan)[e]
                        = IF e \in a THEN plan[e] ELSE sector[i][e]
                <5>1. sector[i] \in [Drones -> Sector]
                    BY <1>1 DEF Row
                <5> HIDE DEF a
                <5> QED BY <4>2, <5>1 DEF Reassigned
            <4>4. Shrinks(Reassigned(sector[i], plan), sector[i])
                BY <4>2, <4>3 DEF Shrinks
            <4>5. Distinct(Reassigned(sector[i], plan))
                BY <4>4, <1>1, ShrinksDistinct DEF Row
            <4>6. \A e \in Drones \ (Members(i) \cup {d}) :
                    Reassigned(sector[i], plan)[e] = Unassigned
                BY <4>3, <1>1 DEF Row
            <4> QED BY <3>1, <4>3, <4>5, <4>6
        <3> QED BY <3>3, <3>4
    <2> QED BY <2>1, <2>2
<1>9. sector'[i] = s
    BY <1>8, <1>1 DEF Shape
<1>10. Row(i)'
    <2>1. a \subseteq Members(i) \cup {d} /\ a \subseteq Drones
        BY <1>1 DEF Row
    <2>2. Distinct(sector[i])'
        BY <1>8, <1>9 DEF Distinct
    <2> HIDE DEF o, a, g
    <2> QED BY <1>3, <1>4, <1>5, <1>6, <1>7, <1>8, <1>9, <2>1, <2>2 DEF Row
<1>11. \A j \in Coordinators : j # i => Members(j)' = Members(j)
    BY <1>1, <1>2 DEF Members, Shape
<1> HIDE DEF o, a, g
<1>12. IInv'
    BY <1>2, <1>8, <1>10, OneTable
<1> QED BY <1>5, <1>11, <1>12

LEMMA UnregisterInvariant ==
    ASSUME IInv, NEW i \in Coordinators, NEW d \in Drones, Unregister(i, d)
    PROVE  /\ IInv'
           /\ Members(i)' = Members(i) \ {d}
           /\ sector[i][d].kind = "triangle" => sector'[i] = HandedOver(i, d)
           /\ \A j \in Coordinators : j # i => Members(j)' = Members(j)
<1>1. Row(i) /\ Shape
    BY DEF IInv
<1>2. PICK k \in DOMAIN order[i] :
        order[i][k] = d /\ order' = [order EXCEPT ![i] = Without(i, k)]
    BY DEF Unregister
<1> DEFINE o == Without(i, k)
           a == active[i] \ {d}
           g == [age[i] EXCEPT ![d] = 0]
           s == IF sector[i][d].kind = "triangle" THEN HandedOver(i, d)
                ELSE Reassigned([sector[i] EXCEPT ![d] = Unassigned], PlainPlan(i, a))
<1>3. /\ order' = [order EXCEPT ![i] = o]
      /\ active' = [active EXCEPT ![i] = a]
      /\ age' = [age EXCEPT ![i] = g]
      /\ sector' = [sector EXCEPT ![i] = s]
      /\ up' \subseteq Drones
    BY <1>1, <1>2 DEF Unregister, Shape
<1>4. /\ order'[i] = o /\ active'[i] = a /\ age'[i] = g /\ sector'[i] = s
    BY <1>1, <1>3 DEF Shape
<1>5. /\ o \in Seq(Drones)
      /\ {o[j] : j \in DOMAIN o} = Members(i) \ {d}
      /\ \A j, l \in DOMAIN o : o[j] = o[l] => j = l
    BY <1>1, <1>2, WithoutFacts
<1>6. Members(i)' = Members(i) \ {d}
    <2> HIDE DEF o
    <2> QED BY <1>4, <1>5 DEF Members
<1>7. /\ g \in [Drones -> 0 .. Timeout + 1]
      /\ a \subseteq Drones /\ a \subseteq Members(i) \ {d}
    BY <1>1, RegimentAssumption DEF Row
<1>8. /\ s \in [Drones -> Sector]
      /\ Distinct(s)
      /\ \A e \in Drones \ (Members(i) \ {d}) : s[e] = Unassigned
    <2>1. CASE sector[i][d].kind = "triangle"
        <3>1. s = HandedOver(i, d)
            BY <2>1
        <3>2. /\ HandedOver(i, d) \in [Drones -> Sector]
              /\ HandedOver(i, d)[d] = Unassigned
              /\ Shrinks(HandedOver(i, d), sector[i])
              /\ \A e \in Drones : sector[i][e].kind # "triangle" =>
                    HandedOver(i, d)[e] = sector[i][e]
            BY <1>1, <2>1, HandedOverFacts
        <3>3. Distinct(HandedOver(i, d))
            BY <3>2, <1>1, ShrinksDistinct DEF Row
        <3>4. \A e \in Drones \ Members(i) : sector[i][e] = Unassigned /\ sector[i][e].kind # "triangle"
            BY <1>1, SectorFacts DEF Row
        <3> HIDE DEF s
        <3> QED BY <3>1, <3>2, <3>3, <3>4
    <2>2. CASE sector[i][d].kind # "triangle"
        <3> DEFINE old == [sector[i] EXCEPT ![d] = Unassigned]
        <3>1. s = Reassigned(old, PlainPlan(i, a))
            BY <2>2
        <3>2. /\ old \in [Drones -> Sector]
              /\ \A e \in Drones : old[e] = IF e = d THEN Unassigned ELSE sector[i][e]
            BY <1>1, SectorFacts DEF Row
        <3>3. Shrinks(old, sector[i])
            BY <3>2, SectorFacts DEF Shrinks
        <3>4. Distinct(old)
            BY <3>3, <1>1, ShrinksDistinct DEF Row
        <3>5. \A e \in Drones \ (Members(i) \ {d}) : old[e] = Unassigned /\ e \notin a
            BY <3>2, <1>1, <1>7 DEF Row
        <3> HIDE DEF old, s, a
        <3>6. /\ Reassigned(old, PlainPlan(i, a)) \in [Drones -> Sector]
              /\ Distinct(Reassigned(old, PlainPlan(i, a)))
              /\ \A e \in Drones \ a : Reassigned(old, PlainPlan(i, a))[e] = old[e]
            BY <1>1, <1>7, <3>2, <3>4, PlainKeepsDistinct
        <3> QED BY <3>1, <3>5, <3>6
    <2> QED BY <2>1, <2>2
<1>9. Row(i)'
    <2>1. Distinct(sector[i])'
        BY <1>8, <1>4 DEF Distinct
    <2> HIDE DEF o, a, g, s
    <2> QED BY <1>4, <1>5, <1>6, <1>7, <1>8, <2>1 DEF Row
<1>10. sector[i][d].kind = "triangle" => sector'[i] = HandedOver(i, d)
    BY <1>4
<1>11. \A j \in Coordinators : j # i => Members(j)' = Members(j)
    BY <1>1, <1>2 DEF Members, Shape
<1> HIDE DEF o, a, g, s
<1>12. IInv'
    BY <1>3, <1>9, OneTable
<1> QED BY <1>6, <1>10, <1>11, <1>12

LEMMA ReassignInvariant ==
    ASSUME IInv, NEW i \in Coordinators, ReassignForRadius(i)
    PROVE  IInv'
<1>1. Row(i) /\ Shape
    BY DEF IInv
<1>2. PICK f \in Match(Members(i)) :
        sector' = [sector EXCEPT ![i] = Reassigned(sector[i], TrianglePlan(f))]
    BY <1>1 DEF ReassignForRadius, Shape
<1> DEFINE s == Reassigned(sector[i], TrianglePlan(f))
<1>3. Members(i) \in SUBSET Drones
    BY <1>1 DEF Row, Members
<1>4. \A e \in Drones \ Members(i) : sector[i][e] = Unassigned /\ sector[i][e].kind # "triangle"
    BY <1>1, SectorFacts DEF Row
<1>5. /\ s \in [Drones -> Sector]
      /\ Distinct(s)
      /\ \A e \in Drones \ Members(i) : s[e] = sector[i][e]
    <2>1. sector[i] \in [Drones -> Sector]
        BY <1>1 DEF Row
    <2>2. \A e \in Drones \ Members(i) : sector[i][e].kind # "triangle"
        BY <1>4
    <2> QED BY <1>1, <1>3, <2>1, <2>2, TrianglesAreDistinct
<1>6. sector'[i] = s /\ order' = order /\ active' = active /\ age' = age /\ up' = up
    <2>1. sector'[i] = s
        BY <1>1, <1>2 DEF Shape
    <2>2. order' = order /\ active' = active /\ age' = age /\ up' = up
        BY DEF ReassignForRadius
    <2> QED BY <2>1, <2>2
<1> HIDE DEF s
<1>7. Row(i)'
    <2>1. Distinct(sector[i])'
        BY <1>5, <1>6 DEF Distinct
    <2>2. Members(i)' = Members(i)
        BY <1>6 DEF Members
    <2> QED BY <1>1, <1>4, <1>5, <1>6, <2>1, <2>2 DEF Row
<1>8. /\ order' = [order EXCEPT ![i] = order[i]]
      /\ active' = [active EXCEPT ![i] = active[i]]
      /\ age' = [age EXCEPT ![i] = age[i]]
      /\ sector' = [sector EXCEPT ![i] = s]
      /\ up' \subseteq Drones
    BY <1>1, <1>2, <1>6 DEF Shape, s
<1> QED BY <1>7, <1>8, OneTable

(* The table after a health check: what is not dealt out anew stays.       *)
LEMMA HealthCheckFacts ==
    ASSUME NEW i \in Coordinators, Row(i),
           NEW awake \in SUBSET Members(i), NEW lost \in SUBSET awake
    PROVE  /\ AfterHealthCheck(i, awake, lost) \in [Drones -> Sector]
           /\ Shrinks(AfterHealthCheck(i, awake, lost), sector[i])
           /\ \A d \in Drones \ awake : AfterHealthCheck(i, awake, lost)[d] = sector[i][d]
<1> DEFINE gone(d) == {e \in lost : d \in lost => Before(i, e, d)}
           t == AfterHealthCheck(i, awake, lost)
<1>1. \A d \in Drones : t[d] = IF d \in awake /\ gone(d) # {}
                              THEN PlainPlan(i, awake \ gone(d))[d] ELSE sector[i][d]
    BY DEF AfterHealthCheck
<1>2. ASSUME NEW d \in Drones, d \in awake, gone(d) # {}
      PROVE  t[d] \in Sector /\ t[d].kind = "plain"
    <2>1. d \notin gone(d)
        <3>1. ~Before(i, d, d)
            BY NotBeforeItself
        <3> QED BY <3>1
    <2>2. awake \ gone(d) \in SUBSET Drones
        BY DEF Row, Members
    <2>3. t[d] = PlainPlan(i, awake \ gone(d))[d] /\ d \in awake \ gone(d)
        BY <1>1, <1>2, <2>1
    <2> HIDE DEF gone, t
    <2> QED BY <2>2, <2>3, PlainPlanFacts
<1>3. ASSUME NEW d \in Drones, ~(d \in awake /\ gone(d) # {})
      PROVE  t[d] = sector[i][d] /\ t[d] \in Sector
    BY <1>1, <1>3 DEF Row
<1>4. \A d \in Drones : t[d] \in Sector
    BY <1>2, <1>3
<1>5. t \in [Drones -> Sector]
    BY <1>4 DEF AfterHealthCheck
<1>6. Shrinks(t, sector[i])
    BY <1>2, <1>3 DEF Shrinks
<1>7. \A d \in Drones \ awake : t[d] = sector[i][d]
    BY <1>1
<1> QED BY <1>5, <1>6, <1>7

LEMMA TickInvariant == ASSUME IInv, Tick PROVE IInv'
<1>1. PICK heard \in Deliveries :
        /\ age' = [i \in Coordinators |-> Aged(i, heard[i])]
        /\ active' = [i \in Coordinators |-> (active[i] \cup heard[i]) \ Silent(age'[i])]
        /\ sector' = [i \in Coordinators |->
                AfterHealthCheck(i, active[i] \cup heard[i],
                                 (active[i] \cup heard[i]) \cap Silent(age'[i]))]
    BY DEF Tick
<1>2. up' = up /\ order' = order
    BY DEF Tick
<1>3. Shape'
    BY <1>1, <1>2 DEF IInv, Shape
<1>4. ASSUME NEW i \in Coordinators PROVE Row(i)'
    <2> DEFINE awake == active[i] \cup heard[i]
               lost == awake \cap Silent(age'[i])
    <2>1. Row(i)
        BY DEF IInv
    <2>2. heard[i] \subseteq Members(i)
        BY DEF Deliveries
    <2>3. awake \in SUBSET Members(i) /\ lost \in SUBSET awake
        BY <2>1, <2>2 DEF Row
    <2>4. /\ order'[i] = order[i]
          /\ age'[i] = Aged(i, heard[i])
          /\ active'[i] = awake \ Silent(age'[i])
          /\ sector'[i] = AfterHealthCheck(i, awake, lost)
        BY <1>1, <1>2
    <2>5. Aged(i, heard[i]) \in [Drones -> 0 .. Timeout + 1]
        <3>1. \A d \in Drones : age[i][d] \in 0 .. Timeout + 1
            BY <2>1 DEF Row
        <3> QED BY <3>1, RegimentAssumption DEF Aged
    <2>6. Members(i)' = Members(i) /\ Members(i) \subseteq Drones
        BY <2>1, <2>4 DEF Members, Row
    <2> HIDE DEF awake, lost
    <2>7. /\ AfterHealthCheck(i, awake, lost) \in [Drones -> Sector]
          /\ Shrinks(AfterHealthCheck(i, awake, lost), sector[i])
          /\ \A d \in Drones \ awake : AfterHealthCheck(i, awake, lost)[d] = sector[i][d]
        BY <2>1, <2>3, HealthCheckFacts
    <2>8. Distinct(AfterHealthCheck(i, awake, lost))
        BY <2>1, <2>7, ShrinksDistinct DEF Row
    <2>9. Distinct(sector[i])'
        BY <2>4, <2>8 DEF Distinct
    <2>10. \A d \in Drones \ Members(i) : sector'[i][d] = Unassigned
        BY <2>1, <2>3, <2>4, <2>7 DEF Row
    <2>11. active'[i] \subseteq Members(i)
        BY <2>3, <2>4
    <2> QED BY <2>1, <2>4, <2>5, <2>6, <2>7, <2>9, <2>10, <2>11 DEF Row
<1> QED BY <1>3, <1>4 DEF IInv

LEMMA FlightInvariant ==
    ASSUME IInv, NEW d \in Drones, Fail(d) \/ Recover(d)
    PROVE  IInv'
BY DEF IInv, Shape, Row, Members, Distinct, Fail, Recover

(* The inductive invariant holds in every reachable state.                 *)
THEOREM RegimentInvariant == Spec => []IInv
<1>1. Init => IInv
    BY InitInvariant
<1>2. IInv /\ [Next]_vars => IInv'
    <2> SUFFICES ASSUME IInv, [Next]_vars PROVE IInv'
        OBVIOUS
    <2>1. CASE Tick
        BY <2>1, TickInvariant
    <2>2. ASSUME NEW d \in Drones, Fail(d) \/ Recover(d) PROVE IInv'
        BY <2>2, FlightInvariant
    <2>3. ASSUME NEW i \in Coordinators, ReassignForRadius(i) PROVE IInv'
        BY <2>3, ReassignInvariant
    <2>4. ASSUME NEW i \in Coordinators, NEW d \in Drones, Register(i, d) PROVE IInv'
        BY <2>4, RegisterInvariant
    <2>5. ASSUME NEW i \in Coordinators, NEW d \in Drones, Unregister(i, d) PROVE IInv'
        BY <2>5, UnregisterInvariant
    <2>6. CASE UNCHANGED vars
        BY <2>6 DEF vars, IInv, Shape, Row, Members, Distinct
    <2> QED BY <2>1, <2>2, <2>3, <2>4, <2>5, <2>6 DEF Next
<1> QED BY <1>1, <1>2, PTL DEF Spec

(* The tables keep their types.                                            *)
THEOREM RegimentTypes == Spec => []TypeOK
<1>1. IInv => TypeOK
    BY InvariantIsTypesAndTriangles
<1> QED BY <1>1, RegimentInvariant, PTL

(* No two members of a table survey the triangle of the same vertex.       *)
THEOREM TrianglesStayDistinct == Spec => []TrianglesDistinct
<1>1. IInv => TrianglesDistinct
    BY InvariantIsTypesAndTriangles
<1> QED BY <1>1, RegimentInvariant, PTL

-----------------------------------------------------------------------------
(* Handing over.                                                           *)

LEMMA PiecesOfConcat ==
    ASSUME NEW T, NEW s \in Seq(T), NEW t \in Seq(T)
    PROVE  Pieces(s \o t) = Pieces(s) \cup Pieces(t)
<1>1. /\ Len(s) \in Nat /\ Len(t) \in Nat
      /\ DOMAIN s = 1 .. Len(s) /\ DOMAIN t = 1 .. Len(t)
    OBVIOUS
<1>2. /\ s \o t \in Seq(T) /\ Len(s \o t) = Len(s) + Len(t)
      /\ \A k \in 1 .. Len(s) + Len(t) :
            (s \o t)[k] = IF k <= Len(s) THEN s[k] ELSE t[k - Len(s)]
    BY ConcatProperties
<1>3. DOMAIN (s \o t) = 1 .. Len(s) + Len(t)
    BY <1>2
<1>4. ASSUME NEW x \in Pieces(s \o t) PROVE x \in Pieces(s) \cup Pieces(t)
    <2>1. PICK k \in 1 .. Len(s) + Len(t) : x = (s \o t)[k]
        BY <1>3 DEF Pieces
    <2>2. CASE k <= Len(s)
        BY <2>1, <2>2, <1>1, <1>2 DEF Pieces
    <2>3. CASE ~(k <= Len(s))
        <3>1. k - Len(s) \in 1 .. Len(t) /\ x = t[k - Len(s)]
            BY <2>1, <2>3, <1>1, <1>2
        <3> QED BY <3>1, <1>1 DEF Pieces
    <2> QED BY <2>2, <2>3
<1>5. ASSUME NEW x \in Pieces(s) PROVE x \in Pieces(s \o t)
    <2>1. PICK k \in 1 .. Len(s) : x = s[k]
        BY <1>1 DEF Pieces
    <2>2. k \in 1 .. Len(s) + Len(t) /\ (s \o t)[k] = s[k]
        BY <1>1, <1>2
    <2> QED BY <2>1, <2>2, <1>3 DEF Pieces
<1>6. ASSUME NEW x \in Pieces(t) PROVE x \in Pieces(s \o t)
    <2>1. PICK k \in 1 .. Len(t) : x = t[k]
        BY <1>1 DEF Pieces
    <2>2. /\ k + Len(s) \in 1 .. Len(s) + Len(t)
          /\ ~(k + Len(s) <= Len(s)) /\ (k + Len(s)) - Len(s) = k
        BY <1>1
    <2>3. (s \o t)[k + Len(s)] = t[k]
        BY <2>2, <1>2
    <2> QED BY <2>1, <2>2, <2>3, <1>3 DEF Pieces
<1> QED BY <1>4, <1>5, <1>6

LEMMA PiecesOfHalves ==
    ASSUME NEW T, NEW s \in Seq(T)
    PROVE  Pieces(FirstHalf(s)) \cup Pieces(SecondHalf(s)) = Pieces(s)
<1> DEFINE mid == Len(s) \div 2
<1>1. Len(s) \in Nat /\ DOMAIN s = 1 .. Len(s)
    OBVIOUS
<1>2. /\ mid \in 0 .. Len(s)
      /\ FirstHalf(s) \in Seq(T) /\ Len(FirstHalf(s)) = mid
      /\ \A k \in 1 .. mid : FirstHalf(s)[k] = s[k]
      /\ SecondHalf(s) \in Seq(T) /\ Len(SecondHalf(s)) = Len(s) - mid
      /\ \A k \in 1 .. Len(s) - mid : SecondHalf(s)[k] = s[k + mid]
    BY Halves
<1> HIDE DEF mid
<1>3. DOMAIN FirstHalf(s) = 1 .. mid /\ DOMAIN SecondHalf(s) = 1 .. Len(s) - mid
    BY <1>2
<1>4. ASSUME NEW x \in Pieces(s) PROVE x \in Pieces(FirstHalf(s)) \cup Pieces(SecondHalf(s))
    <2>1. PICK k \in 1 .. Len(s) : x = s[k]
        BY <1>1 DEF Pieces
    <2>2. CASE k <= mid
        <3>1. k \in 1 .. mid
            BY <2>2, <1>1, <1>2
        <3> QED BY <3>1, <2>1, <1>2, <1>3 DEF Pieces
    <2>3. CASE ~(k <= mid)
        <3>1. k - mid \in 1 .. Len(s) - mid /\ (k - mid) + mid = k
            BY <2>3, <1>1, <1>2
        <3> QED BY <3>1, <2>1, <1>2, <1>3 DEF Pieces
    <2> QED BY <2>2, <2>3
<1>5. ASSUME NEW x \in Pieces(FirstHalf(s)) PROVE x \in Pieces(s)
    <2>1. PICK k \in 1 .. mid : x = s[k]
        BY <1>2, <1>3 DEF Pieces
    <2>2. k \in 1 .. Len(s)
        BY <1>1, <1>2
    <2> QED BY <2>1, <2>2, <1>1 DEF Pieces
<1>6. ASSUME NEW x \in Pieces(SecondHalf(s)) PROVE x \in Pieces(s)
    <2>1. PICK k \in 1 .. Len(s) - mid : x = s[k + mid]
        BY <1>2, <1>3 DEF Pieces
    <2>2. k + mid \in 1 .. Len(s)
        BY <1>1, <1>2
    <2> QED BY <2>1, <2>2, <1>1 DEF Pieces
<1> QED BY <1>4, <1>5, <1>6

(* What a table covers, waypoint by waypoint.                              *)
LEMMA CoveredIs ==
    ASSUME NEW i \in Coordinators, NEW x
    PROVE  x \in Covered(i) <=>
            \E e \in Members(i) : sector[i][e].kind = "triangle" /\ x \in Pieces(sector[i][e].points)
BY DEF Covered

(* Removing a drone that holds a triangle, whatever neighbours it has.      *)
LEMMA UnregisterHandsOver ==
    ASSUME IInv, NEW i \in Coordinators, NEW d \in Drones, Unregister(i, d),
           sector[i][d].kind = "triangle"
    PROVE  /\ Covered(i)' \subseteq Covered(i)
           /\ Covered(i) \subseteq Covered(i)' \cup Orphaned(i, d)
<1> DEFINE v == sector[i][d].vertex
           points == sector[i][d].points
           given(e) == IF HoldsVertex(i, e, Left(v)) THEN FirstHalf(points)
                       ELSE SecondHalf(points)
           takes(e) == HoldsVertex(i, e, Left(v)) \/ HoldsVertex(i, e, Right(v))
<1>1. Row(i)
    BY DEF IInv
<1>2. /\ Members(i)' = Members(i) \ {d}
      /\ sector'[i] = HandedOver(i, d)
    BY UnregisterInvariant
<1>3. /\ Members(i) \subseteq Drones
      /\ v \in Vertex /\ points \in Seq(Piece)
      /\ d \in Members(i)
    BY <1>1, SectorFacts DEF Row, Members, Unregister
<1>4. Left(v) # Right(v)
    BY <1>3, RegimentAssumption DEF Left, Right, Vertex
<1>5. FirstHalf(points) \in Seq(Piece) /\ SecondHalf(points) \in Seq(Piece)
    BY <1>3, Halves
<1>6. Pieces(FirstHalf(points)) \cup Pieces(SecondHalf(points)) = Pieces(points)
    BY <1>3, PiecesOfHalves
<1>7. \A e \in Members(i) \ {d} : sector'[i][e] =
        IF takes(e) THEN Expanded(sector[i][e], given(e)) ELSE sector[i][e]
    BY <1>2, <1>3 DEF HandedOver
<1>8. Orphaned(i, d) =
        (IF Gone(i, d, Left(v)) THEN Pieces(FirstHalf(points)) ELSE {})
        \cup (IF Gone(i, d, Right(v)) THEN Pieces(SecondHalf(points)) ELSE {})
    BY DEF Orphaned
<1>9. ASSUME NEW e \in Members(i) \ {d}, HoldsVertex(i, e, Right(v))
      PROVE  ~HoldsVertex(i, e, Left(v))
    BY <1>4, <1>9 DEF HoldsVertex
<1>10. \A e \in Members(i) : takes(e) => sector[i][e].kind = "triangle"
    BY DEF HoldsVertex
<1>11. \A e \in Members(i) \ {d} :
        /\ HoldsVertex(i, e, Left(v)) => takes(e) /\ given(e) = FirstHalf(points)
        /\ HoldsVertex(i, e, Right(v)) => takes(e) /\ given(e) = SecondHalf(points)
        /\ given(e) \in {FirstHalf(points), SecondHalf(points)}
    BY <1>9
<1> HIDE DEF v, points, given, takes
<1>12. ASSUME NEW e \in Members(i) \ {d}, takes(e)
       PROVE  /\ sector'[i][e].kind = "triangle"
              /\ Pieces(sector'[i][e].points) = Pieces(sector[i][e].points) \cup Pieces(given(e))
    <2>1. sector[i][e] \in Sector /\ sector[i][e].kind = "triangle"
        BY <1>1, <1>3, <1>10, <1>12 DEF Row
    <2> DEFINE w == sector[i][e].vertex
               q == sector[i][e].points \o given(e)
    <2>2. w \in Vertex /\ sector[i][e].points \in Seq(Piece) /\ given(e) \in Seq(Piece)
        BY <2>1, <1>5, <1>11, SectorFacts
    <2>3. q \in Seq(Piece)
        BY <2>2, ConcatProperties
    <2>4. sector'[i][e] = Triangle(w, q)
        BY <1>7, <1>12 DEF Expanded
    <2>5. Pieces(q) = Pieces(sector[i][e].points) \cup Pieces(given(e))
        BY <2>2, PiecesOfConcat
    <2> HIDE DEF w, q
    <2>6. Triangle(w, q).kind = "triangle" /\ Triangle(w, q).points = q
        BY <2>2, <2>3, SectorFacts
    <2> QED BY <2>4, <2>5, <2>6
<1>13. \A e \in Members(i) \ {d} : ~takes(e) => sector'[i][e] = sector[i][e]
    BY <1>7
<1>14. ASSUME NEW x
       PROVE  x \in Covered(i)' <=>
                \E e \in Members(i) \ {d} :
                    sector'[i][e].kind = "triangle" /\ x \in Pieces(sector'[i][e].points)
    BY <1>2 DEF Covered, Pieces
<1>15. ASSUME NEW x \in Covered(i)' PROVE x \in Covered(i)
    <2>1. PICK e \in Members(i) \ {d} :
            sector'[i][e].kind = "triangle" /\ x \in Pieces(sector'[i][e].points)
        BY <1>14
    <2>2. CASE takes(e)
        <3>1. x \in Pieces(sector[i][e].points) \/ x \in Pieces(points)
            BY <2>1, <2>2, <1>6, <1>11, <1>12
        <3> QED BY <3>1, <2>2, <1>3, <1>10, CoveredIs DEF points
    <2>3. CASE ~takes(e)
        BY <2>1, <2>3, <1>13, CoveredIs
    <2> QED BY <2>2, <2>3
<1>16. ASSUME NEW x \in Covered(i), x \notin Orphaned(i, d) PROVE x \in Covered(i)'
    <2>1. PICK e \in Members(i) :
            sector[i][e].kind = "triangle" /\ x \in Pieces(sector[i][e].points)
        BY CoveredIs
    <2>2. CASE e # d
        <3>1. CASE takes(e)
            BY <2>1, <2>2, <3>1, <1>12, <1>14
        <3>2. CASE ~takes(e)
            BY <2>1, <2>2, <3>2, <1>13, <1>14
        <3> QED BY <3>1, <3>2
    <2>3. CASE e = d
        <3>1. x \in Pieces(FirstHalf(points)) \/ x \in Pieces(SecondHalf(points))
            BY <2>1, <2>3, <1>6 DEF points
        <3>2. CASE x \in Pieces(FirstHalf(points))
            <4>1. ~Gone(i, d, Left(v))
                BY <3>2, <1>8, <1>16
            <4>2. PICK l \in Members(i) \ {d} : HoldsVertex(i, l, Left(v))
                BY <4>1 DEF Gone
            <4> QED BY <3>2, <4>2, <1>11, <1>12, <1>14
        <3>3. CASE x \in Pieces(SecondHalf(points))
            <4>1. ~Gone(i, d, Right(v))
                BY <3>3, <1>8, <1>16
            <4>2. PICK l \in Members(i) \ {d} : HoldsVertex(i, l, Right(v))
                BY <4>1 DEF Gone
            <4> QED BY <3>3, <4>2, <1>11, <1>12, <1>14
        <3> QED BY <3>1, <3>2, <3>3
    <2> QED BY <2>2, <2>3
<1> QED BY <1>15, <1>16

(* Whatever neighbours a removed drone has left, its waypoints stay        *)
(* covered but for the half of a neighbour that is gone (unregister_drone).*)
THEOREM WaypointsHandedOver == Spec => HandOver
<1> DEFINE Kept == \A i \in Coordinators : \A d \in Members(i) :
        d \notin Members(i)' /\ sector[i][d].kind = "triangle" =>
            /\ Covered(i)' \subseteq Covered(i)
            /\ Covered(i) \subseteq Covered(i)' \cup Orphaned(i, d)
<1>1. IInv /\ [Next]_vars => [Kept]_vars
    <2> SUFFICES ASSUME IInv, [Next]_vars,
                        NEW i \in Coordinators, NEW d \in Members(i),
                        d \notin Members(i)', sector[i][d].kind = "triangle"
                 PROVE  /\ Covered(i)' \subseteq Covered(i)
                        /\ Covered(i) \subseteq Covered(i)' \cup Orphaned(i, d)
        OBVIOUS
    <2>1. d \in Drones
        BY DEF IInv, Row, Members
    <2>2. order' # order
        BY DEF Members
    <2>3. ASSUME NEW j \in Coordinators, NEW e \in Drones, Register(j, e) PROVE FALSE
        BY <2>3, RegisterInvariant
    <2>4. ASSUME NEW j \in Coordinators, NEW e \in Drones, Unregister(j, e)
          PROVE  j = i /\ e = d
        BY <2>4, UnregisterInvariant
    <2>5. Unregister(i, d)
        BY <2>2, <2>3, <2>4 DEF Next, vars, Tick, Fail, Recover, ReassignForRadius
    <2> QED BY <2>1, <2>5, UnregisterHandsOver
<1> QED BY <1>1, RegimentInvariant, PTL DEF Spec, HandOver
=============================================================================
