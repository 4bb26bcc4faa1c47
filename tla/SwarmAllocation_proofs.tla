----------------------- MODULE SwarmAllocation_proofs -----------------------
(***************************************************************************)
(* The safety of the allocation for any number of drones and tasks, any    *)
(* scores, any number of failures and lost payloads and any clock.         *)
(*                                                                         *)
(* IInv is the inductive invariant: every engine is in order, every        *)
(* payload in flight carries its sender's own bids, and both respect the   *)
(* owner of a return-to-launch task.  The payload parts are what make it   *)
(* inductive: a receiver is safe because of what a sender could have put   *)
(* on the link earlier.                                                    *)
(***************************************************************************)
EXTENDS SwarmAllocation, CBBAEngine_proofs

\* Engine e lets only the owner have a return-to-launch task.
EngineRtl(e) ==
  \A c \in Drones : \A t \in RtlTasks[c] :
    /\ t \in e.known => e.asg[t] = c
    /\ e.bid[t] # NoBid => e.bid[t].agent = c

\* Payload m spreads a return-to-launch task as its owner's only.
PayloadRtl(m) ==
  \A c \in Drones : \A t \in RtlTasks[c] : t \in m.known => m.asg[t] = c

\* The bid that stands in for old on some drone's record is no worse.
Improves(old, new) == new = old \/ Better(new, old)

\* A step changes what a drone has recorded of another one's claim to a better
\* bid only, unless the claimant has just left its membership.
RecordsImprove ==
  \A d \in Drones, t \in Tasks :
    eng[d].bid[t].agent \notin (members[d] \ members'[d]) \cup {d}
      => Improves(eng[d].bid[t], eng'[d].bid[t])

\* Drone d flies t after the step, or has no room, or t may be infeasible or
\* not outbid.
FullOrOutbid(d, t) ==
  \/ t \in Bundled(eng'[d]) \/ Len(eng'[d].bundle) = MaxBundle
  \/ \E v \in ScoreOf[d][t] : ~CanBid(eng'[d], d, t, v)

\* Whom a task is open to after d's coordination step: everybody, if d has just
\* made it anew; else d, unless it is still assigned to another.
OpenTo(d, t, patrol) ==
  \/ patrol /\ t \in PerimeterTasks
  \/ t \in eng'[d].known /\ eng'[d].asg[t] \in {NoDrone, d}

NothingLeftBehind ==
  \A d \in Drones, silent \in SUBSET Drones, patrol \in BOOLEAN :
    CoordinationStep(d, silent, patrol)
      => \A t \in Tasks : OpenTo(d, t, patrol) => FullOrOutbid(d, t)

IInv ==
  /\ TypeOK
  /\ \A d \in Drones : EngineOK(d, eng[d]) /\ EngineRtl(eng[d])
  /\ \A s, r \in Drones : \A i \in 1..Len(chan[s][r]) :
       PayloadOK(s, chan[s][r][i]) /\ PayloadRtl(chan[s][r][i])
  /\ \A d \in Drones : chan[d][d] = << >>
  /\ NoGhostWinner

\* A task made without an owner, or for its owner, keeps the engine in order.
LEMMA GenerateKeeps ==
  ASSUME TypeOK, NEW d \in Drones, NEW e, EngineCore(d, e), EngineRtl(e),
         NEW patrol \in BOOLEAN
  PROVE  /\ EngineCore(d, GenerateTasks(e, d, patrol))
         /\ EngineRtl(GenerateTasks(e, d, patrol))
         /\ GenerateTasks(e, d, patrol).bid = e.bid
         /\ patrol => \A t \in PerimeterTasks : /\ t \in GenerateTasks(e, d, patrol).known
                                              /\ GenerateTasks(e, d, patrol).asg[t] = NoDrone
<1> DEFINE Up(f, g) == EngineCore(d, g) /\ EngineRtl(g) /\ g.bid = f.bid
           e1 == IF started[d] THEN e
                 ELSE UpsertTasks(e, SectorTasks, Unassigned(SectorTasks))
           e2 == IF d \in low
                 THEN UpsertTasks(e1, RtlTasks[d], [t \in RtlTasks[d] |-> d]) ELSE e1
           e3 == IF patrol
                 THEN UpsertTasks(e2, PerimeterTasks, Unassigned(PerimeterTasks)) ELSE e2
<1>1. \A f, ts : /\ EngineCore(d, f) /\ EngineRtl(f) /\ ts \in SUBSET Tasks
                 /\ \A c \in Drones : RtlTasks[c] \cap ts = {}
                 => Up(f, UpsertTasks(f, ts, Unassigned(ts)))
  <2> SUFFICES ASSUME NEW f, NEW ts \in SUBSET Tasks, EngineCore(d, f), EngineRtl(f),
                      \A c \in Drones : RtlTasks[c] \cap ts = {}
               PROVE  Up(f, UpsertTasks(f, ts, Unassigned(ts)))
    OBVIOUS
  <2> DEFINE g == UpsertTasks(f, ts, Unassigned(ts))
  <2>1. \A t \in ts : Unassigned(ts)[t] \in Drones \cup {NoDrone}
    BY DEF Unassigned
  <2>2. EngineCore(d, g) /\ Upserted(f, ts, Unassigned(ts), g)
    BY <2>1, UpsertKeepsCore
  <2>3. \A c \in Drones : RtlTasks[c] \in SUBSET (Tasks \ ts)
    BY AllocationAssumption
  <2> HIDE DEF g
  <2>4. EngineRtl(g)
    BY <2>2, <2>3 DEF EngineRtl, Upserted
  <2> QED BY <2>2, <2>4 DEF g, Upserted
<1>2. Up(e, e1)
  BY <1>1, AllocationAssumption
<1>3. Up(e, e2)
  <2>1. CASE d \in low
    <3> DEFINE own == [t \in RtlTasks[d] |-> d]
               g   == UpsertTasks(e1, RtlTasks[d], own)
    <3>1. RtlTasks[d] \in SUBSET Tasks /\ \A t \in RtlTasks[d] : own[t] \in Drones \cup {NoDrone}
      BY AllocationAssumption
    <3> HIDE DEF e1
    <3>2. EngineCore(d, g) /\ Upserted(e1, RtlTasks[d], own, g)
      <4> HIDE DEF own
      <4> QED BY <1>2, <3>1, UpsertKeepsCore
    <3>3. \A c \in Drones : RtlTasks[c] \subseteq Tasks /\ (c # d => RtlTasks[c] \cap RtlTasks[d] = {})
      BY AllocationAssumption
    <3> HIDE DEF g
    <3>4. EngineRtl(g)
      BY <1>2, <3>2, <3>3 DEF EngineRtl, Upserted
    <3> QED BY <1>2, <2>1, <3>2, <3>4 DEF g, Upserted
  <2>2. CASE d \notin low
    BY <1>2, <2>2
  <2> QED BY <2>1, <2>2
<1>4. Up(e, e3)
  <2> HIDE DEF e2
  <2> QED BY <1>1, <1>3, AllocationAssumption
<1>5. patrol => \A t \in PerimeterTasks : t \in e3.known /\ e3.asg[t] = NoDrone
  <2> SUFFICES ASSUME patrol PROVE \A t \in PerimeterTasks : t \in e3.known /\ e3.asg[t] = NoDrone
    OBVIOUS
  <2> DEFINE owner == Unassigned(PerimeterTasks)
  <2>1. PerimeterTasks \in SUBSET Tasks /\ \A t \in PerimeterTasks : owner[t] = NoDrone
    BY AllocationAssumption DEF Unassigned
  <2> HIDE DEF e2, owner
  <2>2. Upserted(e2, PerimeterTasks, owner, UpsertTasks(e2, PerimeterTasks, owner))
    BY <1>3, <2>1, UpsertKeepsCore
  <2>3. e3 = UpsertTasks(e2, PerimeterTasks, owner)
    BY DEF owner
  <2> HIDE DEF e3
  <2> QED BY <2>1, <2>2, <2>3 DEF Upserted
<1> HIDE DEF e3
<1>6. GenerateTasks(e, d, patrol) = e3
  BY DEF GenerateTasks, e3
<1> QED BY <1>4, <1>5, <1>6

\* What one coordination step makes of an engine.
LEMMA TickEngine ==
  ASSUME TypeOK, NEW d \in Drones, EngineOK(d, eng[d]), EngineRtl(eng[d]),
         NEW act \in SUBSET Drones, NEW patrol \in BOOLEAN,
         NEW f \in BundlePhase(GenerateTasks(UpdateMembership(d, act), d, patrol),
                               d, now, ScoreOf[d])
  PROVE  /\ EngineOK(d, f) /\ EngineRtl(f)
         /\ \A t \in Tasks : \/ f.bid[t] = NoBid \/ f.bid[t].agent = d
                             \/ /\ f.bid[t] = eng[d].bid[t]
                                /\ f.bid[t].agent \notin members[d] \ act
         /\ \A t \in Tasks : eng[d].bid[t].agent \notin (members[d] \ act) \cup {d}
                              => Improves(eng[d].bid[t], f.bid[t])
         /\ \A t \in Tasks : f.bid[t] \in {NoBid, eng[d].bid[t]} \/ f.bid[t].ts = now
<1> DEFINE c == UpdateMembership(d, act)
           g == GenerateTasks(c, d, patrol)
<1>1. /\ EngineOK(d, c)
      /\ \A t \in Tasks : /\ \/ c.bid[t] = NoBid
                             \/ /\ c.bid[t] = eng[d].bid[t]
                                /\ c.bid[t].agent \notin members[d] \ act
                          /\ eng[d].bid[t].agent \notin (members[d] \ act) \cup {d}
                               => c.bid[t] = eng[d].bid[t]
      /\ c.known = eng[d].known
      /\ AsgFollows(eng[d], c)
  <2>1. members[d] \ act \in SUBSET Drones
    BY DEF TypeOK
  <2> QED BY <2>1, ClearKeepsOK DEF EngineOK, UpdateMembership
<1>2. \A a \in Drones : RtlTasks[a] \subseteq Tasks
  BY AllocationAssumption
<1> HIDE DEF c
<1>3. EngineRtl(c)
  BY <1>1, <1>2 DEF EngineRtl, AsgFollows
<1>4. /\ EngineCore(d, g) /\ EngineRtl(g) /\ g.bid = c.bid
  BY <1>1, <1>3, GenerateKeeps DEF EngineOK
<1> HIDE DEF g
<1>5. /\ EngineOK(d, f) /\ f.known = g.known /\ AsgFollows(g, f)
      /\ \A t \in Tasks :
           \/ f.bid[t] = g.bid[t]
           \/ /\ f.bid[t].agent = d /\ t \in g.known /\ g.asg[t] \in {NoDrone, d}
              /\ Better(f.bid[t], g.bid[t]) /\ f.bid[t].ts = now
  <2>1. now \in Nat
    BY DEF TypeOK
  <2>2. f \in BundlePhase(g, d, now, ScoreOf[d])
    BY DEF g, c
  <2> QED BY <1>4, <2>1, <2>2, BundlePhaseKeepsOK
<1>6. EngineRtl(f)
  <2> SUFFICES ASSUME NEW a \in Drones, NEW t \in RtlTasks[a]
               PROVE  /\ t \in f.known => f.asg[t] = a
                      /\ f.bid[t] # NoBid => f.bid[t].agent = a
    BY DEF EngineRtl
  <2>1. t \in Tasks /\ a # NoDrone
    BY <1>2, EngineAssumption
  <2>2. /\ t \in g.known => g.asg[t] = a
        /\ g.bid[t] # NoBid => g.bid[t].agent = a
    BY <1>4 DEF EngineRtl
  <2>3. f.bid[t] # NoBid => f.bid[t].agent = a
    BY <1>5, <2>1, <2>2
  <2> QED BY <1>5, <2>1, <2>2, <2>3 DEF AsgFollows
<1>7. \A t \in Tasks : \/ f.bid[t] = NoBid \/ f.bid[t].agent = d
                       \/ /\ f.bid[t] = eng[d].bid[t]
                          /\ f.bid[t].agent \notin members[d] \ act
  BY <1>1, <1>4, <1>5
<1>8. \A t \in Tasks : eng[d].bid[t].agent \notin (members[d] \ act) \cup {d}
                        => Improves(eng[d].bid[t], f.bid[t])
  BY <1>1, <1>4, <1>5 DEF Improves
<1>9. \A t \in Tasks : f.bid[t] \in {NoBid, eng[d].bid[t]} \/ f.bid[t].ts = now
  BY <1>1, <1>4, <1>5
<1> QED BY <1>5, <1>6, <1>7, <1>8, <1>9

\* What one coordination step takes up.
LEMMA TickTakes ==
  ASSUME IInv, NEW d \in Drones, NEW silent \in SUBSET Drones, NEW patrol \in BOOLEAN,
         CoordinationStep(d, silent, patrol),
         NEW t \in Tasks, OpenTo(d, t, patrol)
  PROVE  FullOrOutbid(d, t)
<1> DEFINE act == active[d] \ silent
           c   == UpdateMembership(d, act)
           g   == GenerateTasks(c, d, patrol)
<1>1. PICK f \in BundlePhase(g, d, now, ScoreOf[d]) : eng' = [eng EXCEPT ![d] = f]
  BY DEF CoordinationStep
<1>2. TypeOK /\ EngineOK(d, eng[d]) /\ EngineRtl(eng[d]) /\ eng'[d] = f
  BY <1>1 DEF IInv, TypeOK
<1>3. /\ EngineOK(d, c) /\ c.known = eng[d].known /\ AsgFollows(eng[d], c)
      /\ \A u \in Tasks : c.bid[u] = NoBid \/ c.bid[u] = eng[d].bid[u]
  <2>1. members[d] \ act \in SUBSET Drones
    BY <1>2 DEF TypeOK
  <2> QED BY <1>2, <2>1, ClearKeepsOK DEF EngineOK, UpdateMembership
<1> HIDE DEF c
<1>4. EngineRtl(c)
  <2>1. \A a \in Drones : RtlTasks[a] \subseteq Tasks
    BY AllocationAssumption
  <2> QED BY <1>2, <1>3, <2>1 DEF EngineRtl, AsgFollows
<1>5. /\ EngineCore(d, g)
      /\ patrol /\ t \in PerimeterTasks => t \in g.known /\ g.asg[t] = NoDrone
  BY <1>2, <1>3, <1>4, GenerateKeeps DEF EngineOK
<1> HIDE DEF g
<1>6. EngineOK(d, f) /\ f.known = g.known /\ AsgFollows(g, f)
  <2>1. now \in Nat
    BY <1>2 DEF TypeOK
  <2>2. f \in BundlePhase(g, d, now, ScoreOf[d])
    BY <1>1
  <2> QED BY <1>5, <2>1, <2>2, BundlePhaseKeepsOK
<1>7. ASSUME t \in g.known, g.asg[t] \in {NoDrone, d} PROVE FullOrOutbid(d, t)
  <2>1. ScoreOf[d][t] \in SUBSET Int
    BY AllocationAssumption
  <2>2. \/ t \in Bundled(f) \/ Len(f.bundle) >= MaxBundle
        \/ \E v \in ScoreOf[d][t] : ~CanBid(f, d, t, v)
    BY <1>5, <1>7, <2>1, BundlePhaseTakes
  <2>3. Len(f.bundle) <= MaxBundle /\ Len(f.bundle) \in Nat /\ MaxBundle \in Nat
    BY <1>6, EngineAssumption, LenProperties DEF EngineOK, EngineCore, Engine
  <2> QED BY <1>2, <2>2, <2>3 DEF FullOrOutbid
<1>8. CASE patrol /\ t \in PerimeterTasks
  BY <1>5, <1>7, <1>8
<1>9. CASE t \in f.known /\ f.asg[t] \in {NoDrone, d}
  <2>1. CASE f.bid[t] = NoBid
    BY <1>6, <1>7, <1>9, <2>1 DEF AsgFollows
  <2>2. CASE f.bid[t] # NoBid
    <3>1. f.bid[t].agent = f.asg[t] /\ f.bid[t].agent \in Drones
      BY <1>6, <2>2 DEF EngineOK, EngineCore, Engine, Bid
    <3>2. f.bid[t].agent = d
      BY <1>9, <3>1, EngineAssumption
    <3> QED BY <1>2, <1>6, <3>2 DEF EngineOK, EngineCore, FullOrOutbid
  <2> QED BY <2>1, <2>2
<1> QED BY <1>2, <1>8, <1>9 DEF OpenTo

\* What taking one payload makes of an engine.
LEMMA IngestEngine ==
  ASSUME NEW d \in Drones, NEW e, EngineOK(d, e), EngineRtl(e),
         NEW s \in Drones, s # d, NEW m, PayloadOK(s, m), PayloadRtl(m)
  PROVE  /\ EngineOK(d, IngestGossip(e, d, m)) /\ EngineRtl(IngestGossip(e, d, m))
         /\ \A t \in Tasks : LET b == IngestGossip(e, d, m).bid[t]
                             IN  b = NoBid \/ b = e.bid[t] \/ b.agent = s
         /\ \A t \in Tasks : e.bid[t].agent # d
                              => Improves(e.bid[t], IngestGossip(e, d, m).bid[t])
         /\ \A t \in Tasks : IngestGossip(e, d, m).bid[t] \in {NoBid, e.bid[t], m.bid[t]}
<1> DEFINE g == UpsertTasks(e, m.known, m.asg)
           f == ConsensusPhase(g, d, m)
<1>1. EngineCore(d, g) /\ Upserted(e, m.known, m.asg, g)
  <2>1. m.known \in SUBSET Tasks /\ \A t \in m.known : m.asg[t] \in Drones \cup {NoDrone}
    BY DEF PayloadOK
  <2>2. EngineCore(d, e)
    BY DEF EngineOK
  <2> QED BY <2>1, <2>2, UpsertKeepsCore
<1>2. \A a \in Drones : RtlTasks[a] \subseteq Tasks
  BY AllocationAssumption
<1> HIDE DEF g
<1>3. EngineRtl(g)
  BY <1>1, <1>2 DEF EngineRtl, PayloadRtl, Upserted
<1>4. /\ EngineOK(d, f) /\ f.known = g.known /\ AsgFollows(g, f)
      /\ \A t \in Tasks : \/ f.bid[t] = NoBid \/ f.bid[t] = g.bid[t]
                          \/ /\ f.bid[t] = m.bid[t] /\ f.bid[t].agent = s
                             /\ t \in Elems(m.bundle)
  BY <1>1, ConsensusKeepsOK DEF Upserted
<1>41. \A t \in Tasks : g.bid[t].agent # d => Improves(g.bid[t], f.bid[t])
  BY <1>1, ConsensusImproves DEF Improves
<1> HIDE DEF f
<1>5. EngineRtl(f)
  <2> SUFFICES ASSUME NEW a \in Drones, NEW t \in RtlTasks[a]
               PROVE  /\ t \in f.known => f.asg[t] = a
                      /\ f.bid[t] # NoBid => f.bid[t].agent = a
    BY DEF EngineRtl
  <2>1. t \in Tasks
    BY <1>2
  <2>2. /\ t \in g.known => g.asg[t] = a
        /\ g.bid[t] # NoBid => g.bid[t].agent = a
    BY <1>3 DEF EngineRtl
  <2>3. t \in Elems(m.bundle) => s = a
    BY <2>1 DEF PayloadOK, PayloadRtl
  <2>4. f.bid[t] # NoBid => f.bid[t].agent = a
    BY <1>4, <2>1, <2>2, <2>3
  <2> QED BY <1>4, <2>1, <2>2, <2>4 DEF AsgFollows
<1>6. IngestGossip(e, d, m) = f
  BY DEF IngestGossip, f, g
<1>7. g.bid = e.bid
  BY <1>1 DEF Upserted
<1> QED BY <1>4, <1>41, <1>5, <1>6, <1>7

-----------------------------------------------------------------------------
\* A new engine is in order and claims nothing.
LEMMA InitIInv == Init => IInv
<1> SUFFICES ASSUME Init PROVE IInv
  OBVIOUS
<1>1. NewEngine \in Engine
  BY DEF NewEngine, Engine
<1>2. \A d \in Drones : EngineOK(d, NewEngine) /\ EngineRtl(NewEngine)
  <2> SUFFICES ASSUME NEW d \in Drones PROVE EngineOK(d, NewEngine) /\ EngineRtl(NewEngine)
    OBVIOUS
  <2>1. /\ NewEngine.bundle = << >> /\ NewEngine.known = {}
        /\ \A t \in Tasks : NewEngine.bid[t] = NoBid
    BY DEF NewEngine
  <2>2. Len(NewEngine.bundle) = 0 /\ Bundled(NewEngine) = {}
    BY <2>1 DEF Bundled, Elems
  <2>3. NoBid.agent # d
    BY EngineAssumption DEF NoBid
  <2>4. \A c \in Drones : RtlTasks[c] \subseteq Tasks
    BY AllocationAssumption
  <2> QED BY <1>1, <2>1, <2>2, <2>3, <2>4, EngineAssumption
         DEF EngineOK, EngineCore, EngineRtl
<1>3. TypeOK
  BY <1>1 DEF Init, TypeOK
<1>4. \A s, r \in Drones : chan[s][r] = << >>
  BY DEF Init
<1>5. NoGhostWinner
  BY DEF Init, NoGhostWinner, NewEngine
<1> QED BY <1>2, <1>3, <1>4, <1>5 DEF IInv, Init

\* The parts of IInv that are about the links alone, and the rest of it.
LinksOK ==
  /\ chan \in [Drones -> [Drones -> Seq(PayloadType)]]
  /\ \A s, r \in Drones : \A i \in 1..Len(chan[s][r]) :
       PayloadOK(s, chan[s][r][i]) /\ PayloadRtl(chan[s][r][i])
  /\ \A d \in Drones : chan[d][d] = << >>

\* The payloads on their way from a to b.
Sent(a, b) == {chan[a][b][i] : i \in 1..Len(chan[a][b])}

EnginesOK == \A d \in Drones : EngineOK(d, eng[d]) /\ EngineRtl(eng[d])

\* Dropping the oldest payloads of a link leaves the links in order.
LEMMA DropKeepsLinks ==
  ASSUME LinksOK, NEW s \in Drones, NEW r \in Drones,
         NEW i \in 1..Len(chan[s][r]),
         chan' = [chan EXCEPT ![s][r] = After(chan[s][r], i)]
  PROVE  LinksOK' /\ \A a, b \in Drones : Sent(a, b)' \subseteq Sent(a, b)
<1> DEFINE q == chan[s][r]
<1>1. q \in Seq(PayloadType) /\ Len(q) \in Nat
  BY LenProperties DEF LinksOK
<1>2. /\ After(q, i) \in Seq(PayloadType) /\ Len(After(q, i)) = Len(q) - i
      /\ \A j \in 1..Len(After(q, i)) : After(q, i)[j] = q[i + j]
  <2> HIDE DEF q
  <2>1. i \in Nat /\ 1 <= i /\ i <= Len(q)
    BY <1>1 DEF q
  <2>2. \A j \in (i+1)..Len(q) : q[j] \in PayloadType
    BY <1>1, <2>1, ElementOfSeq
  <2>3. /\ SubSeq(q, i+1, Len(q)) \in Seq(PayloadType)
        /\ Len(SubSeq(q, i+1, Len(q))) = Len(q) - i
    BY <1>1, <2>1, <2>2, SubSeqProperties
  <2>4. \A j \in 1..Len(q) - i : SubSeq(q, i+1, Len(q))[j] = q[i + j]
    BY <1>1, <2>1, <2>2, SubSeqProperties
  <2> QED BY <2>3, <2>4 DEF After
<1>3. chan' \in [Drones -> [Drones -> Seq(PayloadType)]]
  <2> HIDE DEF q
  <2>1. After(q, i) \in Seq(PayloadType)
    BY <1>2
  <2> QED BY <2>1 DEF LinksOK, q
<1>4. \A a, b \in Drones : chan'[a][b] = IF a = s /\ b = r THEN After(q, i) ELSE chan[a][b]
  BY DEF LinksOK
<1>5. \A j \in 1..Len(After(q, i)) :
        /\ PayloadOK(s, After(q, i)[j]) /\ PayloadRtl(After(q, i)[j])
        /\ \E k \in 1..Len(q) : After(q, i)[j] = q[k]
  <2>1. \A k \in 1..Len(q) : PayloadOK(s, q[k]) /\ PayloadRtl(q[k])
    BY DEF LinksOK
  <2>2. i \in Nat /\ 1 <= i /\ i <= Len(q)
    BY <1>1
  <2> HIDE DEF q
  <2>3. \A j \in 1..Len(After(q, i)) : i + j \in 1..Len(q)
    BY <1>1, <1>2, <2>2
  <2> QED BY <1>2, <2>1, <2>3
<1>6. s # r
  BY <1>1 DEF LinksOK
<1> HIDE DEF q
<1>7. ASSUME NEW a \in Drones, NEW b \in Drones, NEW j \in 1..Len(chan'[a][b])
      PROVE  PayloadOK(a, chan'[a][b][j]) /\ PayloadRtl(chan'[a][b][j])
  <2>1. CASE a = s /\ b = r
    BY <1>4, <1>5, <1>7, <2>1
  <2>2. CASE ~(a = s /\ b = r)
    BY <1>4, <1>7, <2>2 DEF LinksOK
  <2> QED BY <2>1, <2>2
<1>8. \A a \in Drones : chan'[a][a] = << >>
  BY <1>4, <1>6 DEF LinksOK
<1>9. ASSUME NEW a \in Drones, NEW b \in Drones
      PROVE  Sent(a, b)' \subseteq Sent(a, b)
  <2>1. CASE a = s /\ b = r
    <3>1. chan'[a][b] = After(q, i) /\ chan[a][b] = q
      BY <1>4, <2>1 DEF q
    <3> QED BY <1>5, <3>1 DEF Sent
  <2>2. CASE ~(a = s /\ b = r)
    BY <1>4, <2>2 DEF Sent
  <2> QED BY <2>1, <2>2
<1> QED BY <1>3, <1>7, <1>8, <1>9 DEF LinksOK

\* A coordination step preserves the invariant.
LEMMA TickKeeps ==
  ASSUME IInv, NEW d \in Drones, Tick(d)
  PROVE  /\ IInv' /\ RecordsImprove
         /\ \A c \in Drones, t \in Tasks :
              eng'[c].bid[t] \in {NoBid, eng[c].bid[t]} \/ eng'[c].bid[t].ts = now
<1>1. PICK silent \in SUBSET MaySuspect(d), patrol \in BOOLEAN :
        CoordinationStep(d, silent, patrol)
  BY DEF Tick
<1> DEFINE act == active[d] \ silent
<1>2. /\ act \in SUBSET Drones /\ silent \subseteq members[d]
  <2>1. MaySuspect(d) \subseteq members[d]
    BY DEF MaySuspect
  <2> QED BY <2>1 DEF IInv, TypeOK
<1>3. PICK f \in BundlePhase(GenerateTasks(UpdateMembership(d, act), d, patrol),
                             d, now, ScoreOf[d]) :
        eng' = [eng EXCEPT ![d] = f]
  BY <1>1 DEF CoordinationStep
<1>4. /\ started' = [started EXCEPT ![d] = TRUE]
      /\ active' = [active EXCEPT ![d] = act]
      /\ members' = [members EXCEPT ![d] = act]
      /\ UNCHANGED <<low, up, now, chan>>
  BY <1>1 DEF CoordinationStep
<1>5. TypeOK /\ EngineOK(d, eng[d]) /\ EngineRtl(eng[d]) /\ NoGhostWinner
  BY DEF IInv
<1>6. /\ EngineOK(d, f) /\ EngineRtl(f)
      /\ \A t \in Tasks : \/ f.bid[t] = NoBid \/ f.bid[t].agent = d
                          \/ /\ f.bid[t] = eng[d].bid[t]
                             /\ f.bid[t].agent \notin members[d] \ act
      /\ \A t \in Tasks : eng[d].bid[t].agent \notin (members[d] \ act) \cup {d}
                          => Improves(eng[d].bid[t], f.bid[t])
      /\ \A t \in Tasks : f.bid[t] \in {NoBid, eng[d].bid[t]} \/ f.bid[t].ts = now
  <2> HIDE DEF act
  <2> QED BY <1>2, <1>3, <1>5, TickEngine
<1>7. /\ eng' \in [Drones -> Engine]
      /\ \A c \in Drones : eng'[c] = IF c = d THEN f ELSE eng[c]
  BY <1>3, <1>5, <1>6 DEF TypeOK, EngineOK, EngineCore
<1>8. /\ \A c \in Drones : active'[c] = IF c = d THEN act ELSE active[c]
      /\ \A c \in Drones : members'[c] = IF c = d THEN act ELSE members[c]
  BY <1>4, <1>5 DEF TypeOK
<1>9. TypeOK'
  BY <1>2, <1>4, <1>5, <1>7 DEF TypeOK
<1>10. EnginesOK'
  BY <1>6, <1>7 DEF EnginesOK, IInv
<1>11. \A t \in Tasks : f.bid[t] # NoBid => f.bid[t].agent \in act \cup {d}
  <2> SUFFICES ASSUME NEW t \in Tasks, f.bid[t] # NoBid, f.bid[t].agent # d
               PROVE  f.bid[t].agent \in act
    OBVIOUS
  <2>1. f.bid[t] = eng[d].bid[t] /\ f.bid[t].agent \notin members[d] \ act
    BY <1>6
  <2>2. f.bid[t].agent \in members[d] \cup active[d] \cup {d}
    BY <1>5, <2>1 DEF NoGhostWinner
  <2> QED BY <1>2, <2>1, <2>2
<1>12. NoGhostWinner'
  BY <1>5, <1>7, <1>8, <1>11 DEF NoGhostWinner
<1>13. IInv'
  BY <1>4, <1>9, <1>10, <1>12 DEF IInv, EnginesOK
<1>14. RecordsImprove
  BY <1>6, <1>7, <1>8 DEF RecordsImprove, Improves
<1>15. \A c \in Drones, t \in Tasks :
         eng'[c].bid[t] \in {NoBid, eng[c].bid[t]} \/ eng'[c].bid[t].ts = now
  BY <1>6, <1>7
<1> QED BY <1>13, <1>14, <1>15

\* Gossip puts the sender's own claims on the link.
LEMMA GossipKeeps ==
  ASSUME IInv, NEW d \in Drones, Gossip(d)
  PROVE  /\ IInv'
         /\ \A a, b \in Drones : Sent(a, b)' \subseteq Sent(a, b) \cup {Payload(eng[a])}
<1> DEFINE m == Payload(eng[d])
<1>1. PICK ts \in Targets(d) :
        chan' = [chan EXCEPT ![d] = [r \in Drones |->
                   IF r \in ts THEN Append(chan[d][r], m) ELSE chan[d][r]]]
  BY DEF Gossip
<1>2. d \notin ts
  BY DEF Targets
<1>3. PayloadOK(d, m)
  BY PayloadIsOwn DEF IInv
<1>4. m \in PayloadType
  BY <1>3 DEF Payload, PayloadOK, PayloadType
<1>5. PayloadRtl(m)
  BY DEF IInv, EngineRtl, PayloadRtl, Payload
<1> HIDE DEF m
<1>6. chan \in [Drones -> [Drones -> Seq(PayloadType)]]
  BY DEF IInv, TypeOK
<1>7. \A a, b \in Drones : chan'[a][b] = IF a = d /\ b \in ts
                                         THEN Append(chan[a][b], m) ELSE chan[a][b]
  BY <1>1, <1>6
<1>8. \A b \in Drones : /\ Append(chan[d][b], m) \in Seq(PayloadType)
                        /\ Len(Append(chan[d][b], m)) = Len(chan[d][b]) + 1
                        /\ \A i \in 1..Len(chan[d][b]) + 1 :
                             Append(chan[d][b], m)[i] =
                               IF i = Len(chan[d][b]) + 1 THEN m ELSE chan[d][b][i]
  BY <1>4, <1>6, AppendProperties
<1>9. chan' \in [Drones -> [Drones -> Seq(PayloadType)]]
  BY <1>1, <1>6, <1>8
<1>10. ASSUME NEW s \in Drones, NEW r \in Drones, NEW i \in 1..Len(chan'[s][r])
       PROVE  PayloadOK(s, chan'[s][r][i]) /\ PayloadRtl(chan'[s][r][i])
  <2>1. CASE s = d /\ r \in ts
    <3>1. chan'[s][r] = Append(chan[d][r], m)
      BY <1>7, <2>1
    <3>2. Len(chan[d][r]) \in Nat
      BY <1>6, LenProperties
    <3>3. CASE i = Len(chan[d][r]) + 1
      <4>1. chan'[s][r][i] = m
        BY <1>8, <3>1, <3>2, <3>3
      <4> QED BY <1>3, <1>5, <2>1, <4>1
    <3>4. CASE i # Len(chan[d][r]) + 1
      <4>1. i \in 1..Len(chan[d][r]) /\ chan'[s][r][i] = chan[d][r][i]
        BY <1>8, <3>1, <3>2, <3>4
      <4> QED BY <2>1, <4>1 DEF IInv
    <3> QED BY <3>3, <3>4
  <2>2. CASE ~(s = d /\ r \in ts)
    <3>1. chan'[s][r] = chan[s][r]
      BY <1>7, <2>2
    <3> QED BY <3>1 DEF IInv
  <2> QED BY <2>1, <2>2
<1>11. \A c \in Drones : chan'[c][c] = << >>
  BY <1>2, <1>7 DEF IInv
<1>12. UNCHANGED <<eng, started, active, members, low, up, now>>
  BY DEF Gossip
<1>13. TypeOK' /\ NoGhostWinner'
  BY <1>9, <1>12 DEF IInv, TypeOK, NoGhostWinner
<1>14. \A c \in Drones : EngineOK(c, eng'[c]) /\ EngineRtl(eng'[c])
  BY <1>12 DEF IInv
<1>15. ASSUME NEW a \in Drones, NEW b \in Drones, a = d /\ b \in ts,
              NEW i \in 1..Len(chan'[a][b])
       PROVE  chan'[a][b][i] \in Sent(a, b) \cup {m}
  <2>1. chan'[a][b] = Append(chan[d][b], m) /\ chan[a][b] = chan[d][b]
    BY <1>7, <1>15
  <2>2. Len(chan[d][b]) \in Nat
    BY <1>6, LenProperties
  <2>3. i \in 1..Len(chan[d][b]) \/ i = Len(chan[d][b]) + 1
    BY <1>8, <2>1, <2>2
  <2> QED BY <1>8, <2>1, <2>2, <2>3 DEF Sent
<1>16. ASSUME NEW a \in Drones, NEW b \in Drones
       PROVE  Sent(a, b)' \subseteq Sent(a, b) \cup {Payload(eng[a])}
  <2>1. CASE a = d /\ b \in ts
    BY <1>15, <2>1 DEF Sent, m
  <2>2. CASE ~(a = d /\ b \in ts)
    BY <1>7, <2>2 DEF Sent
  <2> QED BY <2>1, <2>2
<1> QED BY <1>10, <1>11, <1>13, <1>14, <1>16 DEF IInv

\* Taking a payload: the sender is active again, and its bids are its own.
LEMMA IngestKeeps ==
  ASSUME IInv, NEW s \in Drones, NEW r \in Drones, NEW i, Ingest(s, r, i)
  PROVE  /\ IInv' /\ RecordsImprove
         /\ \A a, b \in Drones : Sent(a, b)' \subseteq Sent(a, b)
         /\ \E p \in Sent(s, r) : \A c \in Drones, t \in Tasks :
              eng'[c].bid[t] \in {NoBid, eng[c].bid[t], p.bid[t]}
<1> DEFINE m == chan[s][r][i]
           f == IngestGossip(eng[r], r, m)
<1>1. /\ i \in 1..Len(chan[s][r])
      /\ chan' = [chan EXCEPT ![s][r] = After(chan[s][r], i)]
      /\ active' = [active EXCEPT ![r] = @ \cup {s}]
      /\ eng' = [eng EXCEPT ![r] = f]
      /\ UNCHANGED <<started, members, low, up, now>>
  BY DEF Ingest
<1>2. TypeOK /\ NoGhostWinner /\ EnginesOK /\ LinksOK
  BY DEF IInv, EnginesOK, LinksOK, TypeOK
<1>3. s # r
  <2>1. Len(chan[s][r]) # 0
    BY <1>1, <1>2, LenProperties DEF LinksOK
  <2> QED BY <1>2, <2>1 DEF LinksOK
<1>4. PayloadOK(s, m) /\ PayloadRtl(m)
  BY <1>1, <1>2 DEF LinksOK
<1>5. /\ EngineOK(r, f) /\ EngineRtl(f)
      /\ \A t \in Tasks : f.bid[t] = NoBid \/ f.bid[t] = eng[r].bid[t] \/ f.bid[t].agent = s
      /\ \A t \in Tasks : eng[r].bid[t].agent # r => Improves(eng[r].bid[t], f.bid[t])
      /\ \A t \in Tasks : f.bid[t] \in {NoBid, eng[r].bid[t], m.bid[t]}
  <2>1. EngineOK(r, eng[r]) /\ EngineRtl(eng[r])
    BY <1>2 DEF EnginesOK
  <2> HIDE DEF m
  <2> QED BY <1>3, <1>4, <2>1, IngestEngine
<1> HIDE DEF f, m
<1>55. m \in Sent(s, r)
  BY <1>1 DEF Sent, m
<1>6. LinksOK' /\ \A a, b \in Drones : Sent(a, b)' \subseteq Sent(a, b)
  BY <1>1, <1>2, DropKeepsLinks
<1>7. /\ eng' \in [Drones -> Engine]
      /\ \A c \in Drones : eng'[c] = IF c = r THEN f ELSE eng[c]
  BY <1>1, <1>2, <1>5 DEF TypeOK, EngineOK, EngineCore
<1>8. /\ active' \in [Drones -> SUBSET Drones]
      /\ \A c \in Drones : active'[c] = IF c = r THEN active[c] \cup {s} ELSE active[c]
  BY <1>1, <1>2 DEF TypeOK
<1>9. TypeOK'
  BY <1>1, <1>2, <1>6, <1>7, <1>8 DEF TypeOK, LinksOK
<1>10. EnginesOK'
  BY <1>2, <1>5, <1>7 DEF EnginesOK
<1>11. NoGhostWinner'
  BY <1>1, <1>2, <1>5, <1>7, <1>8 DEF NoGhostWinner
<1>12. RecordsImprove
  BY <1>5, <1>7 DEF RecordsImprove, Improves
<1>13. \A c \in Drones, t \in Tasks : eng'[c].bid[t] \in {NoBid, eng[c].bid[t], m.bid[t]}
  BY <1>5, <1>7
<1> QED BY <1>55, <1>13, <1>6, <1>9, <1>10, <1>11, <1>12 DEF IInv, EnginesOK, LinksOK

\* A lost payload.
LEMMA LoseKeeps ==
  ASSUME IInv, NEW s \in Drones, NEW r \in Drones, Lose(s, r)
  PROVE  IInv' /\ \A a, b \in Drones : Sent(a, b)' \subseteq Sent(a, b)
<1>1. LinksOK /\ chan[s][r] \in Seq(PayloadType) /\ chan[s][r] # << >>
  BY DEF IInv, LinksOK, TypeOK, Lose
<1>2. 1 \in 1..Len(chan[s][r]) /\ Tail(chan[s][r]) = After(chan[s][r], 1)
  BY <1>1 DEF After
<1>3. LinksOK' /\ \A a, b \in Drones : Sent(a, b)' \subseteq Sent(a, b)
  BY <1>1, <1>2, DropKeepsLinks DEF Lose
<1>4. UNCHANGED <<eng, started, active, members, low, up, now>>
  BY DEF Lose
<1>5. TypeOK' /\ NoGhostWinner'
  BY <1>3, <1>4 DEF IInv, TypeOK, NoGhostWinner, LinksOK
<1>6. \A c \in Drones : EngineOK(c, eng'[c]) /\ EngineRtl(eng'[c])
  BY <1>4 DEF IInv
<1> QED BY <1>3, <1>5, <1>6 DEF IInv, LinksOK

\* Steps of the environment that leave engines, memberships and links alone.
LEMMA EnvironmentKeeps ==
  ASSUME IInv, UNCHANGED <<eng, started, active, members, chan>>,
         low' \subseteq Drones, up' \subseteq Drones, now' \in Nat
  PROVE  IInv'
<1>1. TypeOK' /\ NoGhostWinner'
  BY DEF IInv, TypeOK, NoGhostWinner
<1>2. /\ \A d \in Drones : EngineOK(d, eng'[d]) /\ EngineRtl(eng'[d])
      /\ \A s, r \in Drones : \A i \in 1..Len(chan'[s][r]) :
           PayloadOK(s, chan'[s][r][i]) /\ PayloadRtl(chan'[s][r][i])
      /\ \A d \in Drones : chan'[d][d] = << >>
  BY DEF IInv
<1> QED BY <1>1, <1>2 DEF IInv

-----------------------------------------------------------------------------
\* The invariant is inductive, and no step replaces a record by a worse one.
LEMMA NextKeeps ==
  ASSUME IInv, [Next]_vars
  PROVE  IInv' /\ RecordsImprove
<1>0. (UNCHANGED eng) => RecordsImprove
  BY DEF RecordsImprove, Improves
<1>1. ASSUME NEW d \in Drones, Tick(d) PROVE IInv' /\ RecordsImprove
  BY <1>1, TickKeeps
<1>2. ASSUME NEW d \in Drones, Gossip(d) PROVE IInv' /\ RecordsImprove
  BY <1>0, <1>2, GossipKeeps DEF Gossip
<1>3. ASSUME NEW d \in Drones, BatteryLow(d) PROVE IInv' /\ RecordsImprove
  <2>1. low' \subseteq Drones /\ up' \subseteq Drones /\ now' \in Nat
    BY <1>3 DEF BatteryLow, IInv, TypeOK
  <2> QED BY <1>0, <1>3, <2>1, EnvironmentKeeps DEF BatteryLow
<1>4. ASSUME NEW d \in Drones, Fail(d) PROVE IInv' /\ RecordsImprove
  <2>1. low' \subseteq Drones /\ up' \subseteq Drones /\ now' \in Nat
    BY <1>4 DEF Fail, IInv, TypeOK
  <2> QED BY <1>0, <1>4, <2>1, EnvironmentKeeps DEF Fail
<1>5. ASSUME NEW s \in Drones, NEW r \in Drones, Lose(s, r) PROVE IInv' /\ RecordsImprove
  BY <1>0, <1>5, LoseKeeps DEF Lose
<1>6. ASSUME NEW s \in Drones, NEW r \in Drones, NEW i \in 1..Capacity, Ingest(s, r, i)
      PROVE  IInv' /\ RecordsImprove
  BY <1>6, IngestKeeps
<1>7. ASSUME ClockAdvances PROVE IInv' /\ RecordsImprove
  <2>1. low' \subseteq Drones /\ up' \subseteq Drones /\ now' \in Nat
    BY <1>7 DEF ClockAdvances, IInv, TypeOK
  <2> QED BY <1>0, <1>7, <2>1, EnvironmentKeeps DEF ClockAdvances
<1>8. ASSUME UNCHANGED vars PROVE IInv' /\ RecordsImprove
  <2>1. low' \subseteq Drones /\ up' \subseteq Drones /\ now' \in Nat
    BY <1>8 DEF vars, IInv, TypeOK
  <2> QED BY <1>0, <1>8, <2>1, EnvironmentKeeps DEF vars
<1> QED BY <1>1, <1>2, <1>3, <1>4, <1>5, <1>6, <1>7, <1>8 DEF Next

\* What IInv says of the drones' view of the auction.
LEMMA IInvImplies ==
  ASSUME IInv
  PROVE  /\ OwnClaimsAreBundle /\ BundleWellFormed
         /\ AssignmentMirrorsAuction /\ RtlIsPrivate
<1>1. OwnClaimsAreBundle /\ BundleWellFormed
  BY DEF IInv, EngineOK, EngineCore, OwnClaimsAreBundle, BundleWellFormed
<1>2. AssignmentMirrorsAuction
  BY DEF IInv, EngineOK, EngineCore, AssignmentMirrorsAuction
<1>3. RtlIsPrivate
  <2> SUFFICES ASSUME NEW d \in Drones, NEW c \in Drones, d # c,
                      NEW t \in RtlTasks[d], t \in Bundled(eng[c])
               PROVE  FALSE
    BY DEF RtlIsPrivate
  <2>1. t \in Tasks
    BY AllocationAssumption
  <2>2. eng[c].bid[t].agent = c
    BY <2>1 DEF IInv, EngineOK, EngineCore
  <2>3. eng[c].bid[t] # NoBid
    BY <2>2, EngineAssumption DEF NoBid
  <2> QED BY <2>2, <2>3 DEF IInv, EngineRtl
<1> QED BY <1>1, <1>2, <1>3

\* Every state of every behaviour satisfies the inductive invariant.
THEOREM AllocationInvariant == Spec => []IInv
<1>1. IInv /\ [Next]_vars => IInv'
  BY NextKeeps
<1> QED BY InitIInv, <1>1, PTL DEF Spec

\* The state keeps its shape.
THEOREM TypeCorrect == Spec => []TypeOK
<1>1. IInv => TypeOK
  BY DEF IInv
<1> QED BY AllocationInvariant, <1>1, PTL

\* Whatever is lost, reordered or forgotten, a drone defends exactly the tasks
\* it flies.
THEOREM ClaimsMatchBundles == Spec => []OwnClaimsAreBundle
<1>1. IInv => OwnClaimsAreBundle
  BY IInvImplies
<1> QED BY AllocationInvariant, <1>1, PTL

\* Bundles stay within max_bundle_size and free of duplicates.
THEOREM BundlesWellFormed == Spec => []BundleWellFormed
<1>1. IInv => BundleWellFormed
  BY IInvImplies
<1> QED BY AllocationInvariant, <1>1, PTL

\* The two records of a task's winner agree.
THEOREM AssignmentsAgree == Spec => []AssignmentMirrorsAuction
<1>1. IInv => AssignmentMirrorsAuction
  BY IInvImplies
<1> QED BY AllocationInvariant, <1>1, PTL

\* A drone forgets the claims of those it no longer counts.
THEOREM NoGhosts == Spec => []NoGhostWinner
<1>1. IInv => NoGhostWinner
  BY DEF IInv
<1> QED BY AllocationInvariant, <1>1, PTL

\* Nobody else flies a drone's return-to-launch task.
THEOREM RtlStaysPrivate == Spec => []RtlIsPrivate
<1>1. IInv => RtlIsPrivate
  BY IInvImplies
<1> QED BY AllocationInvariant, <1>1, PTL

\* What a drone has heard of another one's claim it forgets when the claimant
\* leaves its membership, or for a better bid, and never otherwise: a claim that
\* its owner has dropped stands on every other drone until then, since nothing
\* that is gossiped takes it back.
THEOREM RecordsOnlyImprove == Spec => [][RecordsImprove]_vars
<1>1. IInv /\ [Next]_vars => [RecordsImprove]_vars
  BY NextKeeps
<1> QED BY AllocationInvariant, <1>1, PTL DEF Spec

\* A coordination step leaves no capacity unused: what its drone could fly, and
\* nobody else is assigned to, it flies, unless its bundle is full or the score
\* was infeasible; a perimeter task made anew it flies unless that does not
\* outbid the winner it knows.
THEOREM CapacityIsUsed == Spec => [][NothingLeftBehind]_vars
<1>1. IInv /\ [Next]_vars => [NothingLeftBehind]_vars
  BY TickTakes DEF NothingLeftBehind
<1> QED BY AllocationInvariant, <1>1, PTL DEF Spec

\* The task that a drone takes up was not its own, so what it recorded before
\* improved.
LEMMA TakenUpIsOutbid ==
  ASSUME IInv, IInv', RecordsImprove, NEW d \in Drones,
         NEW t \in Bundled(eng'[d]) \ Bundled(eng[d]),
         eng[d].bid[t].agent \in members'[d]
  PROVE  Better(eng'[d].bid[t], eng[d].bid[t])
<1>1. t \in Tasks
  <2>1. eng'[d].bundle \in Seq(Tasks)
    BY DEF IInv, TypeOK, Engine
  <2> QED BY <2>1, ElementOfSeq DEF Bundled, Elems
<1>2. eng[d].bid[t].agent # d /\ eng'[d].bid[t].agent = d
  BY <1>1 DEF IInv, EngineOK, EngineCore
<1> QED BY <1>1, <1>2 DEF RecordsImprove, Improves

\* A task is taken from a living winner by a better bid only.
THEOREM LiveWinnersOutbid == Spec => OutbidsLiveWinners
<1>1. IInv /\ IInv' /\ [RecordsImprove]_vars
        => [\A d \in Drones : \A t \in Bundled(eng'[d]) \ Bundled(eng[d]) :
              eng[d].bid[t].agent \in members'[d]
                => Better(eng'[d].bid[t], eng[d].bid[t])]_vars
  BY TakenUpIsOutbid
<1> QED BY AllocationInvariant, RecordsOnlyImprove, <1>1, PTL DEF OutbidsLiveWinners

\* Two drones that fly the same task, and exchange what they claim, both keep
\* their bundles exactly when each such task's better bid is the older one.
ContestsStandByAge ==
  \A d, s \in Drones : d # s =>
    (Unmoved(d, eng[d], eng[s]) /\ Unmoved(s, eng[s], eng[d])
       <=> \A t \in BothFly(eng[d], eng[s]) : BetterIsOlder(eng[d].bid[t], eng[s].bid[t]))

\* In no state reached does any other contest outlive an exchange of payloads.
THEOREM OldContestsStand == Spec => []ContestsStandByAge
<1>1. IInv => ContestsStandByAge
  <2> SUFFICES ASSUME IInv, NEW d \in Drones, NEW s \in Drones, d # s
               PROVE  Unmoved(d, eng[d], eng[s]) /\ Unmoved(s, eng[s], eng[d])
                        <=> \A t \in BothFly(eng[d], eng[s]) :
                              BetterIsOlder(eng[d].bid[t], eng[s].bid[t])
    BY DEF ContestsStandByAge
  <2>1. EngineOK(d, eng[d]) /\ EngineOK(s, eng[s])
    BY DEF IInv
  <2> QED BY <2>1, ContestStands
<1> QED BY AllocationInvariant, <1>1, PTL

-----------------------------------------------------------------------------
\* No bid, held or on its way, is stamped later than the clock has come.
StampsArePast ==
  /\ now <= MaxTime
  /\ \A d \in Drones, t \in Tasks : eng[d].bid[t].ts \in 0..now
  /\ \A a, b \in Drones : \A m \in Sent(a, b), t \in Tasks : m.bid[t].ts \in 0..now

LEMMA StampsStayPast ==
  ASSUME IInv, StampsArePast, [Next]_vars
  PROVE  StampsArePast'
<1>1. now \in Nat /\ NoBid.ts \in 0..now
  BY DEF IInv, TypeOK, NoBid
<1>2. ASSUME UNCHANGED now,
             \A c \in Drones, t \in Tasks : eng'[c].bid[t].ts \in 0..now,
             \A a, b \in Drones : \A m \in Sent(a, b)', t \in Tasks : m.bid[t].ts \in 0..now
      PROVE  StampsArePast'
  BY <1>2 DEF StampsArePast
<1>3. ASSUME NEW d \in Drones, Tick(d) PROVE StampsArePast'
  <2>1. UNCHANGED <<now, chan>>
    BY <1>3 DEF Tick, CoordinationStep
  <2>2. \A c \in Drones, t \in Tasks :
          eng'[c].bid[t] \in {NoBid, eng[c].bid[t]} \/ eng'[c].bid[t].ts = now
    BY <1>3, TickKeeps
  <2>3. \A c \in Drones, t \in Tasks : eng'[c].bid[t].ts \in 0..now
    BY <1>1, <2>2 DEF StampsArePast
  <2> QED BY <1>2, <2>1, <2>3 DEF StampsArePast, Sent
<1>4. ASSUME NEW d \in Drones, Gossip(d) PROVE StampsArePast'
  <2>1. UNCHANGED <<now, eng>>
    BY <1>4 DEF Gossip
  <2>2. \A a, b \in Drones : Sent(a, b)' \subseteq Sent(a, b) \cup {Payload(eng[a])}
    BY <1>4, GossipKeeps
  <2>3. \A a \in Drones, t \in Tasks : Payload(eng[a]).bid[t].ts \in 0..now
    BY <1>1 DEF StampsArePast, Payload
  <2>4. \A a, b \in Drones : \A m \in Sent(a, b)', t \in Tasks : m.bid[t].ts \in 0..now
    BY <2>2, <2>3 DEF StampsArePast
  <2> QED BY <1>2, <2>1, <2>4 DEF StampsArePast
<1>5. ASSUME NEW s \in Drones, NEW r \in Drones, NEW i \in 1..Capacity, Ingest(s, r, i)
      PROVE  StampsArePast'
  <2>1. UNCHANGED now
    BY <1>5 DEF Ingest
  <2>2. PICK p \in Sent(s, r) : \A c \in Drones, t \in Tasks :
          eng'[c].bid[t] \in {NoBid, eng[c].bid[t], p.bid[t]}
    BY <1>5, IngestKeeps
  <2>3. \A c \in Drones, t \in Tasks : eng'[c].bid[t].ts \in 0..now
    BY <1>1, <2>2 DEF StampsArePast
  <2>4. \A a, b \in Drones : Sent(a, b)' \subseteq Sent(a, b)
    BY <1>5, IngestKeeps
  <2> QED BY <1>2, <2>1, <2>3, <2>4 DEF StampsArePast
<1>6. ASSUME NEW s \in Drones, NEW r \in Drones, Lose(s, r) PROVE StampsArePast'
  <2>1. UNCHANGED <<now, eng>> /\ \A a, b \in Drones : Sent(a, b)' \subseteq Sent(a, b)
    BY <1>6, LoseKeeps DEF Lose
  <2> QED BY <1>2, <2>1 DEF StampsArePast
<1>7. ASSUME UNCHANGED <<eng, chan>>, now' \in Nat, now <= now', now' <= MaxTime
      PROVE  StampsArePast'
  <2>1. 0..now \subseteq 0..now'
    BY <1>1, <1>7
  <2> QED BY <1>7, <2>1 DEF StampsArePast, Sent
<1>8. CASE ClockAdvances
  <2>1. UNCHANGED <<eng, chan>> /\ now' = now + 1 /\ now < MaxTime
    BY <1>8 DEF ClockAdvances
  <2>2. now' \in Nat /\ now <= now' /\ now' <= MaxTime
    BY <1>1, <2>1, AllocationAssumption
  <2> QED BY <1>7, <2>1, <2>2
<1>9. CASE UNCHANGED vars \/ \E d \in Drones : BatteryLow(d) \/ Fail(d)
  <2>1. UNCHANGED <<eng, chan, now>>
    BY <1>9 DEF vars, BatteryLow, Fail
  <2> QED BY <1>1, <1>7, <2>1 DEF StampsArePast
<1> QED BY <1>3, <1>4, <1>5, <1>6, <1>8, <1>9 DEF Next

\* A bid is stamped with the clock of its making, so no drone ever holds or
\* sends one from the future.
THEOREM StampsPast == Spec => []StampsArePast
<1>1. Init => StampsArePast
  BY AllocationAssumption DEF Init, StampsArePast, Sent, NewEngine, NoBid
<1>2. IInv /\ StampsArePast /\ [Next]_vars => StampsArePast'
  BY StampsStayPast
<1> QED BY AllocationInvariant, <1>1, <1>2, PTL DEF Spec
=============================================================================
