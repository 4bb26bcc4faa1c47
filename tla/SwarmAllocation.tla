--------------------------- MODULE SwarmAllocation ---------------------------
(***************************************************************************)
(* Decentralised task allocation in the Alpha regiment: every drone runs   *)
(* its own coordinator (src/swarm/coordination/regiment_coordinator.py),   *)
(* which on each coordination step ages out silent peers, tells the flock  *)
(* coordinator (src/swarm/flock_coordinator.py) who is left, generates     *)
(* tasks and runs the CBBA bundle phase; between steps it gossips its bids *)
(* and ingests those of its peers.  Steps, gossip and failures interleave. *)
(***************************************************************************)
EXTENDS CBBAEngine

CONSTANTS
  RegimentSize,    \* below this many active members perimeter tasks are made
  SectorTasks,     \* the startup tasks, one per sector
  PerimeterTasks,  \* the degraded-mode tasks, made again at every interval
  RtlTasks,        \* RtlTasks[d]: {} or the one return-to-launch task of d
  ScoreOf,         \* ScoreOf[d][t]: what score_task may return; -1 infeasible
  FanOut,          \* how many nearest neighbours a payload is addressed to
  MaxTime,         \* bound: readings of the bid clock
  Capacity,        \* bound: payloads in flight from one drone to another
  MaxFailures,     \* bound: drones that may fail
  Lossy,           \* may the link lose payloads?
  FalseSuspicion   \* may a working drone miss the heartbeat timeout?

ASSUME AllocationAssumption ==
  /\ SectorTasks \subseteq Tasks /\ PerimeterTasks \subseteq Tasks
  /\ SectorTasks \cap PerimeterTasks = {}
  /\ RtlTasks \in [Drones -> SUBSET Tasks]
  /\ \A d \in Drones : RtlTasks[d] \cap (SectorTasks \cup PerimeterTasks) = {}
  /\ \A d, c \in Drones : d # c => RtlTasks[d] \cap RtlTasks[c] = {}
  /\ ScoreOf \in [Drones -> [Tasks -> SUBSET (Nat \cup {-1})]]
  /\ RegimentSize \in Nat /\ FanOut \in Nat /\ MaxTime \in Nat
  /\ Capacity \in Nat /\ MaxFailures \in Nat
  /\ Lossy \in BOOLEAN /\ FalseSuspicion \in BOOLEAN

VARIABLES
  eng,      \* eng[d]: d's CBBA engine
  started,  \* started[d]: _startup_generated
  active,   \* active[d]: the members whose is_active flag d has set
  members,  \* members[d]: the flock coordinator's _known_members
  low,      \* drones whose battery is at or below battery_low_threshold
  up,       \* drones that have not failed
  now,      \* the clock bids are stamped with
  chan      \* chan[s][r]: payloads s addressed to r and r has not taken

vars == <<eng, started, active, members, low, up, now, chan>>

PayloadType == [bundle : Seq(Tasks),
                bid    : [Tasks -> Bid \cup {NoBid}],
                known  : SUBSET Tasks,
                asg    : [Tasks -> Drones \cup {NoDrone}]]

\* Payloads of s that are dropped once the i-th of them is taken: the receiver
\* refuses a timestamp that is not above the last one it took from s, so what
\* was sent before the i-th payload can no longer be taken.
After(q, i) == SubSeq(q, i+1, Len(q))

Init ==
  /\ eng     = [d \in Drones |-> NewEngine]
  /\ started = [d \in Drones |-> FALSE]
  /\ active  = [d \in Drones |-> Drones]
  /\ members = [d \in Drones |-> Drones]
  /\ low     = {}
  /\ up      = Drones
  /\ now     = 0
  /\ chan    = [s \in Drones |-> [r \in Drones |-> << >>]]

(***************************************************************************)
(* One coordination step of drone d.  `silent` are the members whose       *)
(* heartbeat _check_member_health finds older than the timeout, `patrol`   *)
(* says that the perimeter interval has passed.                            *)
(***************************************************************************)
Unassigned(ts) == [t \in ts |-> NoDrone]

\* update_membership: the claims of members that are no longer active go.
UpdateMembership(d, act) == ClearAgentClaims(eng[d], d, members[d] \ act)

\* The tasks FlockCoordinator.tick makes before it bids.
GenerateTasks(e, d, patrol) ==
  LET e1 == IF started[d] THEN e
            ELSE UpsertTasks(e, SectorTasks, Unassigned(SectorTasks))
      e2 == IF d \in low
            THEN UpsertTasks(e1, RtlTasks[d], [t \in RtlTasks[d] |-> d]) ELSE e1
  IN  IF patrol THEN UpsertTasks(e2, PerimeterTasks, Unassigned(PerimeterTasks))
      ELSE e2

CoordinationStep(d, silent, patrol) ==
  LET act == active[d] \ silent
  IN  /\ d \in up
      /\ patrol => Cardinality(act) < RegimentSize
      /\ \E e \in {GenerateTasks(UpdateMembership(d, act), d, patrol)} :
           \E next \in BundlePhase(e, d, now, ScoreOf[d]) :
             eng' = [eng EXCEPT ![d] = next]
      /\ started' = [started EXCEPT ![d] = TRUE]
      /\ active'  = [active EXCEPT ![d] = act]
      /\ members' = [members EXCEPT ![d] = act]
      /\ UNCHANGED <<low, up, now, chan>>

\* Whom the 5 s heartbeat timeout can catch.  A payload sets its sender's
\* heartbeat, and the step runs every 0.5 s, so a peer heard from again has
\* been counted as a member by a step before it can time out once more.  Any
\* peer may time out if links lose or delay payloads, else only a failed one.
MaySuspect(d) == LET settled == (active[d] \cap members[d]) \ {d}
                 IN  IF FalseSuspicion THEN settled ELSE settled \ up

Tick(d) == \E silent \in SUBSET MaySuspect(d), patrol \in BOOLEAN :
             CoordinationStep(d, silent, patrol)

(***************************************************************************)
(* Gossip.  prepare_gossip_payload addresses the FanOut nearest active     *)
(* peers, wherever the drones are now.                                     *)
(***************************************************************************)
Targets(d) ==
  LET peers == active[d] \ {d}
  IN  {ts \in SUBSET peers :
         Cardinality(ts) = IF Cardinality(peers) < FanOut
                           THEN Cardinality(peers) ELSE FanOut}

Gossip(d) ==
  /\ d \in up
  /\ \E ts \in Targets(d) :
       /\ \A r \in ts : Len(chan[d][r]) < Capacity
       /\ chan' = [chan EXCEPT ![d] = [r \in Drones |->
                     IF r \in ts THEN Append(chan[d][r], Payload(eng[d]))
                                 ELSE chan[d][r]]]
  /\ UNCHANGED <<eng, started, active, members, low, up, now>>

\* ingest_gossip_payload: the sender is alive, whatever was thought of it;
\* then its tasks and bids.  Payloads may overtake one another.
Ingest(s, r, i) ==
  /\ r \in up
  /\ i \in 1..Len(chan[s][r])
  /\ chan'   = [chan EXCEPT ![s][r] = After(chan[s][r], i)]
  /\ active' = [active EXCEPT ![r] = @ \cup {s}]
  /\ eng'    = [eng EXCEPT ![r] = IngestGossip(eng[r], r, chan[s][r][i])]
  /\ UNCHANGED <<started, members, low, up, now>>

(***************************************************************************)
(* The environment.                                                        *)
(***************************************************************************)
Lose(s, r) ==
  /\ Lossy
  /\ chan[s][r] # << >>
  /\ chan' = [chan EXCEPT ![s][r] = Tail(@)]
  /\ UNCHANGED <<eng, started, active, members, low, up, now>>

BatteryLow(d) ==
  /\ d \in up /\ d \notin low /\ RtlTasks[d] # {}
  /\ low' = low \cup {d}
  /\ UNCHANGED <<eng, started, active, members, up, now, chan>>

Fail(d) ==
  /\ d \in up
  /\ Cardinality(Drones \ up) < MaxFailures
  /\ up' = up \ {d}
  /\ UNCHANGED <<eng, started, active, members, low, now, chan>>

ClockAdvances ==
  /\ now < MaxTime
  /\ now' = now + 1
  /\ UNCHANGED <<eng, started, active, members, low, up, chan>>

Next ==
  \/ \E d \in Drones : Tick(d) \/ Gossip(d) \/ BatteryLow(d) \/ Fail(d)
  \/ \E s, r \in Drones : Lose(s, r) \/ \E i \in 1..Capacity : Ingest(s, r, i)
  \/ ClockAdvances

Spec == Init /\ [][Next]_vars

(***************************************************************************)
(* Fairness: the coordination loop (2 Hz) and the gossip of every working  *)
(* drone run for ever, a payload that stays addressed to a working drone   *)
(* is taken, and a failed drone misses its heartbeat timeout.              *)
(***************************************************************************)
Expire(d) == LET dead == (active[d] \cap members[d]) \ up
             IN  /\ dead # {}
                 /\ \E patrol \in BOOLEAN : CoordinationStep(d, dead, patrol)

Fairness ==
  /\ \A d \in Drones : WF_vars(Tick(d)) /\ WF_vars(Gossip(d)) /\ WF_vars(Expire(d))
  /\ \A s, r \in Drones : WF_vars(\E i \in 1..Capacity : Ingest(s, r, i))

FairSpec == Spec /\ Fairness

\* In degraded mode the perimeter interval passes again and again.
Patrol(d) == \E silent \in SUBSET MaySuspect(d) : CoordinationStep(d, silent, TRUE)

PatrolSpec == FairSpec /\ \A d \in Drones : WF_vars(Patrol(d))

-----------------------------------------------------------------------------
\* Types.  Nothing but the shape of the state.
TypeOK ==
  /\ eng     \in [Drones -> Engine]
  /\ started \in [Drones -> BOOLEAN]
  /\ active  \in [Drones -> SUBSET Drones]
  /\ members \in [Drones -> SUBSET Drones]
  /\ low     \subseteq Drones
  /\ up      \subseteq Drones
  /\ now     \in Nat
  /\ chan    \in [Drones -> [Drones -> Seq(PayloadType)]]

\* A drone's own claims are exactly its bundle: every task it means to fly is
\* one it believes it won (so get_current_task is the head of the bundle), and
\* it never keeps a claim on a task it has dropped, which it would then defend
\* against every peer without flying it.
OwnClaimsAreBundle ==
  \A d \in Drones, t \in Tasks :
    (eng[d].bid[t].agent = d) <=> t \in Bundled(eng[d])

\* The bundle respects max_bundle_size and never holds a task twice.
BundleWellFormed ==
  \A d \in Drones :
    /\ Len(eng[d].bundle) <= MaxBundle
    /\ \A i, j \in 1..Len(eng[d].bundle) :
         eng[d].bundle[i] = eng[d].bundle[j] => i = j

\* assigned_to is a second copy of the auction's outcome, kept in the task
\* objects that gossip overwrites; wherever the drone knows a winner the two
\* copies agree.
AssignmentMirrorsAuction ==
  \A d \in Drones, t \in Tasks :
    eng[d].bid[t] # NoBid => /\ t \in eng[d].known
                             /\ eng[d].asg[t] = eng[d].bid[t].agent

\* No drone believes in a winner that it neither counts as a member nor has
\* heard from since: a dead drone's claim goes when its membership goes, even
\* when its last payload arrives afterwards.
NoGhostWinner ==
  \A d \in Drones, t \in Tasks :
    eng[d].bid[t] # NoBid =>
      eng[d].bid[t].agent \in members[d] \cup active[d] \cup {d}

\* A return-to-launch task is only ever flown by the drone it was made for,
\* however gossip spreads it.
RtlIsPrivate ==
  \A d, c \in Drones :
    d # c => RtlTasks[d] \cap Bundled(eng[c]) = {}

\* A drone that takes up a task from a winner it still counts as a member does
\* so with a better bid.
OutbidsLiveWinners ==
  [][\A d \in Drones : \A t \in Bundled(eng'[d]) \ Bundled(eng[d]) :
       eng[d].bid[t].agent \in members'[d]
         => Better(eng'[d].bid[t], eng[d].bid[t])]_vars


\* Not guaranteed, because of the contests of that kind: that no task stays
\* with two drones, and that all come to agree on who flies what.
ContestsSettle == <>[](\A d, c \in up : d # c => BothFly(eng[d], eng[c]) = {})
Agreement == \A d, c \in up, t \in Tasks :
               eng[d].bid[t].agent = eng[c].bid[t].agent
Converges == <>[]Agreement

\* No task is given up for good: each is held by some working drone again and again.
TasksCovered == \A t \in SectorTasks : []<>(\E d \in up : t \in Bundled(eng[d]))

\* The same for the tasks of a degraded regiment, which are made anew at every
\* interval: the loss of a drone does not end the patrol of what it flew, unless
\* every drone that is left has its bundle full.
PatrolCovered ==
  \A t \in PerimeterTasks :
    []<>(\/ \E d \in up : t \in Bundled(eng[d])
         \/ \A d \in up : Len(eng[d].bundle) = MaxBundle)

\* A failed drone is forgotten: eventually no working drone credits a task to
\* one that has failed, however late its last payloads arrive.
FailedForgotten ==
  <>[](\A d \in up, t \in Tasks : eng[d].bid[t].agent \in up \cup {NoDrone})
=============================================================================
