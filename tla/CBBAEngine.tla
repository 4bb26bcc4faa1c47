----------------------------- MODULE CBBAEngine -----------------------------
(***************************************************************************)
(* The per-drone CBBA engine (src/swarm/cbba/cbba_engine.py) as operators  *)
(* on one engine's state.  An engine is a record                           *)
(*   known   the tasks in _known_tasks                                     *)
(*   asg     their assigned_to fields (NoDrone is Python's None)           *)
(*   bundle  _bundle, in the order the drone will fly it                   *)
(*   bid     winning_bids, winning_agents and bid_timestamps, zipped       *)
(*                                                                         *)
(* The three dictionaries are always written and popped together, so one   *)
(* function of entries stands for them; an absent entry is NoBid, whose    *)
(* fields are the defaults every .get() of the code uses: score -inf (-1,  *)
(* real scores are never negative), agent +inf (NoDrone, above every id)   *)
(* and timestamp 0.                                                        *)
(*                                                                         *)
(* An operator commented as a mutant is a wrong variant of the definition  *)
(* that follows; PROJECT.json lists the property each one breaks.          *)
(***************************************************************************)
EXTENDS Integers, Sequences, FiniteSets

CONSTANTS
  Drones,     \* drone ids; numbers, because ties go to the lower id
  Tasks,      \* task ids
  MaxBundle,  \* CBBAConfig.max_bundle_size
  NoDrone     \* above every id: None, and the math.inf default of an agent

ASSUME EngineAssumption ==
  /\ Drones \subseteq Nat
  /\ NoDrone \in Nat
  /\ \A d \in Drones : d < NoDrone
  /\ MaxBundle \in Nat

Bid   == [score : Nat, agent : Drones, ts : Nat]
NoBid == [score |-> -1, agent |-> NoDrone, ts |-> 0]

Engine == [known  : SUBSET Tasks,
           asg    : [Tasks -> Drones \cup {NoDrone}],
           bundle : Seq(Tasks),
           bid    : [Tasks -> Bid \cup {NoBid}]]

NewEngine == [known  |-> {},
              asg    |-> [t \in Tasks |-> NoDrone],
              bundle |-> << >>,
              bid    |-> [t \in Tasks |-> NoBid]]

Elems(s)   == {s[i] : i \in 1..Len(s)}
Bundled(e) == Elems(e.bundle)

\* Higher score wins, equal scores go to the lower id: the one order that
\* both phases use to compare two bids for a task.
Better(a, b) == \/ a.score > b.score
                \/ a.score = b.score /\ a.agent < b.agent

\* _sync_assignments: assigned_to follows the recorded winner; a task without
\* one keeps whatever it had.
SyncAssignments(e) ==
  [e EXCEPT !.asg = [t \in Tasks |-> IF t \in e.known /\ e.bid[t] # NoBid
                                     THEN e.bid[t].agent ELSE e.asg[t]]]

\* Mutant: upserting keeps the assigned_to a known task already had.
UpsertTasks_KeepsOwner(e, ts, owner) ==
  [e EXCEPT !.known = e.known \cup ts,
            !.asg   = [t \in Tasks |-> IF t \in ts \ e.known THEN owner[t] ELSE e.asg[t]]]

\* Mutant: the deserialised task loses its assigned_to.
UpsertTasks_DropsOwner(e, ts, owner) ==
  [e EXCEPT !.known = e.known \cup ts,
            !.asg   = [t \in Tasks |-> IF t \in ts THEN NoDrone ELSE e.asg[t]]]

\* upsert_task(s): the new SwarmTask object replaces the known one, its
\* assigned_to included.
UpsertTasks(e, ts, owner) ==
  [e EXCEPT !.known = e.known \cup ts,
            !.asg   = [t \in Tasks |-> IF t \in ts THEN owner[t] ELSE e.asg[t]]]

\* How much of the bundle s survives losing the tasks in lost: the tasks
\* before the first lost one, since _remove_from_bundle drops the suffix.
KeptLen(s, lost) ==
  CHOOSE n \in 0..Len(s) : /\ \A i \in 1..n : s[i] \notin lost
                           /\ n = Len(s) \/ s[n+1] \in lost

\* The tasks _remove_from_bundle takes out.
Suffix(s, n) == {s[i] : i \in n+1..Len(s)}

\* Mutant: only the bundle is cut, the departed winners stay recorded.
ClearAgentClaims_KeepsWinners(e, d, gone) ==
  LET lost == {t \in Tasks : e.bid[t].agent \in gone}
  IN  SyncAssignments([e EXCEPT !.bundle = SubSeq(e.bundle, 1, KeptLen(e.bundle, lost))])

\* Mutant: bid_timestamps is not popped.
ClearAgentClaims_KeepsStamps(e, d, gone) ==
  SyncAssignments([e EXCEPT !.bid = [t \in Tasks |->
                     IF e.bid[t].agent \in gone
                     THEN [NoBid EXCEPT !.ts = e.bid[t].ts] ELSE e.bid[t]]])

\* clear_agent_claims for every drone in gone: their claims are forgotten,
\* and a bundle that held one is cut there, releasing its own suffix.
ClearAgentClaims(e, d, gone) ==
  LET lost == {t \in Tasks : e.bid[t].agent \in gone}
      n    == KeptLen(e.bundle, lost)
      cut  == {t \in Suffix(e.bundle, n) : e.bid[t].agent = d}
  IN  SyncAssignments(
        [e EXCEPT !.bundle = SubSeq(e.bundle, 1, n),
                  !.bid    = [t \in Tasks |-> IF t \in lost \cup cut
                                              THEN NoBid ELSE e.bid[t]]])

-----------------------------------------------------------------------------
(* Gossip: what flock_coordinator.prepare_gossip_payload sends and         *)
(* ingest_gossip_payload does with it.                                     *)

\* get_bids_payload lists the sender's own bundle only, in bundle order;
\* get_known_tasks_payload every task with its assigned_to.
Payload(e) ==
  [bundle |-> e.bundle,
   bid    |-> [t \in Tasks |-> IF t \in Bundled(e) THEN e.bid[t] ELSE NoBid],
   known  |-> e.known,
   asg    |-> e.asg]


\* The test consensus_phase applies to one remote entry: a remote bid older
\* than the drone's own standing bid is skipped, otherwise the better wins.
RemoteWins(d, local, remote) ==
  /\ ~(remote.ts < local.ts /\ local.agent = d)
  /\ Better(remote, local)

\* Mutant: losing a task leaves the drone's bids on the rest of its bundle.
ConsensusPhase_KeepsSuffix(e, d, m) ==
  LET beaten == {t \in Elems(m.bundle) : RemoteWins(d, e.bid[t], m.bid[t])}
      n      == KeptLen(e.bundle, beaten)
  IN  SyncAssignments(
        [e EXCEPT !.bundle = SubSeq(e.bundle, 1, n),
                  !.bid = [t \in Tasks |-> IF t \in beaten THEN m.bid[t] ELSE e.bid[t]]])

\* Mutant: every entry is compared with the bids held when the payload came.
ConsensusPhase_OldBids(e, d, m) ==
  LET beaten == {t \in Elems(m.bundle) : RemoteWins(d, e.bid[t], m.bid[t])}
      n      == KeptLen(e.bundle, beaten)
      cut    == {t \in Suffix(e.bundle, n) : e.bid[t].agent = d}
  IN  SyncAssignments(
        [e EXCEPT !.bundle = SubSeq(e.bundle, 1, n),
                  !.bid = [t \in Tasks |-> IF t \in beaten THEN m.bid[t]
                                           ELSE IF t \in cut THEN NoBid ELSE e.bid[t]]])

\* Mutant: assigned_to is not brought up to date.
ConsensusPhase_NoSync(e, d, m) ==
  LET beaten == {t \in Elems(m.bundle) : RemoteWins(d, e.bid[t], m.bid[t])}
      n      == KeptLen(e.bundle, beaten)
      cut    == {t \in Suffix(e.bundle, n) : e.bid[t].agent = d}
  IN  [e EXCEPT !.bundle = SubSeq(e.bundle, 1, n),
                !.bid = [t \in Tasks |-> IF t \in beaten THEN m.bid[t]
                                         ELSE IF t \in cut THEN NoBid ELSE e.bid[t]]]

\* consensus_phase over the whole payload.  The loop takes the entries in
\* the sender's order, and losing one task releases the rest of the bundle,
\* so a later entry meets an already released task: it then wins against
\* nothing.  The loop's outcome in closed form (CBBALoops compares it with the
\* entry-by-entry loop).
ConsensusPhase(e, d, m) ==
  LET heard   == Elems(m.bundle)
      beaten  == {t \in heard : RemoteWins(d, e.bid[t], m.bid[t])}
      lost    == {t \in beaten : m.bid[t].agent # d}
      n       == KeptLen(e.bundle, lost)
      cut     == {t \in Suffix(e.bundle, n) : e.bid[t].agent = d}
      Before(s, u, t) == \E i, j \in 1..Len(s) : i < j /\ s[i] = u /\ s[j] = t
      \* tasks the loop has released by the time it reaches their entry
      freed   == {t \in cut \cap heard : \E u \in lost :
                    Before(e.bundle, u, t) /\ Before(m.bundle, u, t)}
  IN  SyncAssignments(
        [e EXCEPT !.bundle = SubSeq(e.bundle, 1, n),
                  !.bid = [t \in Tasks |->
                             IF t \in beaten \cup freed THEN m.bid[t]
                             ELSE IF t \in cut THEN NoBid ELSE e.bid[t]]])

\* flock_coordinator.ingest_gossip_payload: the sender's task objects replace
\* the local ones, then its bids go through consensus.
IngestGossip(e, d, m) == ConsensusPhase(UpsertTasks(e, m.known, m.asg), d, m)

-----------------------------------------------------------------------------
(* The greedy bundle construction.                                         *)

\* The tasks the loop of bundle_phase considers once it has picked `picked`.
Candidates(e, d, picked) ==
  {t \in e.known \ (Bundled(e) \cup picked) : e.asg[t] \in {NoDrone, d}}

\* Mutant: a standing winner need not be outbid.
CanBid_Anyway(e, d, t, s) == s >= 0

\* d may enter t with score s: feasible (score_task returns -1 when the
\* battery does not allow the task), and an outbid of the standing winner.
CanBid(e, d, t, s) == s >= 0 /\ Better([score |-> s, agent |-> d], e.bid[t])

\* bundle_phase appends the tasks of `picks` with the scores of `score` at
\* time now.  Each pick is the best offer among the candidates left, each
\* scored by some value score_task may return in the drone's present
\* position, battery and bundle, and the loop ends because the bundle is full
\* or nothing is left to bid on.
IsGreedy(e, d, scoreOf, picks, score) ==
  LET n           == Len(picks)
      Left(i)     == Candidates(e, d, {picks[j] : j \in 1..i-1})
      Yields(t, s) == \E v \in scoreOf[t] : CanBid(e, d, t, v) => v <= s
  IN  /\ \A i \in 1..n : /\ picks[i] \in Left(i)
                         /\ score[i] \in scoreOf[picks[i]]
                         /\ CanBid(e, d, picks[i], score[i])
                         /\ \A t \in Left(i) \ {picks[i]} : Yields(t, score[i])
      /\ \/ Len(e.bundle) + n >= MaxBundle
         \/ \A t \in Left(n+1) : Yields(t, -1)

\* Mutant: the winner is recorded, the bundle is not extended.
AddPicks_NoAppend(e, d, now, picks, score) ==
  LET At(t) == CHOOSE i \in 1..Len(picks) : picks[i] = t
  IN  SyncAssignments(
        [e EXCEPT !.bid = [t \in Tasks |->
                     IF t \in Elems(picks)
                     THEN [score |-> score[At(t)], agent |-> d, ts |-> now]
                     ELSE e.bid[t]]])

\* The engine after the picks have been appended.
AddPicks(e, d, now, picks, score) ==
  LET At(t) == CHOOSE i \in 1..Len(picks) : picks[i] = t
  IN  SyncAssignments(
        [e EXCEPT !.bundle = e.bundle \o picks,
                  !.bid = [t \in Tasks |->
                             IF t \in Elems(picks)
                             THEN [score |-> score[At(t)], agent |-> d, ts |-> now]
                             ELSE e.bid[t]]])

\* Mutant: the size of the bundle is tested with <= instead of <.
BundlePhase_OneMore(e, d, now, scoreOf) ==
  LET scores == (UNION {scoreOf[t] : t \in Tasks}) \cap Nat
      room   == IF Len(e.bundle) > MaxBundle THEN 0 ELSE MaxBundle + 1 - Len(e.bundle)
      tries  == UNION {[1..n -> Tasks] \X [1..n -> scores] : n \in 0..room}
  IN  {AddPicks(e, d, now, p[1], p[2]) :
         p \in {q \in tries : IsGreedy(e, d, scoreOf, q[1], q[2])}}

\* The engines bundle_phase can leave behind.
BundlePhase(e, d, now, scoreOf) ==
  LET scores == (UNION {scoreOf[t] : t \in Tasks}) \cap Nat
      room   == IF Len(e.bundle) >= MaxBundle THEN 0 ELSE MaxBundle - Len(e.bundle)
      tries  == UNION {[1..n -> Tasks] \X [1..n -> scores] : n \in 0..room}
  IN  {AddPicks(e, d, now, p[1], p[2]) :
         p \in {q \in tries : IsGreedy(e, d, scoreOf, q[1], q[2])}}

\* get_current_task: the first task of the bundle the drone still believes
\* it wins; the drone's goal.
CurrentTask(e, d) ==
  LET own == {i \in 1..Len(e.bundle) : e.bid[e.bundle[i]].agent = d}
  IN  IF own = {} THEN {}
      ELSE {e.bundle[CHOOSE i \in own : \A j \in own : i <= j]}

-----------------------------------------------------------------------------
(* Contests: what the tests of consensus_phase make of two claims to a     *)
(* task.                                                                   *)

\* The tasks that both drones mean to fly.
BothFly(e, f) == Bundled(e) \cap Bundled(f)

\* Of two bids for a task the better one is the older one: each drone then
\* refuses to hear the other (the stale-bid test of RemoteWins on the one side,
\* the comparison on the other).
BetterIsOlder(a, b) == \/ Better(a, b) /\ a.ts < b.ts
                       \/ Better(b, a) /\ b.ts < a.ts
=============================================================================
