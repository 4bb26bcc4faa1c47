------------------------------ MODULE CBBALoops ------------------------------
(***************************************************************************)
(* One CBBA engine against every payload a peer could send, and the loops  *)
(* of src/src/swarm/cbba/cbba_engine.py entry by entry.  CBBAEngine gives  *)
(* what they leave behind in closed form; here the two are compared in     *)
(* every state of the engine that is reached.                              *)
(***************************************************************************)
EXTENDS CBBAEngine

CONSTANTS
  Me,       \* the drone whose engine it is
  Scores,   \* bound: the scores a task may have
  Times     \* bound: the readings of the bid clock

ASSUME LoopsAssumption ==
  /\ Me \in Drones /\ Scores \subseteq Nat /\ Times \subseteq Nat
  /\ IsFiniteSet(Drones) /\ IsFiniteSet(Tasks)

VARIABLE engine

\* list.index: the first place of t in s.
Index(s, t) == CHOOSE i \in 1..Len(s) : s[i] = t /\ \A j \in 1..i-1 : s[j] # t

\* _remove_from_bundle of drone d
RemoveFromBundle(f, d, t) ==
  LET n       == Index(f.bundle, t) - 1
      removed == {u \in Suffix(f.bundle, n) : f.bid[u].agent = d}
  IN  IF t \notin Bundled(f) THEN f
      ELSE [f EXCEPT !.bundle = SubSeq(f.bundle, 1, n),
                     !.bid = [u \in Tasks |-> IF u \in removed THEN NoBid ELSE f.bid[u]]]

\* One turn of consensus_phase's loop.
ConsensusEntry(f, d, t, remote) ==
  LET won == [f EXCEPT !.bid[t] = remote]
  IN  IF ~RemoteWins(d, f.bid[t], remote) THEN f
      ELSE IF remote.agent = d THEN won ELSE RemoveFromBundle(won, d, t)

ConsensusLoop(f, d, m) ==
  LET g[i \in 0..Len(m.bundle)] ==
        IF i = 0 THEN f ELSE ConsensusEntry(g[i-1], d, m.bundle[i], m.bid[m.bundle[i]])
  IN  SyncAssignments(g[Len(m.bundle)])

\* clear_agent_claims of the departed drone p.  What it won is listed before
\* the loop; the order of the list is that of s.
ClearLoop(f, d, p, s) ==
  LET g[i \in 0..Len(s)] ==
        IF i = 0 THEN f
        ELSE IF f.bid[s[i]].agent # p THEN g[i-1]
        ELSE RemoveFromBundle([g[i-1] EXCEPT !.bid[s[i]] = NoBid], d, s[i])
  IN  SyncAssignments(g[Len(s)])

\* update_membership: the removed members one after the other.
ClearAllLoop(f, d, removed, s) ==
  LET g[i \in 0..Len(removed)] ==
        IF i = 0 THEN f ELSE ClearLoop(g[i-1], d, removed[i], s)
  IN  g[Len(removed)]

-----------------------------------------------------------------------------
\* The sequences of different members of S.
OrdersOf(S) == {s \in UNION {[1..n -> S] : n \in 0..Cardinality(S)} :
                  \A i, j \in 1..Len(s) : s[i] = s[j] => i = j}

\* What a peer may send: a bundle of up to MaxBundle tasks, each with some bid
\* of its own, and known_tasks that agree with it.
PayloadOf(p, s, b) ==
  [bundle |-> s,
   bid    |-> [t \in Tasks |-> IF t \in Elems(s)
                THEN [score |-> b[t][1], agent |-> p, ts |-> b[t][2]] ELSE NoBid],
   known  |-> Elems(s),
   asg    |-> [t \in Tasks |-> IF t \in Elems(s) THEN p ELSE NoDrone]]

Payloads ==
  UNION {{PayloadOf(p, s, b) : b \in [Elems(s) -> Scores \X Times]} :
         s \in {o \in OrdersOf(Tasks) : Len(o) <= MaxBundle}, p \in Drones \ {Me}}

AnyScore == [t \in Tasks |-> Scores]

EInit == engine = UpsertTasks(NewEngine, Tasks, [t \in Tasks |-> NoDrone])

\* The bundle phase, after the tasks were made again or not.
BidsNow == \E ts \in Times, fresh \in {{}, Tasks} :
             engine' \in BundlePhase(UpsertTasks(engine, fresh, [t \in fresh |-> NoDrone]),
                                     Me, ts, AnyScore)
Hears   == \E m \in Payloads : engine' = IngestGossip(engine, Me, m)
Departs == \E gone \in SUBSET (Drones \ {Me}) : engine' = ClearAgentClaims(engine, Me, gone)

ENext == BidsNow \/ Hears \/ Departs
ESpec == EInit /\ [][ENext]_engine

-----------------------------------------------------------------------------
\* consensus_phase in closed form is its loop over the payload's entries, also
\* where losing one task releases a later one before its own entry comes.
ConsensusIsLoop ==
  \A m \in Payloads : ConsensusPhase(engine, Me, m) = ConsensusLoop(engine, Me, m)

\* Forgetting departed drones is the loop over them and over their tasks, in
\* whatever order the set and the dictionary list them.
ClearIsLoop ==
  \A removed \in OrdersOf(Drones \ {Me}), s \in {o \in OrdersOf(Tasks) : Elems(o) = Tasks} :
    ClearAgentClaims(engine, Me, Elems(removed)) = ClearAllLoop(engine, Me, removed, s)
=============================================================================
