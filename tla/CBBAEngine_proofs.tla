-------------------------- MODULE CBBAEngine_proofs --------------------------
(***************************************************************************)
(* What the engine's operations preserve, for any drones, tasks, bundle    *)
(* size and scores.  EngineCore is the part that survives an upsert, which *)
(* may set assigned_to to anything; every public operation then ends with  *)
(* SyncAssignments, which turns EngineCore into EngineOK.                  *)
(*                                                                         *)
(* The second half proves that the closed forms of consensus_phase and of  *)
(* clear_agent_claims are their loops, by induction over the entries.      *)
(***************************************************************************)
EXTENDS CBBALoops, SequenceTheorems, FiniteSetTheorems, WellFoundedInduction, TLAPS

EngineCore(d, e) ==
  /\ e \in Engine
  /\ \A t \in Tasks : (e.bid[t].agent = d) <=> t \in Bundled(e)
  /\ Len(e.bundle) <= MaxBundle
  /\ \A i, j \in 1..Len(e.bundle) : e.bundle[i] = e.bundle[j] => i = j
  /\ \A t \in Tasks : e.bid[t] # NoBid => t \in e.known

EngineOK(d, e) ==
  /\ EngineCore(d, e)
  /\ \A t \in Tasks : e.bid[t] # NoBid => e.asg[t] = e.bid[t].agent

\* A payload of drone s carries the bids of its bundle, all its own.
PayloadOK(s, m) ==
  /\ m.bundle \in Seq(Tasks)
  /\ m.bid \in [Tasks -> Bid \cup {NoBid}]
  /\ m.known \in SUBSET Tasks
  /\ m.asg \in [Tasks -> Drones \cup {NoDrone}]
  /\ \A t \in Tasks : IF t \in Elems(m.bundle)
                      THEN /\ m.bid[t].agent = s
                           /\ t \in m.known /\ m.asg[t] = s
                      ELSE m.bid[t] = NoBid

\* After an operation that took e to f, assigned_to follows the winners of f
\* and is otherwise what it was in e.
AsgFollows(e, f) ==
  \A t \in Tasks : f.asg[t] = IF f.bid[t] # NoBid THEN f.bid[t].agent ELSE e.asg[t]

\* What an upsert of the tasks ts changes, and what it leaves alone.
Upserted(e, ts, owner, f) ==
  /\ f.bid = e.bid /\ f.bundle = e.bundle /\ f.known = e.known \cup ts
  /\ \A t \in Tasks : f.asg[t] = IF t \in ts THEN owner[t] ELSE e.asg[t]

\* Every non-empty set of naturals has a least element.
LEMMA LeastNat ==
  ASSUME NEW S, S \subseteq Nat, S # {}
  PROVE  \E n \in S : \A k \in S : n <= k
<1>1. PICK n \in S : \A k \in S : ~ (<<k, n>> \in OpToRel(<, Nat))
  BY NatLessThanWellFounded, WFMin
<1>2. \A k \in S : ~ (k < n)
  BY <1>1 DEF OpToRel
<1>3. QED BY <1>2

\* KeptLen is what the code's cut index is: nothing lost before it, and it
\* stops at the end of the bundle or at a lost task.
LEMMA KeptLenIsCut ==
  ASSUME NEW s \in Seq(Tasks), NEW lost
  PROVE  /\ KeptLen(s, lost) \in 0..Len(s)
         /\ \A i \in 1..KeptLen(s, lost) : s[i] \notin lost
         /\ KeptLen(s, lost) = Len(s) \/ s[KeptLen(s, lost) + 1] \in lost
<1> DEFINE Hit == {i \in 1..Len(s) : s[i] \in lost}
           IsCut(n) == /\ \A i \in 1..n : s[i] \notin lost
                       /\ n = Len(s) \/ s[n+1] \in lost
<1>1. \E n \in 0..Len(s) : IsCut(n)
  <2>1. CASE Hit = {}
    <3>1. \A i \in 1..Len(s) : s[i] \notin lost
      BY <2>1
    <3>2. Len(s) \in 0..Len(s)
      BY LenProperties
    <3> QED BY <3>1, <3>2
  <2>2. CASE Hit # {}
    <3>0. Hit \subseteq Nat
      BY LenProperties
    <3> HIDE DEF Hit
    <3>1. PICK h \in Hit : \A k \in Hit : h <= k
      BY <2>2, <3>0, LeastNat
    <3> USE DEF Hit
    <3>2. h \in 1..Len(s) /\ s[h] \in lost /\ Len(s) \in Nat
      BY LenProperties
    <3>3. h - 1 \in 0..Len(s) /\ (h - 1) + 1 = h
      BY <3>2
    <3>4. \A i \in 1..(h-1) : s[i] \notin lost
      BY <3>1, <3>2
    <3> QED BY <3>2, <3>3, <3>4
  <2> QED BY <2>1, <2>2
<1>2. KeptLen(s, lost) = CHOOSE n \in 0..Len(s) : IsCut(n)
  BY DEF KeptLen
<1> QED BY <1>1, <1>2

\* Cutting a bundle at n splits its tasks: the kept prefix, in place, and the
\* suffix, and a bundle without repetitions has no task in both.
LEMMA CutBundle ==
  ASSUME NEW s \in Seq(Tasks), NEW n \in 0..Len(s),
         \A i, j \in 1..Len(s) : s[i] = s[j] => i = j
  PROVE  /\ SubSeq(s, 1, n) \in Seq(Tasks)
         /\ Len(SubSeq(s, 1, n)) = n
         /\ \A i \in 1..n : SubSeq(s, 1, n)[i] = s[i]
         /\ \A i, j \in 1..Len(SubSeq(s, 1, n)) :
              SubSeq(s, 1, n)[i] = SubSeq(s, 1, n)[j] => i = j
         /\ Len(s) <= MaxBundle => Len(SubSeq(s, 1, n)) <= MaxBundle
         /\ Elems(SubSeq(s, 1, n)) = {s[i] : i \in 1..n}
         /\ Elems(s) = Elems(SubSeq(s, 1, n)) \cup Suffix(s, n)
         /\ Elems(SubSeq(s, 1, n)) \cap Suffix(s, n) = {}
<1>1. Len(s) \in Nat /\ \A i \in 1..Len(s) : s[i] \in Tasks
  BY LenProperties, ElementOfSeq
<1>2. /\ SubSeq(s, 1, n) \in Seq(Tasks)
      /\ Len(SubSeq(s, 1, n)) = n
      /\ \A i \in 1..n : SubSeq(s, 1, n)[i] = s[i]
  BY <1>1, SubSeqProperties
<1>3. Elems(SubSeq(s, 1, n)) = {s[i] : i \in 1..n}
  BY <1>2 DEF Elems
<1>4. Elems(s) = Elems(SubSeq(s, 1, n)) \cup Suffix(s, n)
  BY <1>1, <1>3 DEF Elems, Suffix
<1>5. Elems(SubSeq(s, 1, n)) \cap Suffix(s, n) = {}
  BY <1>1, <1>3 DEF Suffix
<1>6. \A i, j \in 1..Len(SubSeq(s, 1, n)) :
        SubSeq(s, 1, n)[i] = SubSeq(s, 1, n)[j] => i = j
  <2> SUFFICES ASSUME NEW i \in 1..n, NEW j \in 1..n,
                      SubSeq(s, 1, n)[i] = SubSeq(s, 1, n)[j]
               PROVE  i = j
    BY <1>2
  <2>1. s[i] = s[j]
    BY <1>2
  <2>2. i \in 1..Len(s) /\ j \in 1..Len(s)
    BY <1>1
  <2> QED BY <2>1, <2>2
<1>7. Len(s) <= MaxBundle => Len(SubSeq(s, 1, n)) <= MaxBundle
  BY <1>1, <1>2, EngineAssumption
<1> QED BY <1>2, <1>3, <1>4, <1>5, <1>6, <1>7

\* _sync_assignments restores the mirror and touches nothing else.
LEMMA SyncRestores ==
  ASSUME NEW d \in Drones, NEW e, EngineCore(d, e)
  PROVE  /\ EngineOK(d, SyncAssignments(e))
         /\ SyncAssignments(e).bid = e.bid
         /\ SyncAssignments(e).bundle = e.bundle
         /\ SyncAssignments(e).known = e.known
         /\ AsgFollows(e, SyncAssignments(e))
<1> DEFINE f == SyncAssignments(e)
<1>1. /\ f.bid = e.bid /\ f.bundle = e.bundle /\ f.known = e.known
      /\ f.asg = [t \in Tasks |-> IF t \in e.known /\ e.bid[t] # NoBid
                                  THEN e.bid[t].agent ELSE e.asg[t]]
  BY DEF EngineCore, Engine, SyncAssignments
<1>2. \A t \in Tasks : e.bid[t] # NoBid => e.bid[t].agent \in Drones
  BY DEF EngineCore, Engine, Bid
<1>3. f.asg \in [Tasks -> Drones \cup {NoDrone}]
  BY <1>1, <1>2 DEF EngineCore, Engine
<1>4. f \in Engine
  BY <1>1, <1>3 DEF EngineCore, Engine, SyncAssignments
<1>5. Bundled(f) = Bundled(e)
  BY <1>1 DEF Bundled
<1>6. EngineCore(d, f)
  BY <1>1, <1>4, <1>5 DEF EngineCore
<1>7. \A t \in Tasks : f.bid[t] # NoBid => f.asg[t] = f.bid[t].agent
  BY <1>1 DEF EngineCore
<1>8. AsgFollows(e, f)
  BY <1>1 DEF EngineCore, AsgFollows
<1> QED BY <1>1, <1>6, <1>7, <1>8 DEF EngineOK

\* An upsert may hand the engine any assigned_to; the rest stays in order.
LEMMA UpsertKeepsCore ==
  ASSUME NEW d \in Drones, NEW e, EngineCore(d, e),
         NEW ts \in SUBSET Tasks,
         NEW owner, \A t \in ts : owner[t] \in Drones \cup {NoDrone}
  PROVE  /\ EngineCore(d, UpsertTasks(e, ts, owner))
         /\ Upserted(e, ts, owner, UpsertTasks(e, ts, owner))
<1> DEFINE f == UpsertTasks(e, ts, owner)
<1>1. /\ f.bid = e.bid /\ f.bundle = e.bundle /\ f.known = e.known \cup ts
      /\ f.asg = [t \in Tasks |-> IF t \in ts THEN owner[t] ELSE e.asg[t]]
  BY DEF EngineCore, Engine, UpsertTasks
<1>2. f.asg \in [Tasks -> Drones \cup {NoDrone}]
  BY <1>1 DEF EngineCore, Engine
<1>3. f \in Engine
  BY <1>1, <1>2 DEF EngineCore, Engine, UpsertTasks
<1>4. Bundled(f) = Bundled(e)
  BY <1>1 DEF Bundled
<1>5. EngineCore(d, f)
  BY <1>1, <1>3, <1>4 DEF EngineCore
<1> QED BY <1>1, <1>5 DEF Upserted

\* The common part of clear_agent_claims and consensus_phase: the bundle is cut
\* at a task the drone no longer wins, and no bid of the drone is left for what
\* was cut.
LEMMA CutKeepsOK ==
  ASSUME NEW d \in Drones, NEW e, EngineCore(d, e),
         NEW n \in 0..Len(e.bundle),
         NEW bid \in [Tasks -> Bid \cup {NoBid}],
         \A t \in Tasks : bid[t] # NoBid => t \in e.known,
         \A t \in Suffix(e.bundle, n) : bid[t].agent # d,
         \A t \in Elems(SubSeq(e.bundle, 1, n)) :
           bid[t].agent = d,
         \A t \in Tasks \ Bundled(e) : bid[t].agent # d,
         NEW f \in Engine, f.bundle = SubSeq(e.bundle, 1, n),
         f.bid = bid, f.known = e.known, f.asg = e.asg
  PROVE  /\ EngineOK(d, SyncAssignments(f))
         /\ SyncAssignments(f).bid = bid
         /\ SyncAssignments(f).known = e.known
         /\ AsgFollows(e, SyncAssignments(f))
<1>1. e \in Engine /\ e.bundle \in Seq(Tasks) /\ Len(e.bundle) \in Nat
  BY LenProperties DEF EngineCore, Engine
<1>2. n \in 0..Len(e.bundle)
  OBVIOUS
<1>3. /\ \A i, j \in 1..Len(SubSeq(e.bundle, 1, n)) :
           SubSeq(e.bundle, 1, n)[i] = SubSeq(e.bundle, 1, n)[j] => i = j
      /\ Len(SubSeq(e.bundle, 1, n)) <= MaxBundle
      /\ Elems(e.bundle) = Elems(SubSeq(e.bundle, 1, n)) \cup Suffix(e.bundle, n)
  BY <1>1, <1>2, CutBundle DEF EngineCore
<1>4. /\ f.bundle = SubSeq(e.bundle, 1, n) /\ f.bid = bid /\ f.known = e.known
  OBVIOUS
<1>5. f \in Engine
  OBVIOUS
<1>7. \A t \in Tasks : (f.bid[t].agent = d) <=> t \in Bundled(f)
  BY <1>3, <1>4 DEF Bundled
<1>8. Len(f.bundle) <= MaxBundle
  BY <1>3, <1>4 DEF EngineCore
<1>9. \A i, j \in 1..Len(f.bundle) : f.bundle[i] = f.bundle[j] => i = j
  BY <1>3, <1>4
<1>10. EngineCore(d, f)
  BY <1>4, <1>5, <1>7, <1>8, <1>9 DEF EngineCore
<1> QED BY <1>4, <1>10, SyncRestores DEF AsgFollows

\* Forgetting the claims of departed drones leaves an engine in order, and
\* without a claim of any of them.
LEMMA ClearKeepsOK ==
  ASSUME NEW d \in Drones, NEW e, EngineCore(d, e), NEW gone \in SUBSET Drones
  PROVE  /\ EngineOK(d, ClearAgentClaims(e, d, gone))
         /\ \A t \in Tasks : LET b == ClearAgentClaims(e, d, gone).bid[t]
                             IN  b = NoBid \/ (b = e.bid[t] /\ b.agent \notin gone)
         /\ \A t \in Tasks : e.bid[t].agent \notin gone \cup {d}
                             => ClearAgentClaims(e, d, gone).bid[t] = e.bid[t]
         /\ ClearAgentClaims(e, d, gone).known = e.known
         /\ AsgFollows(e, ClearAgentClaims(e, d, gone))
<1> DEFINE lost == {t \in Tasks : e.bid[t].agent \in gone}
           n    == KeptLen(e.bundle, lost)
           cut  == {t \in Suffix(e.bundle, n) : e.bid[t].agent = d}
           bid  == [t \in Tasks |-> IF t \in lost \cup cut THEN NoBid ELSE e.bid[t]]
           f    == [e EXCEPT !.bundle = SubSeq(e.bundle, 1, n), !.bid = bid]
<1>1. e \in Engine /\ e.bundle \in Seq(Tasks)
  BY DEF EngineCore, Engine
<1>2. n \in 0..Len(e.bundle) /\ \A i \in 1..n : e.bundle[i] \notin lost
  BY <1>1, KeptLenIsCut
<1>3. bid \in [Tasks -> Bid \cup {NoBid}]
  BY <1>1 DEF Engine
<1>4. NoBid.agent # d
  BY EngineAssumption DEF NoBid
<1> HIDE DEF n
<1>5. /\ Elems(SubSeq(e.bundle, 1, n)) = {e.bundle[i] : i \in 1..n}
      /\ Elems(e.bundle) = Elems(SubSeq(e.bundle, 1, n)) \cup Suffix(e.bundle, n)
      /\ Elems(SubSeq(e.bundle, 1, n)) \cap Suffix(e.bundle, n) = {}
      /\ Elems(e.bundle) \subseteq Tasks
  <2>1. \A i, j \in 1..Len(e.bundle) : e.bundle[i] = e.bundle[j] => i = j
    BY DEF EngineCore
  <2>2. Elems(e.bundle) \subseteq Tasks
    BY <1>1, ElementOfSeq DEF Elems
  <2> QED BY <1>1, <1>2, <2>1, <2>2, CutBundle
<1>6. \A t \in Suffix(e.bundle, n) : bid[t].agent # d
  BY <1>4, <1>5
<1>7. \A t \in Elems(SubSeq(e.bundle, 1, n)) : bid[t].agent = d
  BY <1>2, <1>5 DEF EngineCore, Bundled
<1>8. \A t \in Tasks \ Bundled(e) : bid[t].agent # d
  BY <1>4 DEF EngineCore
<1>9. \A t \in Tasks : bid[t] # NoBid => t \in e.known
  BY DEF EngineCore
<1>10. ClearAgentClaims(e, d, gone) = SyncAssignments(f)
  BY DEF ClearAgentClaims, n
<1>11. \A t \in Tasks :
         /\ bid[t] = NoBid \/ (bid[t] = e.bid[t] /\ bid[t].agent \notin gone)
         /\ e.bid[t].agent \notin gone \cup {d} => bid[t] = e.bid[t]
  OBVIOUS
<1> HIDE DEF bid, lost
<1>13. /\ f \in Engine /\ f.bundle = SubSeq(e.bundle, 1, n)
       /\ f.bid = bid /\ f.known = e.known /\ f.asg = e.asg
  <2>1. SubSeq(e.bundle, 1, n) \in Seq(Tasks)
    BY <1>1, <1>2, SubSeqProperties, ElementOfSeq
  <2> QED BY <1>1, <1>3, <2>1 DEF Engine
<1> HIDE DEF f
<1>12. /\ EngineOK(d, SyncAssignments(f)) /\ SyncAssignments(f).bid = bid
       /\ SyncAssignments(f).known = e.known
       /\ AsgFollows(e, SyncAssignments(f))
  <2>1. n \in 0..Len(e.bundle)
    BY <1>2
  <2> QED BY ONLY EngineAssumption, EngineCore(d, e), d \in Drones, <2>1, <1>3,
                  <1>6, <1>7, <1>8, <1>9, <1>13, CutKeepsOK
<1> QED BY <1>10, <1>11, <1>12

\* One payload of another drone leaves an engine in order, and every bid in it
\* is forgotten, unchanged, or one of the sender's.
LEMMA ConsensusKeepsOK ==
  ASSUME NEW d \in Drones, NEW e, EngineCore(d, e),
         NEW s \in Drones, s # d, NEW m, PayloadOK(s, m), m.known \subseteq e.known
  PROVE  /\ EngineOK(d, ConsensusPhase(e, d, m))
         /\ ConsensusPhase(e, d, m).known = e.known
         /\ AsgFollows(e, ConsensusPhase(e, d, m))
         /\ \A t \in Tasks : LET b == ConsensusPhase(e, d, m).bid[t]
                             IN  \/ b = NoBid \/ b = e.bid[t]
                                 \/ /\ b = m.bid[t] /\ b.agent = s
                                    /\ t \in Elems(m.bundle)
<1> DEFINE heard  == Elems(m.bundle)
           beaten == {t \in heard : RemoteWins(d, e.bid[t], m.bid[t])}
           lost   == {t \in beaten : m.bid[t].agent # d}
           n      == KeptLen(e.bundle, lost)
           cut    == {t \in Suffix(e.bundle, n) : e.bid[t].agent = d}
           Before(q, u, t) == \E i, j \in 1..Len(q) : i < j /\ q[i] = u /\ q[j] = t
           freed  == {t \in cut \cap heard : \E u \in lost :
                        Before(e.bundle, u, t) /\ Before(m.bundle, u, t)}
           bid    == [t \in Tasks |-> IF t \in beaten \cup freed THEN m.bid[t]
                                      ELSE IF t \in cut THEN NoBid ELSE e.bid[t]]
           f      == [e EXCEPT !.bundle = SubSeq(e.bundle, 1, n), !.bid = bid]
<1>1. /\ e \in Engine /\ e.bundle \in Seq(Tasks)
      /\ e.bid \in [Tasks -> Bid \cup {NoBid}]
  BY DEF EngineCore, Engine
<1>2. ConsensusPhase(e, d, m) = SyncAssignments(f)
  BY DEF ConsensusPhase
<1>3. n \in 0..Len(e.bundle) /\ \A i \in 1..n : e.bundle[i] \notin lost
  BY <1>1, KeptLenIsCut
<1>4. NoBid.agent # d
  BY EngineAssumption DEF NoBid
<1>5. \A t \in heard : t \in Tasks /\ m.bid[t].agent = s /\ t \in e.known
  <2>1. heard \subseteq Tasks
    BY ElementOfSeq DEF PayloadOK, Elems
  <2> QED BY <2>1 DEF PayloadOK
<1>6. lost = beaten /\ beaten \cup freed \subseteq heard
  BY <1>5
<1> HIDE DEF n, beaten, lost, freed, heard
<1>7. bid \in [Tasks -> Bid \cup {NoBid}]
  BY <1>1 DEF PayloadOK
<1>8. /\ Elems(SubSeq(e.bundle, 1, n)) = {e.bundle[i] : i \in 1..n}
      /\ Elems(e.bundle) = Elems(SubSeq(e.bundle, 1, n)) \cup Suffix(e.bundle, n)
      /\ Elems(SubSeq(e.bundle, 1, n)) \cap Suffix(e.bundle, n) = {}
      /\ Elems(e.bundle) \subseteq Tasks
  <2>1. \A i, j \in 1..Len(e.bundle) : e.bundle[i] = e.bundle[j] => i = j
    BY DEF EngineCore
  <2>2. Elems(e.bundle) \subseteq Tasks
    BY <1>1, ElementOfSeq DEF Elems
  <2> QED BY <1>1, <1>3, <2>1, <2>2, CutBundle
<1>9. freed \subseteq Suffix(e.bundle, n)
  BY DEF freed
<1>10. \A t \in beaten \cup freed : t \in Tasks /\ bid[t] = m.bid[t] /\ bid[t].agent = s
  BY <1>5, <1>6
<1>11. \A t \in Suffix(e.bundle, n) : bid[t].agent # d
  BY <1>4, <1>8, <1>10
<1>12. \A t \in Elems(SubSeq(e.bundle, 1, n)) : bid[t].agent = d
  <2> SUFFICES ASSUME NEW t \in Elems(SubSeq(e.bundle, 1, n)) PROVE bid[t].agent = d
    OBVIOUS
  <2>1. t \notin beaten /\ t \notin Suffix(e.bundle, n)
    BY <1>3, <1>6, <1>8
  <2>2. t \in Tasks /\ bid[t] = e.bid[t] /\ t \in Bundled(e)
    BY <1>8, <1>9, <2>1 DEF Bundled
  <2> QED BY <2>2 DEF EngineCore
<1>13. \A t \in Tasks \ Bundled(e) : bid[t].agent # d
  BY <1>4, <1>10 DEF EngineCore
<1>14. \A t \in Tasks : bid[t] # NoBid => t \in e.known
  BY <1>5, <1>6 DEF EngineCore
<1>15. \A t \in Tasks : \/ bid[t] = NoBid \/ bid[t] = e.bid[t]
                        \/ /\ bid[t] = m.bid[t] /\ bid[t].agent = s
                           /\ t \in Elems(m.bundle)
  BY <1>6, <1>10 DEF heard
<1>16. /\ f \in Engine /\ f.bundle = SubSeq(e.bundle, 1, n)
       /\ f.bid = bid /\ f.known = e.known /\ f.asg = e.asg
  <2> HIDE DEF bid
  <2>1. SubSeq(e.bundle, 1, n) \in Seq(Tasks)
    BY <1>1, <1>3, SubSeqProperties, ElementOfSeq
  <2> QED BY <1>1, <1>7, <2>1 DEF Engine
<1> HIDE DEF f, bid
<1>17. /\ EngineOK(d, SyncAssignments(f)) /\ SyncAssignments(f).bid = bid
       /\ SyncAssignments(f).known = e.known
       /\ AsgFollows(e, SyncAssignments(f))
  <2>1. n \in 0..Len(e.bundle)
    BY <1>3
  <2> QED BY ONLY EngineAssumption, EngineCore(d, e), d \in Drones, <2>1, <1>7,
                  <1>11, <1>12, <1>13, <1>14, <1>16, CutKeepsOK
<1> QED BY <1>2, <1>15, <1>17

\* A payload changes the record of another drone's claim only for a better one.
LEMMA ConsensusImproves ==
  ASSUME NEW d \in Drones, NEW e, EngineCore(d, e), NEW m,
         NEW t \in Tasks, e.bid[t].agent # d
  PROVE  \/ ConsensusPhase(e, d, m).bid[t] = e.bid[t]
         \/ Better(ConsensusPhase(e, d, m).bid[t], e.bid[t])
<1> DEFINE heard  == Elems(m.bundle)
           beaten == {u \in heard : RemoteWins(d, e.bid[u], m.bid[u])}
           lost   == {u \in beaten : m.bid[u].agent # d}
           n      == KeptLen(e.bundle, lost)
           cut    == {u \in Suffix(e.bundle, n) : e.bid[u].agent = d}
           Before(q, u, v) == \E i, j \in 1..Len(q) : i < j /\ q[i] = u /\ q[j] = v
           freed  == {u \in cut \cap heard : \E v \in lost :
                        Before(e.bundle, v, u) /\ Before(m.bundle, v, u)}
           bid    == [u \in Tasks |-> IF u \in beaten \cup freed THEN m.bid[u]
                                      ELSE IF u \in cut THEN NoBid ELSE e.bid[u]]
           f      == [e EXCEPT !.bundle = SubSeq(e.bundle, 1, n), !.bid = bid]
<1>1. ConsensusPhase(e, d, m) = SyncAssignments(f)
  BY DEF ConsensusPhase
<1>2. t \notin cut /\ t \notin freed
  OBVIOUS
<1>3. t \in beaten => Better(m.bid[t], e.bid[t])
  BY DEF RemoteWins
<1>4. bid[t] = IF t \in beaten THEN m.bid[t] ELSE e.bid[t]
  BY <1>2
<1> HIDE DEF bid, beaten
<1>5. f.bid = bid
  BY DEF EngineCore, Engine
<1> HIDE DEF f
<1>6. SyncAssignments(f).bid[t] = bid[t]
  <2>1. SyncAssignments(f).bid = f.bid
    BY DEF SyncAssignments
  <2> QED BY <1>5, <2>1
<1> QED BY <1>1, <1>3, <1>4, <1>6

\* A drone's payload lists its own claims only.
LEMMA PayloadIsOwn ==
  ASSUME NEW d \in Drones, NEW e, EngineOK(d, e)
  PROVE  PayloadOK(d, Payload(e))
<1> DEFINE m == Payload(e)
<1>1. /\ m.bundle = e.bundle /\ m.known = e.known /\ m.asg = e.asg
      /\ m.bid = [t \in Tasks |-> IF t \in Bundled(e) THEN e.bid[t] ELSE NoBid]
  BY DEF Payload
<1>2. \A t \in Bundled(e) : /\ t \in Tasks /\ e.bid[t].agent = d /\ t \in e.known
                             /\ e.asg[t] = d
  <2>1. Bundled(e) \subseteq Tasks
    BY ElementOfSeq DEF Bundled, Elems, EngineOK, EngineCore, Engine
  <2>2. NoBid.agent # d
    BY EngineAssumption DEF NoBid
  <2> QED BY <2>1, <2>2 DEF EngineOK, EngineCore
<1>3. m.bid \in [Tasks -> Bid \cup {NoBid}]
  BY <1>1 DEF EngineOK, EngineCore, Engine
<1>4. \A t \in Tasks : IF t \in Elems(m.bundle)
                       THEN m.bid[t].agent = d /\ t \in m.known /\ m.asg[t] = d
                       ELSE m.bid[t] = NoBid
  BY <1>1, <1>2 DEF Bundled
<1> QED BY <1>1, <1>3, <1>4 DEF PayloadOK, EngineOK, EngineCore, Engine

\* The greedy phase leaves an engine in order.  What it adds are tasks nobody
\* else was assigned to, each with a better bid than the standing one.
LEMMA BundlePhaseKeepsOK ==
  ASSUME NEW d \in Drones, NEW e, EngineCore(d, e), NEW now \in Nat,
         NEW scoreOf, NEW f \in BundlePhase(e, d, now, scoreOf)
  PROVE  /\ EngineOK(d, f)
         /\ f.known = e.known
         /\ AsgFollows(e, f)
         /\ \A t \in Tasks :
              \/ f.bid[t] = e.bid[t]
              \/ /\ f.bid[t].agent = d /\ t \in e.known /\ e.asg[t] \in {NoDrone, d}
                 /\ Better(f.bid[t], e.bid[t]) /\ f.bid[t].ts = now
<1> DEFINE room   == IF Len(e.bundle) >= MaxBundle THEN 0 ELSE MaxBundle - Len(e.bundle)
           scores == (UNION {scoreOf[t] : t \in Tasks}) \cap Nat
           tries  == UNION {[1..n -> Tasks] \X [1..n -> scores] : n \in 0..room}
<1>1. PICK q \in tries : IsGreedy(e, d, scoreOf, q[1], q[2])
                         /\ f = AddPicks(e, d, now, q[1], q[2])
  BY DEF BundlePhase
<1>2. PICK n \in 0..room : q \in [1..n -> Tasks] \X [1..n -> scores]
  BY <1>1
<1> DEFINE p  == q[1]
           sc == q[2]
           At(t) == CHOOSE i \in 1..Len(p) : p[i] = t
           bid == [t \in Tasks |-> IF t \in Elems(p)
                                   THEN [score |-> sc[At(t)], agent |-> d, ts |-> now]
                                   ELSE e.bid[t]]
           g  == [e EXCEPT !.bundle = e.bundle \o p, !.bid = bid]
<1>3. /\ e \in Engine /\ e.bundle \in Seq(Tasks) /\ Len(e.bundle) \in Nat
      /\ \A i \in 1..Len(e.bundle) : e.bundle[i] \in Tasks
  BY LenProperties, ElementOfSeq DEF EngineCore, Engine
<1>4. n \in Nat /\ p \in [1..n -> Tasks] /\ sc \in [1..n -> Nat]
  BY <1>2, <1>3, EngineAssumption
<1>5. p \in Seq(Tasks) /\ Len(p) = n
  BY <1>4
<1>6. f = SyncAssignments(g)
  BY <1>1 DEF AddPicks
<1>7. IsGreedy(e, d, scoreOf, p, sc)
  BY <1>1
<1>71. \A i \in 1..Len(p) :
         /\ p[i] \in Candidates(e, d, {p[j] : j \in 1..i-1})
         /\ CanBid(e, d, p[i], sc[i])
  BY <1>7 DEF IsGreedy
<1>72. Len(e.bundle) + n <= MaxBundle \/ n = 0
  BY <1>2, <1>3, EngineAssumption
<1> HIDE DEF p, sc, room, scores, tries
<1>8. /\ Len(e.bundle) + n <= MaxBundle \/ n = 0
      /\ \A i \in 1..n : /\ p[i] \in e.known
                         /\ p[i] \notin Bundled(e)
                         /\ \A j \in 1..i-1 : p[i] # p[j]
                         /\ e.asg[p[i]] \in {NoDrone, d}
                         /\ Better([score |-> sc[i], agent |-> d], e.bid[p[i]])
  BY <1>5, <1>71, <1>72 DEF Candidates, CanBid
<1>9. \A i, j \in 1..n : p[i] = p[j] => i = j
  <2>1. ASSUME NEW i \in 1..n, NEW j \in 1..n, i < j PROVE p[i] # p[j]
    <3>1. i \in 1..j-1
      BY <1>4, <2>1
    <3> QED BY <1>8, <3>1
  <2> QED BY <1>4, <2>1
<1>10. \A i \in 1..n : At(p[i]) = i
  <2> SUFFICES ASSUME NEW i \in 1..n PROVE At(p[i]) = i
    OBVIOUS
  <2>1. At(p[i]) \in 1..n /\ p[At(p[i])] = p[i]
    BY <1>5
  <2> QED BY <1>9, <2>1
<1>11. \A t \in Elems(p) : \E i \in 1..n : t = p[i] /\ At(t) = i
  BY <1>5, <1>10 DEF Elems
<1> HIDE DEF At
<1>12. /\ e.bundle \o p \in Seq(Tasks)
       /\ Len(e.bundle \o p) = Len(e.bundle) + n
       /\ \A i \in 1..Len(e.bundle)+n :
            (e.bundle \o p)[i] = IF i <= Len(e.bundle) THEN e.bundle[i]
                                 ELSE p[i - Len(e.bundle)]
  <2> DEFINE b0 == e.bundle
  <2>1. b0 \in Seq(Tasks) /\ p \in Seq(Tasks) /\ Len(p) = n
    BY <1>3, <1>5
  <2> HIDE DEF b0
  <2>2. /\ b0 \o p \in Seq(Tasks) /\ Len(b0 \o p) = Len(b0) + n
        /\ \A i \in 1..Len(b0)+n : (b0 \o p)[i] = IF i <= Len(b0) THEN b0[i] ELSE p[i - Len(b0)]
    BY ONLY <2>1, ConcatProperties
  <2> QED BY <2>2 DEF b0
<1>13. Elems(e.bundle \o p) = Bundled(e) \cup Elems(p)
  <2> DEFINE L == Len(e.bundle)
             c == e.bundle \o p
  <2>1. \A i \in 1..L : i \in 1..L+n /\ c[i] = e.bundle[i]
    BY <1>3, <1>4, <1>12
  <2>2. \A i \in 1..n : L+i \in 1..L+n /\ c[L+i] = p[i]
    <3> SUFFICES ASSUME NEW i \in 1..n PROVE L+i \in 1..L+n /\ c[L+i] = p[i]
      OBVIOUS
    <3>1. /\ L \in Nat /\ i \in Nat /\ L+i \in 1..L+n
          /\ ~(L+i <= L) /\ (L+i) - L = i
      BY <1>3, <1>4
    <3> QED BY <1>12, <3>1
  <2>3. \A k \in 1..L+n : k \in 1..L \/ \E i \in 1..n : k = L+i
    <3> SUFFICES ASSUME NEW k \in 1..L+n, k \notin 1..L
                 PROVE  \E i \in 1..n : k = L+i
      OBVIOUS
    <3>1. k - L \in 1..n /\ k = L + (k - L)
      BY <1>3, <1>4
    <3> QED BY <3>1
  <2>4. Len(c) = L+n /\ Len(p) = n
    BY <1>5, <1>12
  <2> HIDE DEF L, c
  <2>5. Elems(c) = {c[k] : k \in 1..L+n}
    BY <2>4 DEF Elems
  <2>6. Elems(c) = {e.bundle[i] : i \in 1..L} \cup {p[i] : i \in 1..n}
    BY <2>1, <2>2, <2>3, <2>5
  <2> QED BY <2>4, <2>6 DEF Elems, Bundled, L, c
<1>14. \A t \in Elems(p) :
         /\ t \in Tasks /\ t \in e.known /\ t \notin Bundled(e)
         /\ bid[t] \in Bid /\ bid[t].agent = d /\ bid[t].ts = now
         /\ e.asg[t] \in {NoDrone, d} /\ Better(bid[t], e.bid[t])
  <2> SUFFICES ASSUME NEW t \in Elems(p)
      PROVE /\ t \in Tasks /\ t \in e.known /\ t \notin Bundled(e)
            /\ bid[t] \in Bid /\ bid[t].agent = d /\ bid[t].ts = now
            /\ e.asg[t] \in {NoDrone, d} /\ Better(bid[t], e.bid[t])
    OBVIOUS
  <2>1. PICK i \in 1..n : t = p[i] /\ At(t) = i
    BY <1>11
  <2>2. t \in Tasks /\ bid[t] = [score |-> sc[i], agent |-> d, ts |-> now]
    BY <1>4, <2>1
  <2>3. bid[t] \in Bid /\ bid[t].agent = d /\ bid[t].score = sc[i] /\ bid[t].ts = now
    BY <1>4, <2>2 DEF Bid
  <2>4. Better(bid[t], e.bid[t])
    BY <1>8, <2>1, <2>3 DEF Better
  <2> QED BY <1>8, <2>1, <2>2, <2>3, <2>4
<1>15. bid \in [Tasks -> Bid \cup {NoBid}]
  BY <1>3, <1>14 DEF Engine
<1>16. \A t \in Tasks \ Elems(p) : bid[t] = e.bid[t]
  OBVIOUS
<1> HIDE DEF bid
<1>17. /\ g \in Engine /\ g.bundle = e.bundle \o p
       /\ g.bid = bid /\ g.known = e.known /\ g.asg = e.asg
  BY <1>3, <1>12, <1>15 DEF Engine
<1> HIDE DEF g
<1>18. \A t \in Tasks : (g.bid[t].agent = d) <=> t \in Bundled(g)
  BY <1>13, <1>14, <1>16, <1>17 DEF Bundled, EngineCore
<1>19. Len(g.bundle) <= MaxBundle
  <2>1. Len(e.bundle) <= MaxBundle
    BY DEF EngineCore
  <2> QED BY <1>3, <1>4, <1>8, <1>12, <1>17, <2>1, EngineAssumption
<1>20. \A i, j \in 1..Len(g.bundle) : g.bundle[i] = g.bundle[j] => i = j
  <2> DEFINE L == Len(e.bundle)
             c == e.bundle \o p
  <2>1. \A i, j \in 1..L : e.bundle[i] = e.bundle[j] => i = j
    BY DEF EngineCore
  <2>2. \A i \in 1..L, j \in 1..n : e.bundle[i] # p[j]
    BY <1>8 DEF Bundled, Elems
  <2>3. ASSUME NEW i \in 1..L+n, NEW j \in 1..L+n, c[i] = c[j] PROVE i = j
    <3>1. CASE i <= L /\ j <= L
      <4>1. i \in 1..L /\ j \in 1..L /\ c[i] = e.bundle[i] /\ c[j] = e.bundle[j]
        BY <1>3, <1>4, <1>12, <3>1
      <4> QED BY <2>1, <2>3, <4>1
    <3>2. CASE i <= L /\ j > L
      <4>1. i \in 1..L /\ j - L \in 1..n /\ c[i] = e.bundle[i] /\ c[j] = p[j - L]
        BY <1>3, <1>4, <1>12, <3>2
      <4> QED BY <2>2, <2>3, <4>1
    <3>3. CASE i > L /\ j <= L
      <4>1. j \in 1..L /\ i - L \in 1..n /\ c[j] = e.bundle[j] /\ c[i] = p[i - L]
        BY <1>3, <1>4, <1>12, <3>3
      <4> QED BY <2>2, <2>3, <4>1
    <3>4. CASE i > L /\ j > L
      <4>1. i - L \in 1..n /\ j - L \in 1..n /\ c[i] = p[i - L] /\ c[j] = p[j - L]
        BY <1>3, <1>4, <1>12, <3>4
      <4>2. i - L = j - L
        BY <1>9, <2>3, <4>1
      <4> QED BY <1>3, <1>4, <4>2
    <3> QED BY <1>3, <1>4, <3>1, <3>2, <3>3, <3>4
  <2> QED BY <1>12, <1>17, <2>3
<1>21. \A t \in Tasks : bid[t] # NoBid => t \in e.known
  BY <1>14, <1>16 DEF EngineCore
<1>22. EngineCore(d, g)
  BY <1>17, <1>18, <1>19, <1>20, <1>21 DEF EngineCore
<1>23. /\ EngineOK(d, f) /\ f.bid = bid /\ f.known = e.known
       /\ AsgFollows(e, f)
  BY <1>6, <1>17, <1>22, SyncRestores DEF AsgFollows
<1> QED BY <1>14, <1>16, <1>23

\* The greedy phase leaves nothing behind that it could have taken: a task that
\* is assigned to nobody else is in the bundle, or the bundle is full, or the
\* score was infeasible or did not outbid the standing winner.
LEMMA BundlePhaseTakes ==
  ASSUME NEW d \in Drones, NEW e, EngineCore(d, e), NEW now, NEW scoreOf,
         NEW f \in BundlePhase(e, d, now, scoreOf),
         NEW t \in e.known, e.asg[t] \in {NoDrone, d}, scoreOf[t] \in SUBSET Int
  PROVE  \/ t \in Bundled(f) \/ Len(f.bundle) >= MaxBundle
         \/ \E v \in scoreOf[t] : ~CanBid(f, d, t, v)
<1> DEFINE room   == IF Len(e.bundle) >= MaxBundle THEN 0 ELSE MaxBundle - Len(e.bundle)
           scores == (UNION {scoreOf[u] : u \in Tasks}) \cap Nat
           tries  == UNION {[1..n -> Tasks] \X [1..n -> scores] : n \in 0..room}
<1>1. PICK q \in tries : IsGreedy(e, d, scoreOf, q[1], q[2])
                         /\ f = AddPicks(e, d, now, q[1], q[2])
  BY DEF BundlePhase
<1>2. PICK n \in 0..room : q \in [1..n -> Tasks] \X [1..n -> scores]
  BY <1>1
<1> DEFINE p  == q[1]
           sc == q[2]
           At(u) == CHOOSE i \in 1..Len(p) : p[i] = u
           bid == [u \in Tasks |-> IF u \in Elems(p)
                                   THEN [score |-> sc[At(u)], agent |-> d, ts |-> now]
                                   ELSE e.bid[u]]
           g  == [e EXCEPT !.bundle = e.bundle \o p, !.bid = bid]
<1>3. /\ e \in Engine /\ e.bundle \in Seq(Tasks) /\ Len(e.bundle) \in Nat /\ t \in Tasks
  BY LenProperties DEF EngineCore, Engine
<1>4. n \in Nat /\ p \in [1..n -> Tasks]
  BY <1>2, <1>3, EngineAssumption
<1>5. p \in Seq(Tasks) /\ Len(p) = n
  BY <1>4
<1>6. f = SyncAssignments(g)
  BY <1>1 DEF AddPicks
<1>7. \/ Len(e.bundle) + Len(p) >= MaxBundle
      \/ \A u \in Candidates(e, d, {p[j] : j \in 1..(Len(p)+1)-1}) :
           \E v \in scoreOf[u] : CanBid(e, d, u, v) => v <= -1
  BY <1>1 DEF IsGreedy
<1>8. g.bundle = e.bundle \o p /\ g.bid = bid
  BY <1>3 DEF Engine
<1>9. bid[t] = IF t \in Elems(p) THEN [score |-> sc[At(t)], agent |-> d, ts |-> now]
               ELSE e.bid[t]
  BY <1>3
<1> HIDE DEF p, sc, At, bid, g, room, scores, tries
<1>10. f.bundle = e.bundle \o p /\ f.bid = bid
  BY <1>6, <1>8 DEF SyncAssignments
<1>11. /\ Len(f.bundle) = Len(e.bundle) + n
       /\ \A i \in 1..Len(e.bundle)+n :
            f.bundle[i] = IF i <= Len(e.bundle) THEN e.bundle[i] ELSE p[i - Len(e.bundle)]
  <2> DEFINE b0 == e.bundle
  <2>1. b0 \in Seq(Tasks) /\ p \in Seq(Tasks) /\ Len(p) = n
    BY <1>3, <1>5
  <2> HIDE DEF b0
  <2>2. /\ Len(b0 \o p) = Len(b0) + n
        /\ \A i \in 1..Len(b0)+n : (b0 \o p)[i] = IF i <= Len(b0) THEN b0[i] ELSE p[i - Len(b0)]
    BY ONLY <2>1, ConcatProperties
  <2> QED BY <1>10, <2>2 DEF b0
<1>12. CASE t \in Bundled(e)
  <2>1. PICK i \in 1..Len(e.bundle) : t = e.bundle[i]
    BY <1>12 DEF Bundled, Elems
  <2>2. i \in 1..Len(f.bundle) /\ f.bundle[i] = t
    BY <1>3, <1>4, <1>11, <2>1
  <2> QED BY <2>2 DEF Bundled, Elems
<1>13. CASE t \in Elems(p)
  <2>1. PICK i \in 1..n : t = p[i]
    BY <1>5, <1>13 DEF Elems
  <2> DEFINE k == Len(e.bundle) + i
  <2>2. k \in 1..Len(e.bundle)+n /\ ~(k <= Len(e.bundle)) /\ k - Len(e.bundle) = i
    BY <1>3, <1>4
  <2> HIDE DEF k
  <2>3. k \in 1..Len(f.bundle) /\ f.bundle[k] = t
    BY <1>11, <2>1, <2>2
  <2> QED BY <2>3 DEF Bundled, Elems
<1>14. CASE Len(e.bundle) + Len(p) >= MaxBundle
  BY <1>5, <1>11, <1>14
<1>15. CASE /\ t \notin Bundled(e) /\ t \notin Elems(p)
            /\ ~(Len(e.bundle) + Len(p) >= MaxBundle)
  <2>1. {p[j] : j \in 1..(Len(p)+1)-1} = Elems(p)
    <3>1. (Len(p)+1)-1 = Len(p)
      BY <1>4, <1>5
    <3> QED BY <3>1 DEF Elems
  <2>2. t \in Candidates(e, d, Elems(p))
    BY <1>15 DEF Candidates
  <2>3. PICK v \in scoreOf[t] : CanBid(e, d, t, v) => v <= -1
    BY <1>7, <1>15, <2>1, <2>2
  <2>4. f.bid[t] = e.bid[t]
    BY <1>9, <1>10, <1>15
  <2>5. ASSUME CanBid(f, d, t, v) PROVE FALSE
    <3>1. v >= 0 /\ v <= -1
      BY <2>3, <2>4, <2>5 DEF CanBid
    <3>2. v \in Int
      OBVIOUS
    <3> QED BY <3>1, <3>2
  <2> QED BY <2>5
<1> QED BY <1>12, <1>13, <1>14, <1>15

-----------------------------------------------------------------------------
(* The loops and their closed forms.  A loop that has taken i entries of a *)
(* payload has left the closed form of those i entries (StageOf): this is  *)
(* what every turn preserves.                                              *)

HeardBy(m, i)        == {m.bundle[j] : j \in 1..i}
BeatenBy(e, d, m, i) == {t \in HeardBy(m, i) : RemoteWins(d, e.bid[t], m.bid[t])}
KeptBy(e, d, m, i)   == KeptLen(e.bundle, BeatenBy(e, d, m, i))
Precedes(s, u, t)    == \E i, j \in 1..Len(s) : i < j /\ s[i] = u /\ s[j] = t
FreedBy(e, d, m, i)  ==
  {t \in Suffix(e.bundle, KeptBy(e, d, m, i)) \cap HeardBy(m, i) :
     \E u \in BeatenBy(e, d, m, i) : Precedes(e.bundle, u, t) /\ Precedes(m.bundle, u, t)}
BidBy(e, d, m, i) ==
  [t \in Tasks |-> IF t \in BeatenBy(e, d, m, i) \cup FreedBy(e, d, m, i) THEN m.bid[t]
                   ELSE IF t \in Suffix(e.bundle, KeptBy(e, d, m, i)) THEN NoBid
                   ELSE e.bid[t]]
StageOf(e, d, m, i) ==
  [e EXCEPT !.bundle = SubSeq(e.bundle, 1, KeptBy(e, d, m, i)), !.bid = BidBy(e, d, m, i)]

(* An engine in order, and the payload of another drone.                   *)
LoopInput(d, e, s, m) ==
  /\ d \in Drones /\ EngineCore(d, e)
  /\ s \in Drones /\ s # d /\ PayloadOK(s, m)
  /\ \A i, j \in 1..Len(m.bundle) : m.bundle[i] = m.bundle[j] => i = j

\* There is only one place at which a bundle can be cut.
LEMMA KeptLenUnique ==
  ASSUME NEW s \in Seq(Tasks), NEW lost, NEW n \in 0..Len(s),
         \A i \in 1..n : s[i] \notin lost, n = Len(s) \/ s[n+1] \in lost
  PROVE  KeptLen(s, lost) = n
<1>1. Len(s) \in Nat
  BY LenProperties
<1>2. PICK k \in 0..Len(s) : /\ k = KeptLen(s, lost)
                             /\ \A i \in 1..k : s[i] \notin lost
                             /\ k = Len(s) \/ s[k+1] \in lost
  BY KeptLenIsCut
<1>3. ~(k < n)
  <2>1. ASSUME k < n PROVE FALSE
    <3>1. k + 1 \in 1..n /\ k # Len(s)
      BY <1>1, <2>1
    <3> QED BY <1>2, <3>1
  <2> QED BY <2>1
<1>4. ~(n < k)
  <2>1. ASSUME n < k PROVE FALSE
    <3>1. n + 1 \in 1..k /\ n # Len(s)
      BY <1>1, <2>1
    <3> QED BY <1>2, <3>1
  <2> QED BY <2>1
<1> QED BY <1>1, <1>2, <1>3, <1>4

\* In a bundle without repetitions, list.index finds the task.
LEMMA IndexFinds ==
  ASSUME NEW s \in Seq(Tasks), \A i, j \in 1..Len(s) : s[i] = s[j] => i = j,
         NEW p \in 1..Len(s)
  PROVE  Index(s, s[p]) = p
<1>1. Len(s) \in Nat
  BY LenProperties
<1>2. \A j \in 1..p-1 : s[j] # s[p]
  <2> SUFFICES ASSUME NEW j \in 1..p-1 PROVE s[j] # s[p]
    OBVIOUS
  <2>1. j \in 1..Len(s) /\ j # p
    BY <1>1
  <2> QED BY <2>1
<1>3. \A i \in 1..Len(s) : s[i] = s[p] => i = p
  OBVIOUS
<1> QED BY <1>2, <1>3 DEF Index

\* One more lost task moves the cut to that task if it was kept, and leaves
\* it where it was otherwise.
LEMMA CutMoves ==
  ASSUME NEW s \in Seq(Tasks), \A i, j \in 1..Len(s) : s[i] = s[j] => i = j,
         NEW lost, NEW k, k = KeptLen(s, lost), NEW p \in 1..k
  PROVE  KeptLen(s, lost \cup {s[p]}) = p - 1
<1>1. Len(s) \in Nat
  BY LenProperties
<1>2. k \in 0..Len(s) /\ (\A i \in 1..k : s[i] \notin lost)
  BY KeptLenIsCut
<1>3. p \in 1..Len(s) /\ p - 1 \in 0..Len(s) /\ (p - 1) + 1 = p
  BY <1>1, <1>2
<1>4. \A i \in 1..p-1 : s[i] \notin lost \cup {s[p]}
  <2> SUFFICES ASSUME NEW i \in 1..p-1 PROVE s[i] \notin lost \cup {s[p]}
    OBVIOUS
  <2>1. i \in 1..k /\ i \in 1..Len(s) /\ i # p
    BY <1>1, <1>2
  <2> QED BY <1>2, <1>3, <2>1
<1>5. s[(p - 1) + 1] \in lost \cup {s[p]}
  BY <1>3
<1> QED BY <1>3, <1>4, <1>5, KeptLenUnique

LEMMA CutStays ==
  ASSUME NEW s \in Seq(Tasks), NEW lost, NEW k, k = KeptLen(s, lost),
         NEW t, t \notin {s[p] : p \in 1..k}
  PROVE  KeptLen(s, lost \cup {t}) = k
<1>1. k \in 0..Len(s) /\ (\A i \in 1..k : s[i] \notin lost)
      /\ (k = Len(s) \/ s[k+1] \in lost)
  BY KeptLenIsCut
<1>2. \A i \in 1..k : s[i] \notin lost \cup {t}
  BY <1>1
<1>3. k = Len(s) \/ s[k+1] \in lost \cup {t}
  BY <1>1
<1> QED BY <1>1, <1>2, <1>3, KeptLenUnique

\* Engines with the same fields are the same.
LEMMA SameEngine ==
  ASSUME NEW f \in Engine, NEW g \in Engine,
         f.known = g.known, f.asg = g.asg, f.bundle = g.bundle, f.bid = g.bid
  PROVE  f = g
BY DEF Engine

\* The stages are engines, and their bundles what is left of the bundle.
LEMMA StageShape ==
  ASSUME NEW d, NEW e, NEW s, NEW m, LoopInput(d, e, s, m), NEW i \in 0..Len(m.bundle)
  PROVE  /\ StageOf(e, d, m, i) \in Engine
         /\ KeptBy(e, d, m, i) \in 0..Len(e.bundle)
         /\ StageOf(e, d, m, i).known = e.known /\ StageOf(e, d, m, i).asg = e.asg
         /\ StageOf(e, d, m, i).bundle = SubSeq(e.bundle, 1, KeptBy(e, d, m, i))
         /\ StageOf(e, d, m, i).bid = BidBy(e, d, m, i)
<1>1. /\ e \in Engine /\ e.bundle \in Seq(Tasks)
      /\ \A j, k \in 1..Len(e.bundle) : e.bundle[j] = e.bundle[k] => j = k
  BY DEF LoopInput, EngineCore, Engine
<1>2. KeptBy(e, d, m, i) \in 0..Len(e.bundle)
  BY <1>1, KeptLenIsCut DEF KeptBy
<1>3. SubSeq(e.bundle, 1, KeptBy(e, d, m, i)) \in Seq(Tasks)
  BY <1>1, <1>2, CutBundle
<1>4. BidBy(e, d, m, i) \in [Tasks -> Bid \cup {NoBid}]
  <2>1. e.bid \in [Tasks -> Bid \cup {NoBid}] /\ m.bid \in [Tasks -> Bid \cup {NoBid}]
    BY <1>1 DEF Engine, LoopInput, PayloadOK
  <2> QED BY <2>1 DEF BidBy
<1> HIDE DEF KeptBy, BidBy
<1> QED BY <1>1, <1>2, <1>3, <1>4 DEF StageOf, Engine

\* What the next entry of the payload adds to the heard, the beaten and the
\* freed tasks, whatever becomes of the bundle.
LEMMA StageGrows ==
  ASSUME NEW d, NEW e, NEW s, NEW m, LoopInput(d, e, s, m),
         NEW i \in 1..Len(m.bundle), NEW t, t = m.bundle[i]
  PROVE  /\ t \in Tasks /\ m.bid[t] \in Bid /\ m.bid[t].agent = s
         /\ t \notin BeatenBy(e, d, m, i-1) \cup FreedBy(e, d, m, i-1)
         /\ BeatenBy(e, d, m, i) =
              BeatenBy(e, d, m, i-1) \cup (IF RemoteWins(d, e.bid[t], m.bid[t]) THEN {t} ELSE {})
         /\ \A u \in Tasks \ {t} :
              KeptBy(e, d, m, i) <= KeptBy(e, d, m, i-1) =>
                (u \in FreedBy(e, d, m, i) <=> u \in FreedBy(e, d, m, i-1))
         /\ \A u \in BeatenBy(e, d, m, i-1) : Precedes(m.bundle, u, t)
<1>1. /\ e.bundle \in Seq(Tasks) /\ Len(e.bundle) \in Nat
      /\ m.bundle \in Seq(Tasks) /\ Len(m.bundle) \in Nat
      /\ \A j \in 1..Len(m.bundle) : m.bundle[j] \in Tasks
      /\ \A j, k \in 1..Len(m.bundle) : m.bundle[j] = m.bundle[k] => j = k
  BY LenProperties, ElementOfSeq DEF LoopInput, EngineCore, Engine, PayloadOK
<1>2. t \in Tasks /\ m.bid[t] \in Bid /\ m.bid[t].agent = s
  <2>1. t \in Tasks /\ t \in Elems(m.bundle)
    BY <1>1 DEF Elems
  <2>2. m.bid[t].agent = s /\ m.bid[t] \in Bid \cup {NoBid} /\ s \in Drones
    BY <2>1 DEF LoopInput, PayloadOK
  <2>3. NoBid.agent \notin Drones
    BY EngineAssumption DEF NoBid
  <2> QED BY <2>1, <2>2, <2>3
<1>3. HeardBy(m, i) = HeardBy(m, i-1) \cup {t}
  <2>1. \A j \in 1..i : j \in 1..i-1 \/ j = i
    BY <1>1
  <2>2. \A j \in 1..i-1 : j \in 1..i
    BY <1>1
  <2> QED BY <1>1, <2>1, <2>2 DEF HeardBy
<1>4. \A j \in 1..i-1 : j \in 1..Len(m.bundle) /\ j < i
  BY <1>1
<1>5. t \notin HeardBy(m, i-1)
  BY <1>1, <1>4 DEF HeardBy
<1>6. BeatenBy(e, d, m, i) =
        BeatenBy(e, d, m, i-1) \cup (IF RemoteWins(d, e.bid[t], m.bid[t]) THEN {t} ELSE {})
  BY <1>3, <1>5 DEF BeatenBy
<1>7. t \notin BeatenBy(e, d, m, i-1) \cup FreedBy(e, d, m, i-1)
  BY <1>5 DEF BeatenBy, FreedBy
<1>8. \A u \in HeardBy(m, i-1) : Precedes(m.bundle, u, t) /\ ~Precedes(m.bundle, t, u)
  <2> SUFFICES ASSUME NEW j \in 1..i-1
               PROVE  /\ Precedes(m.bundle, m.bundle[j], t)
                      /\ ~Precedes(m.bundle, t, m.bundle[j])
    BY DEF HeardBy
  <2>1. Precedes(m.bundle, m.bundle[j], t)
    BY <1>4 DEF Precedes
  <2>2. ASSUME NEW k \in 1..Len(m.bundle), NEW l \in 1..Len(m.bundle), k < l,
               m.bundle[k] = t, m.bundle[l] = m.bundle[j]
        PROVE  FALSE
    <3>1. k = i /\ l = j
      BY <1>1, <1>4, <2>2
    <3> QED BY <1>1, <1>4, <2>2, <3>1
  <2> QED BY <2>1, <2>2 DEF Precedes
<1>9. \A u \in BeatenBy(e, d, m, i-1) : Precedes(m.bundle, u, t)
  BY <1>8 DEF BeatenBy
<1> DEFINE k == KeptBy(e, d, m, i-1)
           l == KeptBy(e, d, m, i)
<1>10. /\ k \in 0..Len(e.bundle) /\ l \in 0..Len(e.bundle)
       /\ \A j \in 1..k : e.bundle[j] \notin BeatenBy(e, d, m, i-1)
  BY <1>1, KeptLenIsCut DEF KeptBy
<1> HIDE DEF k, l
<1>11. ASSUME NEW u \in Tasks \ {t}, l <= k, u \in FreedBy(e, d, m, i-1)
       PROVE  u \in FreedBy(e, d, m, i)
  <2>1. Suffix(e.bundle, k) \subseteq Suffix(e.bundle, l)
    <3>1. \A j \in k+1..Len(e.bundle) : j \in l+1..Len(e.bundle)
      BY <1>1, <1>10, <1>11
    <3> QED BY <3>1 DEF Suffix
  <2> QED BY <1>3, <1>6, <1>11, <2>1 DEF FreedBy, k, l
<1>12. ASSUME NEW u \in Tasks \ {t}, u \in FreedBy(e, d, m, i)
       PROVE  u \in FreedBy(e, d, m, i-1)
  <2>1. u \in HeardBy(m, i-1)
    BY <1>3, <1>12 DEF FreedBy
  <2>2. PICK w \in BeatenBy(e, d, m, i) : Precedes(e.bundle, w, u) /\ Precedes(m.bundle, w, u)
    BY <1>12 DEF FreedBy
  <2>3. w # t
    BY <1>8, <2>1, <2>2
  <2>4. w \in BeatenBy(e, d, m, i-1)
    BY <1>6, <2>2, <2>3
  <2>5. u \in Suffix(e.bundle, k)
    <3>1. PICK a \in 1..Len(e.bundle), b \in 1..Len(e.bundle) :
              a < b /\ e.bundle[a] = w /\ e.bundle[b] = u
      BY <2>2 DEF Precedes
    <3>2. a \notin 1..k
      BY <1>10, <2>4, <3>1
    <3>3. b \in k+1..Len(e.bundle)
      BY <1>1, <1>10, <3>1, <3>2
    <3> QED BY <3>1, <3>3 DEF Suffix
  <2> QED BY <2>1, <2>2, <2>4, <2>5 DEF FreedBy, k
<1>13. \A u \in Tasks \ {t} :
         l <= k => (u \in FreedBy(e, d, m, i) <=> u \in FreedBy(e, d, m, i-1))
  BY <1>11, <1>12
<1> QED BY <1>2, <1>6, <1>7, <1>9, <1>13 DEF k, l

\* What _remove_from_bundle does to a bundle that holds the task at p.
CutAt(f, r, d, p) ==
  /\ r \in Engine /\ r.known = f.known /\ r.asg = f.asg
  /\ r.bundle = SubSeq(f.bundle, 1, p-1)
  /\ \A u \in Tasks : r.bid[u] = IF u \in Suffix(f.bundle, p-1) /\ f.bid[u].agent = d
                                 THEN NoBid ELSE f.bid[u]

LEMMA RemoveCuts ==
  ASSUME NEW f \in Engine, \A i, j \in 1..Len(f.bundle) : f.bundle[i] = f.bundle[j] => i = j,
         NEW p \in 1..Len(f.bundle), NEW d
  PROVE  CutAt(f, RemoveFromBundle(f, d, f.bundle[p]), d, p)
<1> DEFINE t == f.bundle[p]
           b == SubSeq(f.bundle, 1, p-1)
           w == [u \in Tasks |-> IF u \in {v \in Suffix(f.bundle, p-1) : f.bid[v].agent = d}
                                 THEN NoBid ELSE f.bid[u]]
<1>1. f.bundle \in Seq(Tasks) /\ Len(f.bundle) \in Nat
  BY LenProperties DEF Engine
<1>2. Index(f.bundle, t) = p /\ t \in Bundled(f)
  BY <1>1, IndexFinds DEF Bundled, Elems
<1>3. p - 1 \in 0..Len(f.bundle)
  BY <1>1
<1>4. RemoveFromBundle(f, d, t) = [f EXCEPT !.bundle = b, !.bid = w]
  BY <1>2 DEF RemoveFromBundle
<1>5. b \in Seq(Tasks)
  BY <1>1, <1>3, CutBundle
<1>6. w \in [Tasks -> Bid \cup {NoBid}]
  BY DEF Engine
<1>7. \A u \in Tasks : w[u] = IF u \in Suffix(f.bundle, p-1) /\ f.bid[u].agent = d
                             THEN NoBid ELSE f.bid[u]
  OBVIOUS
<1> HIDE DEF b, w
<1>8. /\ [f EXCEPT !.bundle = b, !.bid = w] \in Engine
      /\ [f EXCEPT !.bundle = b, !.bid = w].known = f.known
      /\ [f EXCEPT !.bundle = b, !.bid = w].asg = f.asg
      /\ [f EXCEPT !.bundle = b, !.bid = w].bundle = b
      /\ [f EXCEPT !.bundle = b, !.bid = w].bid = w
  BY <1>5, <1>6 DEF Engine
<1> QED BY <1>4, <1>7, <1>8 DEF b, CutAt

\* An entry that wins is written down, the rest stays.
LEMMA WriteBid ==
  ASSUME NEW f \in Engine, NEW t \in Tasks, NEW v \in Bid \cup {NoBid}
  PROVE  LET g == [f EXCEPT !.bid[t] = v]
         IN  /\ g \in Engine /\ g.known = f.known /\ g.asg = f.asg /\ g.bundle = f.bundle
             /\ \A u \in Tasks : g.bid[u] = IF u = t THEN v ELSE f.bid[u]
BY DEF Engine

\* A prefix of a prefix.
LEMMA PrefixOfPrefix ==
  ASSUME NEW s \in Seq(Tasks), NEW k \in 0..Len(s), NEW l \in 0..k
  PROVE  SubSeq(SubSeq(s, 1, k), 1, l) = SubSeq(s, 1, l)
<1>1. Len(s) \in Nat /\ \A j \in 1..Len(s) : s[j] \in Tasks
  BY LenProperties, ElementOfSeq
<1>2. l \in 0..Len(s)
  BY <1>1
<1>3. /\ SubSeq(s, 1, k) \in Seq(Tasks) /\ Len(SubSeq(s, 1, k)) = k
      /\ \A j \in 1..k : SubSeq(s, 1, k)[j] = s[j]
  BY <1>1, SubSeqProperties
<1>4. /\ SubSeq(s, 1, l) \in Seq(Tasks) /\ Len(SubSeq(s, 1, l)) = l
      /\ \A j \in 1..l : SubSeq(s, 1, l)[j] = s[j]
  BY <1>1, <1>2, SubSeqProperties
<1> DEFINE q == SubSeq(s, 1, k)
<1> HIDE DEF q
<1>5. q \in Seq(Tasks) /\ Len(q) = k /\ \A j \in 1..k : q[j] = s[j] /\ q[j] \in Tasks
  BY <1>1, <1>3 DEF q
<1>6. /\ SubSeq(q, 1, l) \in Seq(Tasks) /\ Len(SubSeq(q, 1, l)) = l
      /\ \A j \in 1..l : SubSeq(q, 1, l)[j] = q[j]
  BY <1>1, <1>5, SubSeqProperties
<1>7. \A j \in 1..l : SubSeq(q, 1, l)[j] = SubSeq(s, 1, l)[j]
  BY <1>4, <1>5, <1>6
<1>8. SubSeq(q, 1, l) = SubSeq(s, 1, l)
  BY <1>4, <1>6, <1>7, SeqEqual
<1> QED BY <1>8 DEF q

LEMMA StageTurn ==
  ASSUME NEW d, NEW e, NEW s, NEW m, LoopInput(d, e, s, m),
         NEW i \in 1..Len(m.bundle), NEW t, t = m.bundle[i]
  PROVE  ConsensusEntry(StageOf(e, d, m, i-1), d, t, m.bid[t]) = StageOf(e, d, m, i)
<1> DEFINE f == StageOf(e, d, m, i-1)
           g == StageOf(e, d, m, i)
           B == BeatenBy(e, d, m, i-1)
           F == FreedBy(e, d, m, i-1)
           k == KeptBy(e, d, m, i-1)
           l == KeptBy(e, d, m, i)
           r == m.bid[t]
           b == e.bundle
           wins == RemoteWins(d, e.bid[t], r)
<1>1. /\ b \in Seq(Tasks) /\ Len(b) \in Nat
      /\ \A j \in 1..Len(b) : b[j] \in Tasks
      /\ \A j, h \in 1..Len(b) : b[j] = b[h] => j = h
      /\ e \in Engine
  BY LenProperties, ElementOfSeq DEF LoopInput, EngineCore, Engine
<1>2. i \in 0..Len(m.bundle) /\ i - 1 \in 0..Len(m.bundle)
  BY LenProperties DEF LoopInput, PayloadOK
<1>3. /\ f \in Engine /\ f.known = e.known /\ f.asg = e.asg
      /\ f.bundle = SubSeq(b, 1, k) /\ k \in 0..Len(b)
      /\ f.bid = BidBy(e, d, m, i-1)
  BY <1>2, StageShape
<1>4. /\ g \in Engine /\ g.known = e.known /\ g.asg = e.asg
      /\ g.bundle = SubSeq(b, 1, l) /\ l \in 0..Len(b)
      /\ g.bid = BidBy(e, d, m, i)
  BY <1>2, StageShape
<1>5. /\ t \in Tasks /\ r \in Bid /\ r.agent = s /\ r.agent # d
      /\ t \notin B \cup F
      /\ BeatenBy(e, d, m, i) = B \cup (IF wins THEN {t} ELSE {})
      /\ \A u \in Tasks \ {t} : l <= k => (u \in FreedBy(e, d, m, i) <=> u \in F)
      /\ \A u \in B : Precedes(m.bundle, u, t)
  BY StageGrows DEF LoopInput
<1>6. /\ k = KeptLen(b, B)
      /\ l = KeptLen(b, B \cup (IF wins THEN {t} ELSE {}))
      /\ \A j \in 1..k : b[j] \notin B
      /\ k = Len(b) \/ b[k+1] \in B
  BY <1>1, <1>5, KeptLenIsCut DEF KeptBy
<1>7. \A u \in Tasks : f.bid[u] = IF u \in B \cup F THEN m.bid[u]
                                 ELSE IF u \in Suffix(b, k) THEN NoBid ELSE e.bid[u]
  BY <1>3 DEF BidBy
<1>8. \A u \in Tasks : g.bid[u] =
          IF u \in BeatenBy(e, d, m, i) \cup FreedBy(e, d, m, i) THEN m.bid[u]
          ELSE IF u \in Suffix(b, l) THEN NoBid ELSE e.bid[u]
  BY <1>4 DEF BidBy
<1>9. /\ F \subseteq Suffix(b, k)
      /\ \A u \in Tasks : u \in Elems(b) <=> e.bid[u].agent = d
      /\ HeardBy(m, i) = HeardBy(m, i-1) \cup {t}
  <2>1. \A u \in Tasks : u \in Elems(b) <=> e.bid[u].agent = d
    BY DEF LoopInput, EngineCore, Bundled
  <2>2. \A j \in 1..i : j \in 1..i-1 \/ j = i
    BY <1>2
  <2>3. \A j \in 1..i-1 : j \in 1..i
    BY <1>2
  <2>4. i \in 1..i
    BY <1>2
  <2> QED BY <2>1, <2>2, <2>3, <2>4 DEF FreedBy, HeardBy
<1>10. /\ Elems(SubSeq(b, 1, k)) = {b[j] : j \in 1..k}
       /\ Elems(b) = Elems(SubSeq(b, 1, k)) \cup Suffix(b, k)
       /\ Elems(SubSeq(b, 1, k)) \cap Suffix(b, k) = {}
       /\ SubSeq(b, 1, k) \in Seq(Tasks) /\ Len(SubSeq(b, 1, k)) = k
       /\ \A j \in 1..k : SubSeq(b, 1, k)[j] = b[j]
       /\ \A j, h \in 1..k : SubSeq(b, 1, k)[j] = SubSeq(b, 1, k)[h] => j = h
  <2>1. k \in 0..Len(b)
    BY <1>3
  <2> HIDE DEF k, b
  <2> QED BY <1>1, <2>1, CutBundle
<1> HIDE DEF f, g, B, F, k, l, r, b, wins
\* The entry meets a bid of its own, or one that the loop has released.
<1>11. f.bid[t] = IF t \in Suffix(b, k) THEN NoBid ELSE e.bid[t]
  BY <1>5, <1>7
<1>12. ASSUME t \in Suffix(b, k)
       PROVE  RemoteWins(d, f.bid[t], r)
  <2>1. NoBid.agent # d /\ r.score \in Nat /\ NoBid.score = -1
    BY <1>5, EngineAssumption DEF LoopInput, NoBid, Bid
  <2> QED BY <1>11, <1>12, <2>1 DEF RemoteWins, Better
<1>13. ASSUME t \notin Suffix(b, k)
       PROVE  RemoteWins(d, f.bid[t], r) <=> wins
  BY <1>11, <1>13 DEF wins
<1>14. ASSUME NEW p \in 1..k, b[p] = t
       PROVE  t \notin Suffix(b, k) /\ p \in 1..Len(b) /\ t \in Elems(b)
  <2>1. p \in 1..Len(b)
    BY <1>1, <1>3
  <2> QED BY <1>10, <1>14, <2>1 DEF Elems
\* A kept task is lost: the bundle is cut there.
<1>15. ASSUME wins, NEW p \in 1..k, b[p] = t
       PROVE  ConsensusEntry(f, d, t, r) = g
  <2> DEFINE v == [f EXCEPT !.bid[t] = r]
             q == RemoveFromBundle(v, d, t)
  <2>1. /\ v \in Engine /\ v.known = f.known /\ v.asg = f.asg /\ v.bundle = f.bundle
        /\ \A u \in Tasks : v.bid[u] = IF u = t THEN r ELSE f.bid[u]
    BY <1>3, <1>5, WriteBid
  <2>2. ConsensusEntry(f, d, t, r) = q
    BY <1>5, <1>13, <1>14, <1>15 DEF ConsensusEntry
  <2>3. l = p - 1 /\ l <= k
    <3>1. l = KeptLen(b, B \cup {t})
      BY <1>6, <1>15
    <3>2. KeptLen(b, B \cup {b[p]}) = p - 1
      BY <1>1, <1>6, CutMoves
    <3>3. KeptLen(b, B \cup {t}) = p - 1
      BY <1>15, <3>2
    <3> QED BY <1>3, <3>1, <3>3
  <2> HIDE DEF v
  <2>40. q = RemoveFromBundle(v, d, t)
    OBVIOUS
  <2> HIDE DEF q
  <2>4. /\ q \in Engine /\ q.known = v.known /\ q.asg = v.asg
        /\ q.bundle = SubSeq(v.bundle, 1, p-1)
        /\ \A u \in Tasks : q.bid[u] = IF u \in Suffix(v.bundle, p-1) /\ v.bid[u].agent = d
                                       THEN NoBid ELSE v.bid[u]
    <3>1. v.bundle = SubSeq(b, 1, k) /\ Len(v.bundle) = k /\ v.bundle[p] = t
      BY <1>3, <1>10, <1>15, <2>1
    <3>2. \A j, h \in 1..Len(v.bundle) : v.bundle[j] = v.bundle[h] => j = h
      BY <1>10, <3>1
    <3>3. v \in Engine /\ p \in 1..Len(v.bundle) /\ t = v.bundle[p] /\ q = RemoveFromBundle(v, d, t)
      BY <2>1, <2>40, <3>1
    <3>4. CutAt(v, RemoveFromBundle(v, d, v.bundle[p]), d, p)
      BY <3>2, <3>3, RemoveCuts
    <3> QED BY <3>3, <3>4 DEF CutAt
  <2>5. q.bundle = g.bundle
    <3>1. v.bundle = SubSeq(b, 1, k)
      BY <1>3, <2>1
    <3>2. p - 1 \in 0..k
      BY <1>3
    <3> QED BY <1>1, <1>3, <1>4, <2>3, <2>4, <3>1, <3>2, PrefixOfPrefix
  <2>6. /\ Suffix(v.bundle, p-1) = {b[j] : j \in p..k}
        /\ Suffix(b, l) = {b[j] : j \in p..k} \cup Suffix(b, k)
        /\ {b[j] : j \in p..k} \subseteq Elems(SubSeq(b, 1, k))
        /\ t \in Suffix(b, l)
    <3>1. v.bundle = SubSeq(b, 1, k) /\ Len(v.bundle) = k /\ (p - 1) + 1 = p /\ l + 1 = p
      BY <1>3, <1>10, <2>1, <2>3
    <3>2. \A j \in p..k : j \in 1..k /\ v.bundle[j] = b[j]
      BY <1>3, <1>10, <3>1
    <3>3. Suffix(v.bundle, p-1) = {b[j] : j \in p..k}
      BY <3>1, <3>2 DEF Suffix
    <3>4. \A j \in p..Len(b) : j \in p..k \/ j \in k+1..Len(b)
      BY <1>1, <1>3
    <3>5. \A j \in (p..k) \cup (k+1..Len(b)) : j \in p..Len(b)
      BY <1>1, <1>3
    <3>6. Suffix(b, l) = {b[j] : j \in p..k} \cup Suffix(b, k)
      BY <3>1, <3>4, <3>5 DEF Suffix
    <3>7. p \in p..k
      BY <1>3
    <3> QED BY <1>10, <1>15, <3>2, <3>3, <3>6, <3>7
  <2>7. ASSUME NEW u \in Tasks
        PROVE  q.bid[u] = g.bid[u]
    <3>1. CASE u = t
      BY <1>5, <1>8, <1>15, <2>1, <2>4, <3>1 DEF r
    <3>2. CASE u # t /\ u \in {b[j] : j \in p..k}
      <4>1. u \notin B \cup F /\ u \notin Suffix(b, k)
        <5>1. PICK j \in p..k : u = b[j]
          BY <3>2
        <5>2. j \in 1..k
          BY <1>3, <5>1
        <5> QED BY <1>6, <1>9, <1>10, <2>6, <3>2, <5>1, <5>2
      <4>2. v.bid[u] = e.bid[u] /\ e.bid[u].agent = d
        BY <1>7, <1>9, <1>10, <2>1, <2>6, <3>2, <4>1
      <4>3. q.bid[u] = NoBid
        BY <2>4, <2>6, <3>2, <4>2
      <4>4. u \notin BeatenBy(e, d, m, i) \cup FreedBy(e, d, m, i) /\ u \in Suffix(b, l)
        BY <1>5, <2>3, <2>6, <3>2, <4>1
      <4> QED BY <1>8, <4>3, <4>4
    <3>3. CASE u # t /\ u \notin {b[j] : j \in p..k}
      <4>1. q.bid[u] = f.bid[u]
        BY <2>1, <2>4, <2>6, <3>3
      <4>2. /\ u \in BeatenBy(e, d, m, i) \cup FreedBy(e, d, m, i) <=> u \in B \cup F
            /\ u \in Suffix(b, l) <=> u \in Suffix(b, k)
        BY <1>5, <2>3, <2>6, <3>3
      <4> QED BY <1>7, <1>8, <4>1, <4>2
    <3> QED BY <3>1, <3>2, <3>3
  <2>8. q.bid = g.bid
    BY <1>4, <2>4, <2>7 DEF Engine
  <2> QED BY <1>3, <1>4, <2>1, <2>2, <2>4, <2>5, <2>8, SameEngine
\* A task that is not in the bundle, or no longer, is noted.
<1>16. ASSUME RemoteWins(d, f.bid[t], r), \A p \in 1..k : b[p] # t
       PROVE  ConsensusEntry(f, d, t, r) = g
  <2> DEFINE v == [f EXCEPT !.bid[t] = r]
  <2>1. /\ v \in Engine /\ v.known = f.known /\ v.asg = f.asg /\ v.bundle = f.bundle
        /\ \A u \in Tasks : v.bid[u] = IF u = t THEN r ELSE f.bid[u]
    BY <1>3, <1>5, WriteBid
  <2>2. t \notin Bundled(v)
    BY <1>3, <1>10, <1>16, <2>1 DEF Bundled
  <2>3. ConsensusEntry(f, d, t, r) = v
    BY <1>5, <1>16, <2>2 DEF ConsensusEntry, RemoveFromBundle
  <2> HIDE DEF v
  <2>4. l = k
    <3>1. KeptLen(b, B \cup {t}) = k
      <4>1. t \notin {b[p] : p \in 1..k}
        BY <1>16
      <4> QED BY <1>1, <1>6, <4>1, CutStays
    <3>2. l = KeptLen(b, B \cup {t}) \/ l = KeptLen(b, B)
      <4>1. B \cup {} = B
        OBVIOUS
      <4> QED BY <1>6, <4>1
    <3> QED BY <1>6, <3>1, <3>2
  <2>5. t \in BeatenBy(e, d, m, i) \cup FreedBy(e, d, m, i)
    <3>1. CASE t \notin Suffix(b, k)
      BY <1>5, <1>13, <1>16, <3>1
    <3>2. CASE t \in Suffix(b, k)
      <4>1. PICK j \in k+1..Len(b) : b[j] = t
        BY <3>2 DEF Suffix
      <4>2. k + 1 \in 1..Len(b) /\ j \in 1..Len(b) /\ k # Len(b)
        BY <1>1, <1>3, <4>1
      <4>3. b[k+1] \in B
        BY <1>6, <4>2
      <4>4. j # k + 1
        BY <1>5, <4>1, <4>3
      <4>5. k + 1 < j
        BY <1>1, <1>3, <4>1, <4>4
      <4>6. Precedes(b, b[k+1], t)
        BY <4>1, <4>2, <4>5 DEF Precedes
      <4>7. t \in HeardBy(m, i)
        BY <1>9
      <4>8. b[k+1] \in BeatenBy(e, d, m, i) /\ Precedes(m.bundle, b[k+1], t)
        BY <1>5, <4>3
      <4>9. t \in FreedBy(e, d, m, i)
        BY <2>4, <3>2, <4>6, <4>7, <4>8 DEF FreedBy, l, b
      <4> QED BY <4>9
    <3> QED BY <3>1, <3>2
  <2>6. ASSUME NEW u \in Tasks
        PROVE  v.bid[u] = g.bid[u]
    <3>1. CASE u = t
      BY <1>5, <1>8, <2>1, <2>5, <3>1 DEF r
    <3>2. CASE u # t
      <4>1. u \in BeatenBy(e, d, m, i) \cup FreedBy(e, d, m, i) <=> u \in B \cup F
        BY <1>3, <1>5, <2>4, <3>2
      <4> QED BY <1>7, <1>8, <2>1, <2>4, <3>2, <4>1
    <3> QED BY <3>1, <3>2
  <2>7. v.bid = g.bid
    BY <1>4, <2>1, <2>6 DEF Engine
  <2> QED BY <1>3, <1>4, <2>1, <2>3, <2>4, <2>7, SameEngine
\* An entry that does not win is passed over.
<1>17. ASSUME ~RemoteWins(d, f.bid[t], r)
       PROVE  ConsensusEntry(f, d, t, r) = g
  <2>1. t \notin Suffix(b, k) /\ ~wins
    BY <1>12, <1>13, <1>17
  <2>2. l = k /\ BeatenBy(e, d, m, i) = B
    BY <1>5, <1>6, <2>1
  <2>3. t \notin FreedBy(e, d, m, i)
    BY <2>1, <2>2 DEF FreedBy, l, b
  <2>4. ASSUME NEW u \in Tasks
        PROVE  f.bid[u] = g.bid[u]
    <3>1. u \in FreedBy(e, d, m, i) <=> u \in F
      BY <1>3, <1>5, <2>2, <2>3
    <3> QED BY <1>7, <1>8, <2>2, <3>1
  <2>5. f.bid = g.bid
    BY <1>3, <1>4, <2>4 DEF Engine
  <2>6. f = g
    BY <1>3, <1>4, <2>2, <2>5, SameEngine
  <2> QED BY <1>17, <2>6 DEF ConsensusEntry
<1>18. ConsensusEntry(f, d, t, r) = g
  <2>1. ASSUME NEW p \in 1..k, b[p] = t, RemoteWins(d, f.bid[t], r)
        PROVE  ConsensusEntry(f, d, t, r) = g
    BY <1>13, <1>14, <1>15, <2>1
  <2> QED BY <1>16, <1>17, <2>1
<1> QED BY <1>18 DEF f, g, r

\* Two runs that start alike and turn alike are alike.
LEMMA RunsAgree ==
  ASSUME NEW n \in Nat, NEW g, NEW h, g[0] = h[0],
         \A i \in 1..n : g[i-1] = h[i-1] => g[i] = h[i]
  PROVE  g[n] = h[n]
<1> DEFINE Off == {i \in 0..n : g[i] # h[i]}
<1>1. ASSUME Off # {} PROVE FALSE
  <2>0. Off \subseteq Nat
    OBVIOUS
  <2> HIDE DEF Off
  <2>1. PICK i \in Off : \A k \in Off : i <= k
    BY <1>1, <2>0, LeastNat
  <2> USE DEF Off
  <2>2. i # 0 /\ i \in 1..n /\ i - 1 \in 0..n /\ ~(i <= i - 1)
    BY <2>1
  <2>3. i - 1 \notin Off
    BY <2>1, <2>2
  <2>4. g[i-1] = h[i-1]
    BY <2>2, <2>3
  <2> QED BY <2>1, <2>2, <2>4
<1> QED BY <1>1

\* Before the first entry nothing has happened.
LEMMA FirstStage ==
  ASSUME NEW d, NEW e, NEW s, NEW m, LoopInput(d, e, s, m)
  PROVE  StageOf(e, d, m, 0) = e
<1>1. /\ e \in Engine /\ e.bundle \in Seq(Tasks) /\ Len(e.bundle) \in Nat
      /\ 0 \in 0..Len(m.bundle)
  BY LenProperties DEF LoopInput, EngineCore, Engine, PayloadOK
<1>2. BeatenBy(e, d, m, 0) = {} /\ FreedBy(e, d, m, 0) = {}
  BY DEF BeatenBy, HeardBy, FreedBy
<1>3. KeptBy(e, d, m, 0) = Len(e.bundle)
  BY <1>1, <1>2, KeptLenUnique DEF KeptBy
<1>4. Suffix(e.bundle, Len(e.bundle)) = {}
  BY <1>1 DEF Suffix
<1>5. BidBy(e, d, m, 0) = e.bid
  BY <1>1, <1>2, <1>3, <1>4 DEF BidBy, Engine
<1>6. SubSeq(e.bundle, 1, Len(e.bundle)) = e.bundle
  BY <1>1
<1>7. /\ StageOf(e, d, m, 0) \in Engine
      /\ StageOf(e, d, m, 0).known = e.known /\ StageOf(e, d, m, 0).asg = e.asg
      /\ StageOf(e, d, m, 0).bundle = e.bundle /\ StageOf(e, d, m, 0).bid = e.bid
  BY <1>1, <1>3, <1>5, <1>6, StageShape
<1> QED BY <1>1, <1>7, SameEngine

\* After the last one the closed form is complete.
LEMMA LastStage ==
  ASSUME NEW d, NEW e, NEW s, NEW m, LoopInput(d, e, s, m)
  PROVE  ConsensusPhase(e, d, m) = SyncAssignments(StageOf(e, d, m, Len(m.bundle)))
<1> DEFINE n == Len(m.bundle)
           heard  == Elems(m.bundle)
           beaten == {t \in heard : RemoteWins(d, e.bid[t], m.bid[t])}
           lost   == {t \in beaten : m.bid[t].agent # d}
           k      == KeptLen(e.bundle, lost)
           cut    == {t \in Suffix(e.bundle, k) : e.bid[t].agent = d}
           freed  == {t \in cut \cap heard : \E u \in lost :
                        Precedes(e.bundle, u, t) /\ Precedes(m.bundle, u, t)}
           bid    == [t \in Tasks |-> IF t \in beaten \cup freed THEN m.bid[t]
                                      ELSE IF t \in cut THEN NoBid ELSE e.bid[t]]
<1>1. ConsensusPhase(e, d, m) =
        SyncAssignments([e EXCEPT !.bundle = SubSeq(e.bundle, 1, k), !.bid = bid])
  BY DEF ConsensusPhase, Precedes
<1>2. heard = HeardBy(m, n) /\ beaten = BeatenBy(e, d, m, n)
  BY DEF HeardBy, Elems, BeatenBy
<1>3. lost = beaten
  <2>1. \A t \in heard : m.bid[t].agent # d
    <3>1. heard \subseteq Tasks
      BY ElementOfSeq DEF LoopInput, PayloadOK, Elems
    <3> QED BY <3>1 DEF LoopInput, PayloadOK
  <2> QED BY <2>1
<1>4. k = KeptBy(e, d, m, n)
  BY <1>2, <1>3 DEF KeptBy
<1>5. cut = Suffix(e.bundle, k)
  <2>1. e.bundle \in Seq(Tasks)
    BY DEF LoopInput, EngineCore, Engine
  <2>2. k \in 0..Len(e.bundle) /\ Len(e.bundle) \in Nat
    BY <2>1, KeptLenIsCut, LenProperties
  <2> HIDE DEF k
  <2>3. Suffix(e.bundle, k) \subseteq Elems(e.bundle)
    BY <2>2 DEF Suffix, Elems
  <2>4. Elems(e.bundle) \subseteq Tasks
    BY <2>1, ElementOfSeq DEF Elems
  <2> QED BY <2>3, <2>4 DEF LoopInput, EngineCore, Bundled
<1> HIDE DEF n, heard, beaten, lost, k, cut
<1>6. freed = FreedBy(e, d, m, n)
  BY <1>2, <1>3, <1>4, <1>5 DEF FreedBy
<1> HIDE DEF freed
<1>7. bid = BidBy(e, d, m, n)
  BY <1>2, <1>4, <1>5, <1>6 DEF BidBy
<1> HIDE DEF bid
<1> QED BY <1>1, <1>4, <1>7 DEF StageOf, n

\* consensus_phase in closed form is its loop over the payload's entries, for
\* every engine in order and every payload of another drone.
THEOREM ConsensusClosed ==
  ASSUME NEW d, NEW e, NEW s, NEW m, LoopInput(d, e, s, m)
  PROVE  ConsensusPhase(e, d, m) = ConsensusLoop(e, d, m)
<1> DEFINE n == Len(m.bundle)
           h == [i \in 0..n |-> StageOf(e, d, m, i)]
           Turn(g) == [i \in 0..n |->
                         IF i = 0 THEN e
                         ELSE ConsensusEntry(g[i-1], d, m.bundle[i], m.bid[m.bundle[i]])]
           run == CHOOSE g : g = Turn(g)
<1>1. n \in Nat
  BY LenProperties DEF LoopInput, PayloadOK
<1>2. \A i \in 1..n : ConsensusEntry(StageOf(e, d, m, i-1), d, m.bundle[i], m.bid[m.bundle[i]])
                        = StageOf(e, d, m, i)
  BY StageTurn
<1>3. StageOf(e, d, m, 0) = e
  BY FirstStage
<1>4. h = Turn(h)
  <2>1. ASSUME NEW i \in 0..n
        PROVE  h[i] = Turn(h)[i]
    <3>1. CASE i = 0
      BY <1>3, <3>1
    <3>2. CASE i # 0
      <4>1. i \in 1..n /\ i - 1 \in 0..n
        BY <1>1, <3>2
      <4> QED BY <1>2, <4>1
    <3> QED BY <3>1, <3>2
  <2> QED BY <2>1
<1>5. run = Turn(run)
  BY <1>4
<1>6. run[n] = h[n]
  <2> HIDE DEF run, n
  <2>1. run[0] = h[0]
    BY <1>1, <1>3, <1>5
  <2>2. ASSUME NEW i \in 1..n, run[i-1] = h[i-1]
        PROVE  run[i] = h[i]
    <3>1. i \in 0..n /\ i - 1 \in 0..n /\ i # 0
      BY <1>1
    <3>2. run[i] = ConsensusEntry(run[i-1], d, m.bundle[i], m.bid[m.bundle[i]])
      BY <1>5, <3>1
    <3> QED BY <1>2, <2>2, <3>1, <3>2
  <2> HIDE DEF h
  <2> QED BY <1>1, <2>1, <2>2, RunsAgree
<1>7. ConsensusLoop(e, d, m) = SyncAssignments(run[n])
  BY DEF ConsensusLoop
<1> QED BY <1>1, <1>6, <1>7, LastStage

-----------------------------------------------------------------------------
(* Forgetting departed drones.  None of their tasks is in the bundle, so   *)
(* the loops only pop entries, and what is left is the engine without them.*)

Forgotten(e, ts)  == [e EXCEPT !.bid = [t \in Tasks |-> IF t \in ts THEN NoBid ELSE e.bid[t]]]
ClaimsOf(e, gone) == {t \in Tasks : e.bid[t].agent \in gone}

(* An engine in order, and the drones d sees removed.                      *)
ClearInput(d, e, gone) == d \in Drones /\ EngineOK(d, e) /\ gone \in SUBSET (Drones \ {d})

\* An engine without some entries differs in those entries only.
LEMMA ForgottenShape ==
  ASSUME NEW e \in Engine, NEW ts
  PROVE  /\ Forgotten(e, ts) \in Engine
         /\ Forgotten(e, ts).known = e.known /\ Forgotten(e, ts).asg = e.asg
         /\ Forgotten(e, ts).bundle = e.bundle
         /\ \A t \in Tasks : Forgotten(e, ts).bid[t] = IF t \in ts THEN NoBid ELSE e.bid[t]
<1>1. [t \in Tasks |-> IF t \in ts THEN NoBid ELSE e.bid[t]] \in [Tasks -> Bid \cup {NoBid}]
  BY DEF Engine
<1> QED BY <1>1 DEF Forgotten, Engine

\* Where assigned_to already follows the winners, it still does without some
\* of them, and _sync_assignments changes nothing.
LEMMA SyncForgotten ==
  ASSUME NEW d, NEW e, EngineOK(d, e), NEW ts
  PROVE  SyncAssignments(Forgotten(e, ts)) = Forgotten(e, ts)
<1> DEFINE f == Forgotten(e, ts)
<1>1. e \in Engine
  BY DEF EngineOK, EngineCore
<1>2. /\ f \in Engine /\ f.asg = e.asg
      /\ \A t \in Tasks : f.bid[t] = IF t \in ts THEN NoBid ELSE e.bid[t]
  BY <1>1, ForgottenShape
<1> HIDE DEF f
<1>3. \A t \in Tasks : f.bid[t] # NoBid => f.bid[t].agent = f.asg[t]
  BY <1>2 DEF EngineOK
<1>4. f.asg = [t \in Tasks |-> IF t \in f.known /\ f.bid[t] # NoBid
                               THEN f.bid[t].agent ELSE f.asg[t]]
  BY <1>2, <1>3 DEF Engine
<1>5. SyncAssignments(f) = [f EXCEPT !.asg = f.asg]
  BY <1>4 DEF SyncAssignments
<1>6. [f EXCEPT !.asg = f.asg] = f
  BY <1>2 DEF Engine
<1> QED BY <1>5, <1>6 DEF f

\* clear_agent_claims in closed form pops the claims and nothing else.
LEMMA ClearForgets ==
  ASSUME NEW d, NEW e, NEW gone, ClearInput(d, e, gone)
  PROVE  /\ ClearAgentClaims(e, d, gone) = Forgotten(e, ClaimsOf(e, gone))
         /\ EngineOK(d, Forgotten(e, ClaimsOf(e, gone)))
<1> DEFINE lost == ClaimsOf(e, gone)
           n    == KeptLen(e.bundle, lost)
           cut  == {t \in Suffix(e.bundle, n) : e.bid[t].agent = d}
<1>1. /\ e \in Engine /\ e.bundle \in Seq(Tasks) /\ Len(e.bundle) \in Nat
      /\ \A t \in Tasks : (e.bid[t].agent = d) <=> t \in Bundled(e)
      /\ d \in Drones /\ EngineCore(d, e) /\ gone \in SUBSET Drones /\ d \notin gone
  BY LenProperties DEF ClearInput, EngineOK, EngineCore, Engine
<1>2. \A i \in 1..Len(e.bundle) : e.bundle[i] \notin lost
  BY <1>1 DEF Bundled, Elems, ClaimsOf
<1>3. n = Len(e.bundle)
  <2>1. Len(e.bundle) \in 0..Len(e.bundle)
    BY <1>1
  <2> HIDE DEF lost
  <2> QED BY <1>1, <1>2, <2>1, KeptLenUnique
<1> HIDE DEF n
<1>4. cut = {} /\ SubSeq(e.bundle, 1, n) = e.bundle
  BY <1>1, <1>3 DEF Suffix
<1>5. ClearAgentClaims(e, d, gone) =
        SyncAssignments([e EXCEPT !.bundle = SubSeq(e.bundle, 1, n),
                                  !.bid    = [t \in Tasks |-> IF t \in lost \cup cut
                                                              THEN NoBid ELSE e.bid[t]]])
  BY DEF ClearAgentClaims, ClaimsOf, n
<1> HIDE DEF lost, cut
<1>6. lost \cup cut = lost
  BY <1>4
<1>7. [e EXCEPT !.bundle = e.bundle,
                !.bid    = [t \in Tasks |-> IF t \in lost THEN NoBid ELSE e.bid[t]]]
        = Forgotten(e, lost)
  BY <1>1 DEF Forgotten, Engine
<1>8. ClearAgentClaims(e, d, gone) = SyncAssignments(Forgotten(e, lost))
  BY <1>4, <1>5, <1>6, <1>7
<1>9. ClearAgentClaims(e, d, gone) = Forgotten(e, lost)
  BY <1>8, SyncForgotten DEF ClearInput
<1>10. EngineOK(d, ClearAgentClaims(e, d, gone))
  BY <1>1, ClearKeepsOK
<1> QED BY <1>9, <1>10 DEF lost

\* One removed member: the loop over its tasks pops its claims, whatever the
\* order in which the dictionary lists the tasks.
LEMMA ClearOne ==
  ASSUME NEW d, NEW e, NEW p, ClearInput(d, e, {p}),
         NEW s \in Seq(Tasks), Elems(s) = Tasks
  PROVE  ClearLoop(e, d, p, s) = Forgotten(e, ClaimsOf(e, {p}))
<1> DEFINE n == Len(s)
           Popped(i) == ClaimsOf(e, {p}) \cap {s[j] : j \in 1..i}
           Stage(i)  == Forgotten(e, Popped(i))
           h == [i \in 0..n |-> Stage(i)]
           Turn(g) == [i \in 0..n |->
                         IF i = 0 THEN e
                         ELSE IF e.bid[s[i]].agent # p THEN g[i-1]
                         ELSE RemoveFromBundle([g[i-1] EXCEPT !.bid[s[i]] = NoBid], d, s[i])]
           run == CHOOSE g : g = Turn(g)
<1>1. /\ n \in Nat /\ e \in Engine /\ p # d
      /\ \A i \in 1..n : s[i] \in Tasks
      /\ \A t \in Tasks : (e.bid[t].agent = d) <=> t \in Bundled(e)
  BY LenProperties, ElementOfSeq DEF ClearInput, EngineOK, EngineCore
<1>2. Stage(0) = e
  <2>1. Popped(0) = {}
    OBVIOUS
  <2>2. [t \in Tasks |-> IF t \in {} THEN NoBid ELSE e.bid[t]] = e.bid
    BY <1>1 DEF Engine
  <2>3. Forgotten(e, {}) = e
    BY <1>1, <2>2 DEF Forgotten, Engine
  <2> QED BY <2>1, <2>3
<1>3. ASSUME NEW i \in 1..n
      PROVE  (IF e.bid[s[i]].agent # p THEN Stage(i-1)
              ELSE RemoveFromBundle([Stage(i-1) EXCEPT !.bid[s[i]] = NoBid], d, s[i]))
               = Stage(i)
  <2>1. {s[j] : j \in 1..i} = {s[j] : j \in 1..i-1} \cup {s[i]}
    <3>1. \A j \in 1..i : j \in 1..i-1 \/ j = i
      BY <1>1
    <3>2. \A j \in 1..i-1 : j \in 1..i
      BY <1>1
    <3>3. i \in 1..i
      BY <1>1
    <3> QED BY <3>1, <3>2, <3>3
  <2>2. CASE e.bid[s[i]].agent # p
    <3>1. Popped(i) = Popped(i-1)
      BY <2>1, <2>2 DEF ClaimsOf
    <3> QED BY <2>2, <3>1
  <2>3. CASE e.bid[s[i]].agent = p
    <3> DEFINE t == s[i]
               f == Stage(i-1)
               v == [f EXCEPT !.bid[t] = NoBid]
    <3>1. t \in Tasks /\ Popped(i) = Popped(i-1) \cup {t} /\ t \notin Bundled(e)
      BY <1>1, <2>1, <2>3 DEF ClaimsOf
    <3> HIDE DEF Popped, t
    <3>2. /\ f \in Engine /\ f.known = e.known /\ f.asg = e.asg /\ f.bundle = e.bundle
          /\ \A u \in Tasks : f.bid[u] = IF u \in Popped(i-1) THEN NoBid ELSE e.bid[u]
      BY <1>1, ForgottenShape
    <3>3. /\ Stage(i) \in Engine /\ Stage(i).known = e.known /\ Stage(i).asg = e.asg
          /\ Stage(i).bundle = e.bundle
          /\ \A u \in Tasks : Stage(i).bid[u] = IF u \in Popped(i) THEN NoBid ELSE e.bid[u]
      BY <1>1, ForgottenShape
    <3> HIDE DEF f, Stage
    <3>4. /\ v \in Engine /\ v.known = f.known /\ v.asg = f.asg /\ v.bundle = f.bundle
          /\ \A u \in Tasks : v.bid[u] = IF u = t THEN NoBid ELSE f.bid[u]
      BY <3>1, <3>2 DEF Engine
    <3> HIDE DEF v
    <3>5. RemoveFromBundle(v, d, t) = v
      BY <3>1, <3>2, <3>4 DEF RemoveFromBundle, Bundled
    <3>6. v.bid = Stage(i).bid
      <4>1. \A u \in Tasks : v.bid[u] = Stage(i).bid[u]
        BY <3>1, <3>2, <3>3, <3>4
      <4> QED BY <3>3, <3>4, <4>1 DEF Engine
    <3>7. v = Stage(i)
      BY <3>2, <3>3, <3>4, <3>6, SameEngine
    <3> QED BY <2>3, <3>5, <3>7 DEF v, f, t
  <2> QED BY <2>2, <2>3
<1> HIDE DEF Stage, Popped
<1>4. h = Turn(h)
  <2>1. ASSUME NEW i \in 0..n
        PROVE  h[i] = Turn(h)[i]
    <3>1. CASE i = 0
      BY <1>2, <3>1
    <3>2. CASE i # 0
      <4>1. i \in 1..n /\ i - 1 \in 0..n
        BY <1>1, <3>2
      <4>2. h[i-1] = Stage(i-1) /\ h[i] = Stage(i)
        BY <4>1
      <4> HIDE DEF h
      <4>3. Turn(h)[i] = IF e.bid[s[i]].agent # p THEN h[i-1]
                         ELSE RemoveFromBundle([h[i-1] EXCEPT !.bid[s[i]] = NoBid], d, s[i])
        BY <3>2
      <4> HIDE DEF Turn
      <4> QED BY <1>3, <4>1, <4>2, <4>3
    <3> QED BY <3>1, <3>2
  <2> QED BY <2>1
<1>5. run = Turn(run)
  BY <1>4
<1>6. run[n] = h[n]
  <2> HIDE DEF run, n
  <2>1. run[0] = h[0]
    BY <1>1, <1>2, <1>5
  <2>2. ASSUME NEW i \in 1..n, run[i-1] = h[i-1]
        PROVE  run[i] = h[i]
    <3>1. i \in 0..n /\ i - 1 \in 0..n /\ i # 0
      BY <1>1
    <3>2. run[i] = IF e.bid[s[i]].agent # p THEN run[i-1]
                   ELSE RemoveFromBundle([run[i-1] EXCEPT !.bid[s[i]] = NoBid], d, s[i])
      BY <1>5, <3>1
    <3> QED BY <1>3, <2>2, <3>1, <3>2
  <2> HIDE DEF h
  <2> QED BY <1>1, <2>1, <2>2, RunsAgree
<1>7. ClearLoop(e, d, p, s) = SyncAssignments(run[n])
  BY DEF ClearLoop
<1>8. Popped(n) = ClaimsOf(e, {p})
  BY DEF Popped, ClaimsOf, Elems
<1>9. ClearLoop(e, d, p, s) = SyncAssignments(Forgotten(e, ClaimsOf(e, {p})))
  BY <1>1, <1>6, <1>7, <1>8 DEF Stage
<1> QED BY <1>9, SyncForgotten DEF ClearInput

(* f is e without the claims of gone, and p is one more drone to forget.   *)
OneMore(d, e, gone, p, f) ==
  ClearInput(d, e, gone \cup {p}) /\ f = Forgotten(e, ClaimsOf(e, gone))

(* From there, forgetting p is forgetting them all.                        *)
AllForgotten(d, e, gone, p, f) ==
  ClearInput(d, f, {p}) /\ Forgotten(f, ClaimsOf(f, {p}))
                             = Forgotten(e, ClaimsOf(e, gone \cup {p}))

\* Forgetting one more drone after the others is forgetting them all.
LEMMA ForgetMore ==
  ASSUME NEW d, NEW e, NEW gone, NEW p, NEW f, OneMore(d, e, gone, p, f)
  PROVE  AllForgotten(d, e, gone, p, f)
<1> DEFINE all == gone \cup {p}
           g == Forgotten(f, ClaimsOf(f, {p}))
           h == Forgotten(e, ClaimsOf(e, all))
<1>1. ClearInput(d, e, gone) /\ e \in Engine /\ p \in Drones
  BY DEF OneMore, ClearInput, EngineOK, EngineCore
<1>2. EngineOK(d, f)
  BY <1>1, ClearForgets DEF OneMore
<1>3. /\ f \in Engine /\ f.known = e.known /\ f.asg = e.asg /\ f.bundle = e.bundle
      /\ \A t \in Tasks : f.bid[t] = IF t \in ClaimsOf(e, gone) THEN NoBid ELSE e.bid[t]
  BY <1>1, ForgottenShape DEF OneMore
<1>4. /\ g \in Engine /\ g.known = f.known /\ g.asg = f.asg /\ g.bundle = f.bundle
      /\ \A t \in Tasks : g.bid[t] = IF t \in ClaimsOf(f, {p}) THEN NoBid ELSE f.bid[t]
  BY <1>3, ForgottenShape
<1>5. /\ h \in Engine /\ h.known = e.known /\ h.asg = e.asg /\ h.bundle = e.bundle
      /\ \A t \in Tasks : h.bid[t] = IF t \in ClaimsOf(e, all) THEN NoBid
                                     ELSE e.bid[t]
  BY <1>1, ForgottenShape
<1> HIDE DEF g, h
<1>6. NoBid.agent # p
  BY <1>1, EngineAssumption DEF NoBid
<1>7. \A t \in Tasks : g.bid[t] = h.bid[t]
  BY <1>3, <1>4, <1>5, <1>6 DEF ClaimsOf
<1>8. g.bid = h.bid
  BY <1>4, <1>5, <1>7 DEF Engine
<1>9. g = h
  BY <1>3, <1>4, <1>5, <1>8, SameEngine
<1>10. ClearInput(d, f, {p})
  BY <1>2 DEF OneMore, ClearInput
<1> QED BY <1>9, <1>10 DEF AllForgotten, g, h

\* Forgetting departed drones in closed form is update_membership's loop over
\* them, each with its loop over the tasks, in whatever order both come.
THEOREM ClearClosed ==
  ASSUME NEW d, NEW e, NEW removed \in Seq(Drones), ClearInput(d, e, Elems(removed)),
         NEW s \in Seq(Tasks), Elems(s) = Tasks
  PROVE  ClearAgentClaims(e, d, Elems(removed)) = ClearAllLoop(e, d, removed, s)
<1> DEFINE n == Len(removed)
           Gone(i)  == {removed[j] : j \in 1..i}
           Stage(i) == Forgotten(e, ClaimsOf(e, Gone(i)))
           h == [i \in 0..n |-> Stage(i)]
           Turn(g) == [i \in 0..n |-> IF i = 0 THEN e ELSE ClearLoop(g[i-1], d, removed[i], s)]
           run == CHOOSE g : g = Turn(g)
<1>1. /\ n \in Nat /\ e \in Engine
      /\ \A i \in 1..n : removed[i] \in Drones
  BY LenProperties, ElementOfSeq DEF ClearInput, EngineOK, EngineCore
<1>2. Stage(0) = e
  <2>1. ClaimsOf(e, Gone(0)) = {}
    BY DEF ClaimsOf
  <2>2. [t \in Tasks |-> IF t \in {} THEN NoBid ELSE e.bid[t]] = e.bid
    BY <1>1 DEF Engine
  <2>3. Forgotten(e, {}) = e
    BY <1>1, <2>2 DEF Forgotten, Engine
  <2> QED BY <2>1, <2>3
<1>3. ASSUME NEW i \in 1..n
      PROVE  ClearLoop(Stage(i-1), d, removed[i], s) = Stage(i)
  <2>1. Gone(i) = Gone(i-1) \cup {removed[i]}
    <3>1. \A j \in 1..i : j \in 1..i-1 \/ j = i
      BY <1>1
    <3>2. \A j \in 1..i-1 : j \in 1..i
      BY <1>1
    <3>3. i \in 1..i
      BY <1>1
    <3> QED BY <3>1, <3>2, <3>3
  <2>2. ClearInput(d, e, Gone(i))
    <3>1. Gone(i) \subseteq Elems(removed)
      BY <1>1 DEF Elems
    <3> QED BY <3>1 DEF ClearInput
  <2>3. /\ ClearInput(d, Stage(i-1), {removed[i]})
        /\ Forgotten(Stage(i-1), ClaimsOf(Stage(i-1), {removed[i]})) = Stage(i)
    <3> HIDE DEF Gone
    <3> DEFINE G == Gone(i-1)
               p == removed[i]
               f == Stage(i-1)
    <3>1. OneMore(d, e, G, p, f) /\ Gone(i) = G \cup {p}
      BY <2>1, <2>2 DEF OneMore
    <3> HIDE DEF G, p, f
    <3>2. AllForgotten(d, e, G, p, f)
      BY <3>1, ForgetMore
    <3> QED BY <3>1, <3>2 DEF AllForgotten, p, f
  <2> HIDE DEF Stage
  <2> QED BY <2>3, ClearOne
<1> HIDE DEF Stage
<1>4. h = Turn(h)
  <2>1. ASSUME NEW i \in 0..n
        PROVE  h[i] = Turn(h)[i]
    <3>1. CASE i = 0
      BY <1>2, <3>1
    <3>2. CASE i # 0
      <4>1. i \in 1..n /\ i - 1 \in 0..n
        BY <1>1, <3>2
      <4> QED BY <1>3, <4>1
    <3> QED BY <3>1, <3>2
  <2> QED BY <2>1
<1>5. run = Turn(run)
  BY <1>4
<1>6. run[n] = h[n]
  <2> HIDE DEF run, n
  <2>1. run[0] = h[0]
    BY <1>1, <1>2, <1>5
  <2>2. ASSUME NEW i \in 1..n, run[i-1] = h[i-1]
        PROVE  run[i] = h[i]
    <3>1. i \in 0..n /\ i - 1 \in 0..n /\ i # 0
      BY <1>1
    <3>2. run[i] = ClearLoop(run[i-1], d, removed[i], s)
      BY <1>5, <3>1
    <3> QED BY <1>3, <2>2, <3>1, <3>2
  <2> HIDE DEF h
  <2> QED BY <1>1, <2>1, <2>2, RunsAgree
<1>7. ClearAllLoop(e, d, removed, s) = run[n]
  BY DEF ClearAllLoop
<1>8. Gone(n) = Elems(removed)
  BY DEF Elems
<1>9. ClearAllLoop(e, d, removed, s) = Forgotten(e, ClaimsOf(e, Elems(removed)))
  <2>1. n \in 0..n
    BY <1>1
  <2> HIDE DEF n, run
  <2>2. h[n] = Stage(n)
    BY <2>1
  <2> HIDE DEF h, Gone
  <2> QED BY <1>6, <1>7, <1>8, <2>2 DEF Stage
<1> QED BY <1>9, ClearForgets

-----------------------------------------------------------------------------
(* What an exchange of payloads settles.  consensus_phase skips a remote   *)
(* bid that is older than the drone's own, so a contest may stand for ever.*)

\* Hearing what f's drone claims takes nothing from the bundle of drone d.
Unmoved(d, e, f) == IngestGossip(e, d, Payload(f)).bundle = e.bundle

\* A bundle is left whole exactly when nothing in it is lost.
LEMMA KeptWhole ==
  ASSUME NEW s \in Seq(Tasks), NEW lost
  PROVE  SubSeq(s, 1, KeptLen(s, lost)) = s <=> \A t \in Elems(s) : t \notin lost
<1> DEFINE n == KeptLen(s, lost)
<1>1. /\ n \in 0..Len(s) /\ Len(s) \in Nat
      /\ \A i \in 1..n : s[i] \notin lost
      /\ n = Len(s) \/ s[n+1] \in lost
  BY KeptLenIsCut, LenProperties
<1> HIDE DEF n
<1>2. Len(SubSeq(s, 1, n)) = n
  BY <1>1, SubSeqProperties, ElementOfSeq
<1>3. ASSUME SubSeq(s, 1, n) = s
      PROVE  \A t \in Elems(s) : t \notin lost
  BY <1>1, <1>2, <1>3 DEF Elems
<1>4. ASSUME \A t \in Elems(s) : t \notin lost
      PROVE  SubSeq(s, 1, n) = s
  <2>1. n = Len(s)
    <3>1. CASE n # Len(s)
      <4>1. n + 1 \in 1..Len(s)
        BY <1>1, <3>1
      <4> QED BY <1>1, <1>4, <3>1, <4>1 DEF Elems
    <3> QED BY <3>1
  <2> QED BY <1>1, <2>1
<1> QED BY <1>3, <1>4 DEF n

\* A drone keeps its whole bundle exactly when, for each contested task, its
\* own bid is the better one or the younger one.
LEMMA UnmovedMeans ==
  ASSUME NEW d \in Drones, NEW e, EngineOK(d, e),
         NEW s \in Drones, NEW f, EngineOK(s, f), s # d
  PROVE  Unmoved(d, e, f) <=>
           \A t \in BothFly(e, f) : Better(e.bid[t], f.bid[t]) \/ f.bid[t].ts < e.bid[t].ts
<1> DEFINE m      == Payload(f)
           u      == UpsertTasks(e, m.known, m.asg)
           beaten == {t \in Elems(m.bundle) : RemoteWins(d, u.bid[t], m.bid[t])}
           lost   == {t \in beaten : m.bid[t].agent # d}
           n      == KeptLen(u.bundle, lost)
<1>1. PayloadOK(s, m)
  BY PayloadIsOwn
<1>2. u.bundle = e.bundle /\ u.bid = e.bid /\ e.bundle \in Seq(Tasks)
  <2>1. EngineCore(d, e)
    BY DEF EngineOK
  <2>2. m.known \in SUBSET Tasks /\ \A t \in m.known : m.asg[t] \in Drones \cup {NoDrone}
    BY <1>1 DEF PayloadOK
  <2> HIDE DEF m
  <2>3. Upserted(e, m.known, m.asg, u)
    BY <2>1, <2>2, UpsertKeepsCore
  <2> QED BY <2>1, <2>3 DEF Upserted, EngineCore, Engine
<1>3. /\ m.bundle = f.bundle
      /\ \A t \in Tasks : m.bid[t] = IF t \in Bundled(f) THEN f.bid[t] ELSE NoBid
  BY DEF Payload
<1>4. IngestGossip(e, d, m).bundle = SubSeq(e.bundle, 1, n)
  <2> DEFINE cut   == {t \in Suffix(u.bundle, n) : u.bid[t].agent = d}
             Before(q, x, t) == \E i, j \in 1..Len(q) : i < j /\ q[i] = x /\ q[j] = t
             freed == {t \in cut \cap Elems(m.bundle) : \E x \in lost :
                         Before(u.bundle, x, t) /\ Before(m.bundle, x, t)}
             bid   == [t \in Tasks |-> IF t \in beaten \cup freed THEN m.bid[t]
                                       ELSE IF t \in cut THEN NoBid ELSE u.bid[t]]
             g     == [u EXCEPT !.bundle = SubSeq(u.bundle, 1, n), !.bid = bid]
  <2>1. IngestGossip(e, d, m) = SyncAssignments(g)
    BY DEF IngestGossip, ConsensusPhase
  <2>2. g.bundle = SubSeq(u.bundle, 1, n)
    <3> HIDE DEF bid, n
    <3> QED BY DEF UpsertTasks, EngineOK, EngineCore, Engine
  <2>3. SyncAssignments(g).bundle = g.bundle
    <3> HIDE DEF bid, n
    <3> QED BY DEF SyncAssignments, UpsertTasks, EngineOK, EngineCore, Engine
  <2> QED BY <1>2, <2>1, <2>2, <2>3
<1>5. \A t \in BothFly(e, f) :
        /\ t \in Tasks /\ e.bid[t] \in Bid /\ f.bid[t] \in Bid
        /\ e.bid[t].agent = d /\ f.bid[t].agent = s
  <2>1. Bundled(e) \subseteq Tasks
    BY <1>2, ElementOfSeq DEF Bundled, Elems
  <2>2. NoBid.agent \notin Drones
    BY EngineAssumption DEF NoBid
  <2> QED BY <2>1, <2>2 DEF BothFly, EngineOK, EngineCore, Engine
<1>6. \A t \in Elems(e.bundle) : t \in lost <=>
        t \in BothFly(e, f) /\ ~(f.bid[t].ts < e.bid[t].ts) /\ Better(f.bid[t], e.bid[t])
  <2> SUFFICES ASSUME NEW t \in Elems(e.bundle)
               PROVE  t \in lost <=> /\ t \in BothFly(e, f) /\ ~(f.bid[t].ts < e.bid[t].ts)
                                     /\ Better(f.bid[t], e.bid[t])
    OBVIOUS
  <2>1. CASE t \notin Bundled(f)
    BY <1>3, <2>1 DEF BothFly, Bundled
  <2>2. CASE t \in Bundled(f)
    <3>1. t \in BothFly(e, f) /\ m.bid[t] = f.bid[t] /\ t \in Elems(m.bundle)
      BY <1>3, <1>5, <2>2 DEF BothFly, Bundled
    <3> QED BY <1>2, <1>5, <3>1 DEF RemoteWins
  <2> QED BY <2>1, <2>2
<1>7. \A t \in BothFly(e, f) : ~Better(f.bid[t], e.bid[t]) <=> Better(e.bid[t], f.bid[t])
  <2> SUFFICES ASSUME NEW t \in BothFly(e, f)
               PROVE  ~Better(f.bid[t], e.bid[t]) <=> Better(e.bid[t], f.bid[t])
    OBVIOUS
  <2>1. /\ e.bid[t].score \in Nat /\ f.bid[t].score \in Nat
        /\ e.bid[t].agent \in Nat /\ f.bid[t].agent \in Nat /\ e.bid[t].agent # f.bid[t].agent
    BY <1>5, EngineAssumption DEF Bid
  <2> QED BY <2>1 DEF Better
<1>8. IngestGossip(e, d, m).bundle = e.bundle <=> \A t \in Elems(e.bundle) : t \notin lost
  <2> HIDE DEF lost, u, m
  <2> QED BY <1>2, <1>4, KeptWhole
<1> HIDE DEF lost, u
<1>9. BothFly(e, f) \subseteq Elems(e.bundle)
  BY DEF BothFly, Bundled
<1> QED BY <1>6, <1>7, <1>8, <1>9 DEF Unmoved

\* Two drones that exchange what they claim both keep their bundles exactly
\* when, of the two bids for each task that both hold, the better is the older:
\* only then can a contest go on for ever, and any other is settled at once.
THEOREM ContestStands ==
  ASSUME NEW d \in Drones, NEW e, EngineOK(d, e),
         NEW s \in Drones, NEW f, EngineOK(s, f), s # d
  PROVE  Unmoved(d, e, f) /\ Unmoved(s, f, e) <=>
           \A t \in BothFly(e, f) : BetterIsOlder(e.bid[t], f.bid[t])
<1>1. Unmoved(d, e, f) <=>
        \A t \in BothFly(e, f) : Better(e.bid[t], f.bid[t]) \/ f.bid[t].ts < e.bid[t].ts
  BY UnmovedMeans
<1>2. Unmoved(s, f, e) <=>
        \A t \in BothFly(f, e) : Better(f.bid[t], e.bid[t]) \/ e.bid[t].ts < f.bid[t].ts
  BY UnmovedMeans
<1>3. BothFly(f, e) = BothFly(e, f)
  BY DEF BothFly
<1>4. ASSUME NEW t \in BothFly(e, f)
      PROVE  BetterIsOlder(e.bid[t], f.bid[t]) <=>
               /\ Better(e.bid[t], f.bid[t]) \/ f.bid[t].ts < e.bid[t].ts
               /\ Better(f.bid[t], e.bid[t]) \/ e.bid[t].ts < f.bid[t].ts
  <2>1. /\ t \in Tasks /\ t \in Bundled(e) /\ t \in Bundled(f)
        /\ e.bid[t].agent = d /\ f.bid[t].agent = s
    <3>1. Bundled(e) \subseteq Tasks
      BY ElementOfSeq DEF Bundled, Elems, EngineOK, EngineCore, Engine
    <3> QED BY <3>1 DEF BothFly, EngineOK, EngineCore
  <2>2. NoBid.agent \notin Drones
    BY EngineAssumption DEF NoBid
  <2>3. e.bid[t] \in Bid /\ f.bid[t] \in Bid
    BY <2>1, <2>2 DEF EngineOK, EngineCore, Engine
  <2>4. /\ e.bid[t].score \in Nat /\ f.bid[t].score \in Nat
        /\ e.bid[t].ts \in Nat /\ f.bid[t].ts \in Nat /\ d \in Nat /\ s \in Nat
    BY <2>3, EngineAssumption DEF Bid
  <2> QED BY <2>1, <2>4 DEF BetterIsOlder, Better
<1> QED BY <1>1, <1>2, <1>3, <1>4

-----------------------------------------------------------------------------
(* The specification of one engine: it is always in order, and the loops   *)
(* and closed forms agree in every state it reaches.                       *)

\* A sequence from a bounded set of sequences is a sequence.
LEMMA OrderIsSeq ==
  ASSUME NEW S, IsFiniteSet(S), NEW o \in OrdersOf(S)
  PROVE  o \in Seq(S) /\ \A i, j \in 1..Len(o) : o[i] = o[j] => i = j
<1>1. Cardinality(S) \in Nat
  BY FS_CardinalityType
<1>2. PICK k \in 0..Cardinality(S) : o \in [1..k -> S]
  BY DEF OrdersOf
<1>3. k \in Nat
  BY <1>1
<1>4. o \in Seq(S)
  BY <1>2, <1>3
<1> QED BY <1>4 DEF OrdersOf

\* What Payloads lists is a payload of another drone.
LEMMA PayloadsAreInput ==
  ASSUME EngineCore(Me, engine), NEW m \in Payloads
  PROVE  \E p \in Drones \ {Me} : LoopInput(Me, engine, p, m)
<1>0. PICK s \in OrdersOf(Tasks), p \in Drones \ {Me} :
        m \in {PayloadOf(p, s, b) : b \in [Elems(s) -> Scores \X Times]}
  BY DEF Payloads
<1>1. PICK b \in [Elems(s) -> Scores \X Times] : m = PayloadOf(p, s, b)
  BY <1>0
<1>2. s \in Seq(Tasks) /\ \A i, j \in 1..Len(s) : s[i] = s[j] => i = j
  BY OrderIsSeq, LoopsAssumption
<1>3. Elems(s) \subseteq Tasks
  BY <1>2, ElementOfSeq DEF Elems
<1>4. /\ m.bundle = s /\ m.known = Elems(s)
      /\ m.bid = [t \in Tasks |-> IF t \in Elems(s)
                    THEN [score |-> b[t][1], agent |-> p, ts |-> b[t][2]] ELSE NoBid]
      /\ m.asg = [t \in Tasks |-> IF t \in Elems(s) THEN p ELSE NoDrone]
  BY <1>1 DEF PayloadOf
<1>5. \A t \in Elems(s) : [score |-> b[t][1], agent |-> p, ts |-> b[t][2]] \in Bid
  <2> SUFFICES ASSUME NEW t \in Elems(s)
               PROVE  [score |-> b[t][1], agent |-> p, ts |-> b[t][2]] \in Bid
    OBVIOUS
  <2>1. b[t] \in Scores \X Times
    OBVIOUS
  <2>2. b[t][1] \in Nat /\ b[t][2] \in Nat
    BY <2>1, LoopsAssumption
  <2> QED BY <2>2 DEF Bid
<1>6. PayloadOK(p, m)
  <2> HIDE DEF PayloadOf
  <2>1. m.bid \in [Tasks -> Bid \cup {NoBid}]
    BY <1>4, <1>5
  <2>2. m.asg \in [Tasks -> Drones \cup {NoDrone}]
    BY <1>4
  <2>3. \A t \in Tasks : IF t \in Elems(m.bundle)
                         THEN m.bid[t].agent = p /\ t \in m.known /\ m.asg[t] = p
                         ELSE m.bid[t] = NoBid
    BY <1>4
  <2> QED BY <1>2, <1>3, <1>4, <2>1, <2>2, <2>3 DEF PayloadOK
<1> QED BY <1>2, <1>4, <1>6, LoopsAssumption DEF LoopInput

\* The engine is in order initially.
LEMMA EngineStarts ==
  EInit => EngineOK(Me, engine)
<1> SUFFICES ASSUME EInit PROVE EngineOK(Me, engine)
  OBVIOUS
<1>1. NoBid.agent \notin Drones /\ Me \in Drones /\ NoDrone \notin Drones
  BY EngineAssumption, LoopsAssumption DEF NoBid
<1>2. /\ NewEngine \in Engine /\ NewEngine.bundle = << >>
      /\ NewEngine.asg = [t \in Tasks |-> NoDrone]
      /\ \A t \in Tasks : NewEngine.bid[t] = NoBid
  BY DEF NewEngine, Engine
<1>3. /\ engine \in Engine /\ engine.bundle = << >>
      /\ \A t \in Tasks : engine.bid[t] = NoBid
  BY <1>2 DEF EInit, UpsertTasks, Engine
<1>4. Bundled(engine) = {} /\ Len(engine.bundle) = 0
  BY <1>3 DEF Bundled, Elems
<1>5. Len(engine.bundle) <= MaxBundle
  BY <1>4, EngineAssumption
<1> QED BY <1>1, <1>3, <1>4, <1>5 DEF EngineOK, EngineCore

\* Every step of the engine, the bidding, a payload heard and drones departed,
\* keeps it in order.
LEMMA EngineSteps ==
  EngineOK(Me, engine) /\ [ENext]_engine => EngineOK(Me, engine)'
<1> SUFFICES ASSUME EngineOK(Me, engine), [ENext]_engine PROVE EngineOK(Me, engine')
  OBVIOUS
<1>1. Me \in Drones /\ EngineCore(Me, engine) /\ Times \subseteq Nat
  BY LoopsAssumption DEF EngineOK
<1>2. CASE BidsNow
  <2>1. PICK ts \in Times, fresh \in {{}, Tasks} :
          engine' \in BundlePhase(UpsertTasks(engine, fresh, [t \in fresh |-> NoDrone]),
                                  Me, ts, AnyScore)
    BY <1>2 DEF BidsNow
  <2>2. EngineCore(Me, UpsertTasks(engine, fresh, [t \in fresh |-> NoDrone]))
    <3>1. fresh \in SUBSET Tasks
      OBVIOUS
    <3>2. \A t \in fresh : [u \in fresh |-> NoDrone][t] \in Drones \cup {NoDrone}
      OBVIOUS
    <3> QED BY <1>1, <3>1, <3>2, UpsertKeepsCore
  <2>3. ts \in Nat
    BY <1>1
  <2> QED BY <1>1, <2>1, <2>2, <2>3, BundlePhaseKeepsOK
<1>3. CASE Hears
  <2>1. PICK m \in Payloads : engine' = IngestGossip(engine, Me, m)
    BY <1>3 DEF Hears
  <2>2. PICK p \in Drones \ {Me} : LoopInput(Me, engine, p, m)
    BY <1>1, <2>1, PayloadsAreInput
  <2>3. PayloadOK(p, m)
    BY <2>2 DEF LoopInput
  <2> DEFINE f == UpsertTasks(engine, m.known, m.asg)
  <2>4. EngineCore(Me, f) /\ Upserted(engine, m.known, m.asg, f)
    <3>1. m.known \in SUBSET Tasks
      BY <2>3 DEF PayloadOK
    <3>2. \A t \in m.known : m.asg[t] \in Drones \cup {NoDrone}
      BY <2>3 DEF PayloadOK
    <3> QED BY <1>1, <3>1, <3>2, UpsertKeepsCore
  <2> HIDE DEF f
  <2>5. m.known \subseteq f.known
    BY <2>4 DEF Upserted
  <2>6. EngineOK(Me, ConsensusPhase(f, Me, m))
    BY <1>1, <2>3, <2>4, <2>5, ConsensusKeepsOK
  <2> QED BY <2>1, <2>6 DEF IngestGossip, f
<1>4. CASE Departs
  <2>1. PICK gone \in SUBSET (Drones \ {Me}) : engine' = ClearAgentClaims(engine, Me, gone)
    BY <1>4 DEF Departs
  <2>2. gone \in SUBSET Drones
    OBVIOUS
  <2> QED BY <1>1, <2>1, <2>2, ClearKeepsOK
<1>5. CASE engine' = engine
  BY <1>5
<1> QED BY <1>2, <1>3, <1>4, <1>5 DEF ENext

\* Whatever it hears, bids and forgets, in whatever order: the engine's claims
\* are its bundle, its bundle is within bounds, its assignments follow its bids.
THEOREM EngineInOrder == ESpec => []EngineOK(Me, engine)
BY EngineStarts, EngineSteps, PTL DEF ESpec

\* The closed form of consensus_phase is the loop, in every state reached and
\* for every payload.
THEOREM ConsensusLoopAgrees == ESpec => []ConsensusIsLoop
<1>1. EngineOK(Me, engine) => ConsensusIsLoop
  <2> SUFFICES ASSUME EngineOK(Me, engine), NEW m \in Payloads
               PROVE  ConsensusPhase(engine, Me, m) = ConsensusLoop(engine, Me, m)
    BY DEF ConsensusIsLoop
  <2>1. EngineCore(Me, engine)
    BY DEF EngineOK
  <2> QED BY <2>1, PayloadsAreInput, ConsensusClosed
<1> QED BY <1>1, EngineInOrder, PTL

\* So is that of clear_agent_claims, for any drones removed in any order and
\* any order of the tasks.
THEOREM ClearLoopAgrees == ESpec => []ClearIsLoop
<1>1. EngineOK(Me, engine) => ClearIsLoop
  <2> SUFFICES ASSUME EngineOK(Me, engine),
                      NEW removed \in OrdersOf(Drones \ {Me}),
                      NEW s \in OrdersOf(Tasks), Elems(s) = Tasks
               PROVE  ClearAgentClaims(engine, Me, Elems(removed))
                        = ClearAllLoop(engine, Me, removed, s)
    BY DEF ClearIsLoop
  <2>1. s \in Seq(Tasks)
    BY OrderIsSeq, LoopsAssumption
  <2>2. removed \in Seq(Drones \ {Me})
    BY OrderIsSeq, LoopsAssumption, FS_RemoveElement
  <2>3. removed \in Seq(Drones) /\ Elems(removed) \subseteq Drones \ {Me}
    BY <2>2, ElementOfSeq DEF Elems
  <2>4. ClearInput(Me, engine, Elems(removed))
    BY <2>3, LoopsAssumption DEF ClearInput
  <2> QED BY <2>1, <2>3, <2>4, ClearClosed
<1> QED BY <1>1, EngineInOrder, PTL

=============================================================================
