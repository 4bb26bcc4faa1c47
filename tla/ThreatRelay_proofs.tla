-------------------------- MODULE ThreatRelay_proofs --------------------------
(***************************************************************************)
(* Theorems about ThreatRelay: its types, the bound of the memory among    *)
(* them, that no drone is told of an alert twice, and that everyone is     *)
(* told where hops suffice, for every network, number of alerts, hops and  *)
(* memory, whatever is lost or overtaken.                                  *)
(***************************************************************************)
EXTENDS ThreatRelay, FunctionTheorems, FiniteSetTheorems, SequenceTheorems, TLAPS

Distinct(s) == \A j, k \in 1 .. Len(s) : s[j] = s[k] => j = k

(* Queues, messages and memories hold alerts that were broadcast.          *)
Known ==
    /\ \A m \in net : m.alert.id \in Sighted
    /\ \A d \in Drones : Elements(order[d]) \subseteq Sighted
    /\ \A d \in Drones : \A x \in Elements(queue[d]) : x.id \in Sighted
    /\ \A d \in Drones : \A a \in Alerts : told[d][a] > 0 => a \in Sighted

(* As long as the memory holds the alerts there are, a drone remembers     *)
(* those it was told of and those it sent.                                 *)
Kept ==
    Remembered =>
        \A d \in Drones : \A a \in Alerts :
            (told[d][a] > 0 \/ d \in origin[a]) => a \in Elements(order[d])

IInv ==
    /\ TypeOK /\ Known /\ Kept /\ ToldOnce
    /\ IsFiniteSet(Sighted)
    /\ \A d \in Drones : Distinct(order[d])

(* A sequence without repetitions is no longer than the set it draws from. *)
LEMMA Room ==
    ASSUME NEW s \in Seq(Alerts), Distinct(s),
           NEW T, IsFiniteSet(T), Elements(s) \subseteq T
    PROVE  Len(s) <= Cardinality(T)
<1>1. Len(s) \in Nat /\ s \in [1 .. Len(s) -> T]
    BY LenProperties DEF Elements
<1>2. s \in Injection(1 .. Len(s), T)
    BY <1>1, Fun_IsInj DEF Distinct
<1>3. Cardinality(1 .. Len(s)) <= Cardinality(T)
    BY <1>2, FS_Injection
<1>4. Cardinality(1 .. Len(s)) = Len(s)
    BY <1>1, FS_Interval
<1> QED BY <1>3, <1>4

(* The elements of a sequence, and of one that is extended or shortened.   *)
LEMMA AppendElements ==
    ASSUME NEW S, NEW s \in Seq(S), NEW e \in S
    PROVE  /\ Append(s, e) \in Seq(S)
           /\ Len(Append(s, e)) = Len(s) + 1
           /\ \A k \in 1 .. Len(s) : Append(s, e)[k] = s[k]
           /\ Append(s, e)[Len(s) + 1] = e
           /\ Elements(Append(s, e)) = Elements(s) \cup {e}
<1>1. /\ Append(s, e) \in Seq(S)
      /\ Len(Append(s, e)) = Len(s) + 1
      /\ \A k \in 1 .. Len(s) : Append(s, e)[k] = s[k]
      /\ Append(s, e)[Len(s) + 1] = e
    OBVIOUS
<1>2. DOMAIN s = 1 .. Len(s) /\ DOMAIN Append(s, e) = 1 .. Len(s) + 1 /\ Len(s) \in Nat
    BY <1>1, LenProperties
<1>3. Elements(Append(s, e)) \subseteq Elements(s) \cup {e}
    BY <1>1, <1>2 DEF Elements
<1>4. Elements(s) \cup {e} \subseteq Elements(Append(s, e))
    BY <1>1, <1>2 DEF Elements
<1> QED BY <1>1, <1>3, <1>4

LEMMA TailElements ==
    ASSUME NEW S, NEW s \in Seq(S), s # <<>>
    PROVE  /\ Tail(s) \in Seq(S)
           /\ Len(Tail(s)) = Len(s) - 1
           /\ \A k \in 1 .. Len(s) - 1 : Tail(s)[k] = s[k + 1]
           /\ Elements(Tail(s)) \subseteq Elements(s)
<1>1. /\ Tail(s) \in Seq(S)
      /\ Len(Tail(s)) = Len(s) - 1
      /\ \A k \in 1 .. Len(s) - 1 : Tail(s)[k] = s[k + 1]
    OBVIOUS
<1>2. DOMAIN s = 1 .. Len(s) /\ DOMAIN Tail(s) = 1 .. Len(s) - 1 /\ Len(s) \in Nat
    BY <1>1, LenProperties
<1> QED BY <1>1, <1>2 DEF Elements

(* What _track_relayed_threat does to a memory that does not hold the      *)
(* alert: it stays within its bound, without repetitions, and forgets      *)
(* nothing while it has room.                                              *)
LEMMA TrackFacts ==
    ASSUME NEW s \in Seq(Alerts), Len(s) <= Memory, Distinct(s),
           NEW a \in Alerts, a \notin Elements(s)
    PROVE  /\ Track(s, a) \in Seq(Alerts)
           /\ Len(Track(s, a)) <= Memory
           /\ Distinct(Track(s, a))
           /\ a \in Elements(Track(s, a))
           /\ Elements(Track(s, a)) \subseteq Elements(s) \cup {a}
           /\ Len(s) < Memory => Elements(s) \subseteq Elements(Track(s, a))
<1> DEFINE r == IF Len(s) >= Memory THEN Tail(s) ELSE s
<1>0. Len(s) \in Nat /\ Memory \in Nat \ {0} /\ (Len(s) >= Memory => s # <<>>)
    BY RelayAssumption, EmptySeq, LenProperties
<1>1. /\ r \in Seq(Alerts) /\ Len(r) + 1 <= Memory
      /\ Elements(r) \subseteq Elements(s)
      /\ Len(s) < Memory => r = s
    BY <1>0, TailElements
<1>2. Distinct(r)
    <2>1. CASE Len(s) >= Memory
        <3>1. /\ Len(r) = Len(s) - 1
              /\ \A k \in 1 .. Len(s) - 1 : r[k] = s[k + 1]
            BY <1>0, <2>1, TailElements
        <3> QED BY <1>0, <3>1 DEF Distinct
    <2>2. CASE Len(s) < Memory
        BY <1>0, <2>2
    <2> QED BY <1>0, <2>1, <2>2
<1> HIDE DEF r
<1>3. a \notin Elements(r) /\ Len(r) \in Nat /\ DOMAIN r = 1 .. Len(r)
    BY <1>1, LenProperties
<1>4. /\ Append(r, a) \in Seq(Alerts)
      /\ Len(Append(r, a)) = Len(r) + 1
      /\ \A k \in 1 .. Len(r) : Append(r, a)[k] = r[k]
      /\ Append(r, a)[Len(r) + 1] = a
      /\ Elements(Append(r, a)) = Elements(r) \cup {a}
    BY <1>1, AppendElements
<1>5. \A k \in 1 .. Len(r) : r[k] # a
    BY <1>3 DEF Elements
<1>6. Distinct(Append(r, a))
    BY <1>2, <1>3, <1>4, <1>5 DEF Distinct
<1>7. Track(s, a) = Append(r, a)
    BY DEF Track, r
<1> QED BY <1>1, <1>4, <1>6, <1>7

(* A memory that lacks one of the alerts broadcast has room for it.        *)
LEMMA MemoryHasRoom ==
    ASSUME IInv, NEW d \in Drones, Remembered, NEW a \in Sighted, a \notin Elements(order[d])
    PROVE  Len(order[d]) < Memory
<1>1. IsFiniteSet(Sighted \ {a}) /\ Cardinality(Sighted \ {a}) = Cardinality(Sighted) - 1
    BY FS_RemoveElement DEF IInv
<1>2. Cardinality(Sighted) \in Nat
    BY FS_CardinalityType DEF IInv
<1>3. order[d] \in Seq(Alerts) /\ Distinct(order[d]) /\ Elements(order[d]) \subseteq Sighted \ {a}
    BY DEF IInv, TypeOK, Known
<1>4. Len(order[d]) <= Cardinality(Sighted \ {a})
    BY <1>1, <1>3, Room
<1>5. Len(order[d]) \in Nat /\ Memory \in Nat
    BY <1>3, LenProperties, RelayAssumption
<1> QED BY <1>1, <1>2, <1>4, <1>5 DEF Remembered

(* What a broadcast does, while there is room and when there is none.      *)
BroadcastEffect(d, a) ==
    /\ a \notin Sighted /\ Sighted' = Sighted \cup {a}
    /\ origin' = [origin EXCEPT ![a] = {d}]
    /\ UNCHANGED <<told, net, dropped>>
    /\ IsFiniteSet(Sighted')
    /\ Track(order[d], a) \in Seq(Alerts)
    /\ Len(Track(order[d], a)) <= Memory
    /\ Distinct(Track(order[d], a))
    /\ a \in Elements(Track(order[d], a))
    /\ Elements(Track(order[d], a)) \subseteq Elements(order[d]) \cup {a}
    /\ Len(order[d]) < Memory => Elements(order[d]) \subseteq Elements(Track(order[d], a))
    /\ order' = [order EXCEPT ![d] = Track(order[d], a)]
    /\ Append(queue[d], Alert(a, Hops)) \in Seq(AlertOf)
    /\ Elements(Append(queue[d], Alert(a, Hops))) = Elements(queue[d]) \cup {Alert(a, Hops)}
    /\ queue' = [queue EXCEPT ![d] = Append(queue[d], Alert(a, Hops))]
    /\ Remembered' => Remembered /\ Len(order[d]) < Memory

LEMMA BroadcastFacts ==
    ASSUME IInv, NEW d \in Drones, NEW a \in Alerts, Broadcast(d, a)
    PROVE  BroadcastEffect(d, a)
<1> USE DEF IInv
<1>1. /\ a \notin Sighted /\ Sighted' = Sighted \cup {a}
      /\ origin' = [origin EXCEPT ![a] = {d}]
      /\ UNCHANGED <<told, net, dropped>>
    BY DEF Broadcast, Sighted, TypeOK
<1>2. a \notin Elements(order[d])
    BY <1>1 DEF Known
<1>3. IsFiniteSet(Sighted') /\ Cardinality(Sighted') = Cardinality(Sighted) + 1
    BY <1>1, FS_AddElement
<1>4. /\ Track(order[d], a) \in Seq(Alerts)
      /\ Len(Track(order[d], a)) <= Memory
      /\ Distinct(Track(order[d], a))
      /\ a \in Elements(Track(order[d], a))
      /\ Elements(Track(order[d], a)) \subseteq Elements(order[d]) \cup {a}
      /\ Len(order[d]) < Memory => Elements(order[d]) \subseteq Elements(Track(order[d], a))
    BY <1>2, TrackFacts DEF TypeOK
<1>5. order' = [order EXCEPT ![d] = Track(order[d], a)]
    BY DEF Broadcast
<1>6. /\ Alert(a, Hops) \in AlertOf
      /\ Append(queue[d], Alert(a, Hops)) \in Seq(AlertOf)
      /\ Elements(Append(queue[d], Alert(a, Hops))) = Elements(queue[d]) \cup {Alert(a, Hops)}
      /\ queue' = [queue EXCEPT ![d] = Append(queue[d], Alert(a, Hops))]
    <2>1. Alert(a, Hops) \in AlertOf
        BY RelayAssumption DEF Alert, AlertOf
    <2>2. queue[d] \in Seq(AlertOf)
        BY DEF TypeOK
    <2>3. /\ Append(queue[d], Alert(a, Hops)) \in Seq(AlertOf)
          /\ Elements(Append(queue[d], Alert(a, Hops))) = Elements(queue[d]) \cup {Alert(a, Hops)}
        BY <2>1, <2>2, AppendElements
    <2> QED BY <2>1, <2>3 DEF Broadcast, TypeOK
<1>7. ASSUME Remembered'
       PROVE  Remembered /\ Len(order[d]) < Memory
    <2>1. Cardinality(Sighted) \in Nat /\ Memory \in Nat /\ Cardinality(Sighted) + 1 <= Memory
        BY <1>3, <1>7, FS_CardinalityType, RelayAssumption DEF Remembered
    <2>2. Len(order[d]) <= Cardinality(Sighted)
        BY Room DEF TypeOK, Known
    <2>3. Len(order[d]) \in Nat
        BY LenProperties DEF TypeOK
    <2> QED BY <2>1, <2>2, <2>3 DEF Remembered
<1> QED BY <1>1, <1>3, <1>4, <1>5, <1>6, <1>7 DEF BroadcastEffect

LEMMA BroadcastKeeps ==
    ASSUME IInv, NEW d \in Drones, NEW a \in Alerts, Broadcast(d, a)
    PROVE  IInv'
<1> USE DEF IInv
<1>1. /\ a \notin Sighted /\ Sighted' = Sighted \cup {a}
      /\ origin' = [origin EXCEPT ![a] = {d}]
      /\ UNCHANGED <<told, net, dropped>>
      /\ IsFiniteSet(Sighted')
      /\ Track(order[d], a) \in Seq(Alerts)
      /\ Len(Track(order[d], a)) <= Memory
      /\ Distinct(Track(order[d], a))
      /\ a \in Elements(Track(order[d], a))
      /\ Elements(Track(order[d], a)) \subseteq Elements(order[d]) \cup {a}
      /\ Len(order[d]) < Memory => Elements(order[d]) \subseteq Elements(Track(order[d], a))
      /\ order' = [order EXCEPT ![d] = Track(order[d], a)]
      /\ Append(queue[d], Alert(a, Hops)) \in Seq(AlertOf)
      /\ Elements(Append(queue[d], Alert(a, Hops))) = Elements(queue[d]) \cup {Alert(a, Hops)}
      /\ queue' = [queue EXCEPT ![d] = Append(queue[d], Alert(a, Hops))]
      /\ Remembered' => Remembered /\ Len(order[d]) < Memory
    BY BroadcastFacts DEF BroadcastEffect
<1>2. TypeOK'
    BY <1>1 DEF TypeOK
<1>3. Known'
    <2>1. Alert(a, Hops).id = a
        BY DEF Alert
    <2>2. \A e \in Drones : Elements(order'[e]) \subseteq Sighted'
        BY <1>1 DEF Known, TypeOK
    <2>3. \A e \in Drones : \A x \in Elements(queue'[e]) : x.id \in Sighted'
        BY <1>1, <2>1 DEF Known, TypeOK
    <2>4. (\A m \in net' : m.alert.id \in Sighted')
          /\ (\A e \in Drones : \A b \in Alerts : told'[e][b] > 0 => b \in Sighted')
        BY <1>1 DEF Known
    <2> QED BY <2>2, <2>3, <2>4 DEF Known
<1>4. \A e \in Drones : Distinct(order'[e])
    BY <1>1 DEF TypeOK
<1>5. Kept'
    <2> SUFFICES ASSUME Remembered', NEW e \in Drones, NEW b \in Alerts,
                        told'[e][b] > 0 \/ e \in origin'[b]
                 PROVE  b \in Elements(order'[e])
        BY DEF Kept
    <2>1. CASE b = a
        <3>1. ~(told[e][a] > 0)
            BY <1>1 DEF Known
        <3>2. e = d
            BY <1>1, <2>1, <3>1 DEF TypeOK
        <3> QED BY <1>1, <2>1, <3>2 DEF TypeOK
    <2>2. CASE b # a
        <3>1. b \in Elements(order[e])
            BY <1>1, <2>2 DEF Kept, TypeOK
        <3> QED BY <1>1, <3>1 DEF TypeOK
    <2> QED BY <2>1, <2>2
<1>6. ToldOnce'
    <2> SUFFICES ASSUME Remembered', NEW e \in Drones, NEW b \in Alerts
                 PROVE  told'[e][b] <= IF e \in origin'[b] THEN 0 ELSE 1
        BY DEF ToldOnce
    <2>1. told[e][b] \in 0 .. 2 /\ told' = told
        BY <1>1 DEF TypeOK
    <2>2. CASE b = a
        BY <1>1, <2>1, <2>2 DEF Known
    <2>3. CASE b # a
        <3>1. origin'[b] = origin[b]
            BY <1>1, <2>3 DEF TypeOK
        <3> QED BY <1>1, <2>1, <3>1 DEF ToldOnce
    <2> QED BY <2>2, <2>3
<1> QED BY <1>1, <1>2, <1>3, <1>4, <1>5, <1>6

(* An alert that comes again is dropped.                                   *)
LEMMA RepeatKeeps ==
    ASSUME IInv, UNCHANGED <<queue, order, told, origin, dropped>>, net' \subseteq net
    PROVE  IInv'
<1>1. Sighted' = Sighted
    BY DEF Sighted
<1> QED BY <1>1 DEF IInv, TypeOK, Known, Kept, ToldOnce, Remembered

(* What the first copy of an alert does.                                   *)
FirstCopyEffect(m, d, a) ==
    /\ d \in Drones /\ a \in Alerts /\ a \in Sighted /\ m.alert \in AlertOf
    /\ Sighted' = Sighted /\ UNCHANGED <<origin, dropped>> /\ net' = net \ {m}
    /\ a \notin Elements(order[d])
    /\ order' = [order EXCEPT ![d] = Track(order[d], a)]
    /\ Track(order[d], a) \in Seq(Alerts)
    /\ Len(Track(order[d], a)) <= Memory
    /\ Distinct(Track(order[d], a))
    /\ a \in Elements(Track(order[d], a))
    /\ Elements(Track(order[d], a)) \subseteq Elements(order[d]) \cup {a}
    /\ queue' = [queue EXCEPT ![d] = queue[d] \o Passed(m.alert)]
    /\ queue[d] \o Passed(m.alert) \in Seq(AlertOf)
    /\ Elements(queue[d] \o Passed(m.alert)) =
         Elements(queue[d]) \cup (IF m.alert.hops > 0 THEN {Alert(a, m.alert.hops - 1)} ELSE {})
    /\ told' \in [Drones -> [Alerts -> 0 .. 2]]
    /\ \A e \in Drones : \A b \in Alerts :
         told'[e][b] = IF e = d /\ b = a THEN (IF told[d][a] = 2 THEN 2 ELSE told[d][a] + 1)
                       ELSE told[e][b]
    /\ Remembered' = Remembered
    /\ Remembered => Elements(order[d]) \subseteq Elements(Track(order[d], a))

LEMMA FirstCopyFacts ==
    ASSUME IInv, NEW m \in net, ReceiveThreatRelay(m), m.alert.id \notin Elements(order[m.to]),
           NEW d, d = m.to, NEW a, a = m.alert.id
    PROVE  FirstCopyEffect(m, d, a)
<1> USE DEF IInv
<1>0. /\ d \in Drones /\ a \in Alerts /\ a \in Sighted /\ m.alert \in AlertOf
      /\ Sighted' = Sighted /\ UNCHANGED <<origin, dropped>> /\ net' = net \ {m}
    BY DEF TypeOK, Known, AlertOf, ReceiveThreatRelay, Sighted
<1>1. /\ order' = [order EXCEPT ![d] = Track(order[d], a)]
      /\ told' = [told EXCEPT ![d][a] = IF @ = 2 THEN 2 ELSE @ + 1]
      /\ queue' = [queue EXCEPT ![d] = queue[d] \o Passed(m.alert)]
    BY DEF ReceiveThreatRelay
<1>2. a \notin Elements(order[d])
    OBVIOUS
<1>3. /\ Track(order[d], a) \in Seq(Alerts)
      /\ Len(Track(order[d], a)) <= Memory
      /\ Distinct(Track(order[d], a))
      /\ a \in Elements(Track(order[d], a))
      /\ Elements(Track(order[d], a)) \subseteq Elements(order[d]) \cup {a}
      /\ Len(order[d]) < Memory => Elements(order[d]) \subseteq Elements(Track(order[d], a))
    BY <1>0, <1>2, TrackFacts DEF TypeOK
<1>4. /\ queue[d] \o Passed(m.alert) \in Seq(AlertOf)
      /\ Elements(queue[d] \o Passed(m.alert)) =
            Elements(queue[d]) \cup (IF m.alert.hops > 0 THEN {Alert(a, m.alert.hops - 1)} ELSE {})
    <2>1. CASE m.alert.hops > 0
        <3> DEFINE al == Alert(a, m.alert.hops - 1)
        <3>0. Passed(m.alert) = <<al>>
            BY <2>1 DEF Passed
        <3>1. al \in AlertOf
            BY <1>0, <2>1, RelayAssumption DEF Alert, AlertOf
        <3>4. queue[d] \in Seq(AlertOf)
            BY <1>0 DEF TypeOK
        <3> HIDE DEF al
        <3>5. queue[d] \o Passed(m.alert) = Append(queue[d], al)
            BY <3>0, <3>1, <3>4, AppendIsConcat
        <3>6. /\ Append(queue[d], al) \in Seq(AlertOf)
              /\ Elements(Append(queue[d], al)) = Elements(queue[d]) \cup {al}
            BY <3>1, <3>4, AppendElements
        <3> QED BY <2>1, <3>5, <3>6 DEF al
    <2>2. CASE ~(m.alert.hops > 0)
        <3>1. Passed(m.alert) = <<>> /\ queue[d] \in Seq(AlertOf)
            BY <1>0, <2>2 DEF Passed, TypeOK
        <3> QED BY <2>2, <3>1, ConcatEmptySeq
    <2> QED BY <2>1, <2>2
<1>5. /\ told[d][a] \in 0 .. 2
      /\ \A e \in Drones : \A b \in Alerts :
            told'[e][b] = IF e = d /\ b = a THEN (IF told[d][a] = 2 THEN 2 ELSE told[d][a] + 1)
                          ELSE told[e][b]
    BY <1>0, <1>1 DEF TypeOK
<1>6. told' \in [Drones -> [Alerts -> 0 .. 2]]
    BY <1>0, <1>1, <1>5 DEF TypeOK
<1>7. Remembered' = Remembered /\ (Remembered => Len(order[d]) < Memory)
    BY <1>0, <1>2, MemoryHasRoom DEF Remembered
<1> QED BY <1>0, <1>1, <1>2, <1>3, <1>4, <1>5, <1>6, <1>7 DEF FirstCopyEffect

LEMMA FirstCopyKeeps ==
    ASSUME IInv, NEW m \in net, ReceiveThreatRelay(m), m.alert.id \notin Elements(order[m.to]),
           NEW d, d = m.to, NEW a, a = m.alert.id
    PROVE  IInv'
<1>1. /\ d \in Drones /\ a \in Alerts /\ a \in Sighted /\ m.alert \in AlertOf
      /\ Sighted' = Sighted /\ UNCHANGED <<origin, dropped>> /\ net' = net \ {m}
      /\ a \notin Elements(order[d])
      /\ order' = [order EXCEPT ![d] = Track(order[d], a)]
      /\ Track(order[d], a) \in Seq(Alerts)
      /\ Len(Track(order[d], a)) <= Memory
      /\ Distinct(Track(order[d], a))
      /\ a \in Elements(Track(order[d], a))
      /\ Elements(Track(order[d], a)) \subseteq Elements(order[d]) \cup {a}
      /\ queue' = [queue EXCEPT ![d] = queue[d] \o Passed(m.alert)]
      /\ queue[d] \o Passed(m.alert) \in Seq(AlertOf)
      /\ Elements(queue[d] \o Passed(m.alert)) =
            Elements(queue[d]) \cup (IF m.alert.hops > 0 THEN {Alert(a, m.alert.hops - 1)} ELSE {})
      /\ told' \in [Drones -> [Alerts -> 0 .. 2]]
      /\ \A e \in Drones : \A b \in Alerts :
            told'[e][b] = IF e = d /\ b = a THEN (IF told[d][a] = 2 THEN 2 ELSE told[d][a] + 1)
                          ELSE told[e][b]
      /\ Remembered' = Remembered
      /\ Remembered => Elements(order[d]) \subseteq Elements(Track(order[d], a))
    <2>1. FirstCopyEffect(m, d, a)
        BY FirstCopyFacts
    <2> QED BY <2>1 DEF FirstCopyEffect
<1> USE DEF IInv
<1>0. d \in Drones /\ a \in Alerts /\ a \notin Elements(order[d])
    BY <1>1
<1>2. TypeOK'
    <2>1. queue' \in [Drones -> Seq(AlertOf)]
        BY <1>1 DEF TypeOK
    <2>2. order' \in [Drones -> Seq(Alerts)] /\ \A e \in Drones : Len(order'[e]) <= Memory
        BY <1>1 DEF TypeOK
    <2> QED BY <1>1, <2>1, <2>2 DEF TypeOK
<1>3. Known'
    <2>1. \A e \in Drones : Elements(order'[e]) \subseteq Sighted'
        BY <1>1 DEF Known, TypeOK
    <2>2. \A e \in Drones : \A x \in Elements(queue'[e]) : x.id \in Sighted'
        BY <1>1 DEF Known, TypeOK, Alert
    <2>3. \A e \in Drones : \A b \in Alerts : told'[e][b] > 0 => b \in Sighted'
        BY <1>1 DEF Known
    <2>4. \A n \in net' : n.alert.id \in Sighted'
        BY <1>1 DEF Known
    <2> QED BY <2>1, <2>2, <2>3, <2>4 DEF Known
<1>4. \A e \in Drones : Distinct(order'[e])
    BY <1>1 DEF TypeOK
<1>5. Kept'
    <2> SUFFICES ASSUME Remembered, NEW e \in Drones, NEW b \in Alerts,
                        told'[e][b] > 0 \/ e \in origin[b]
                 PROVE  b \in Elements(order'[e])
        BY <1>1 DEF Kept
    <2>1. CASE e = d /\ b = a
        BY <1>1, <2>1 DEF TypeOK
    <2>2. CASE ~(e = d /\ b = a)
        <3>1. b \in Elements(order[e])
            BY <1>1, <2>2 DEF Kept
        <3> QED BY <1>1, <3>1 DEF TypeOK
    <2> QED BY <2>1, <2>2
<1>6. ToldOnce'
    <2> SUFFICES ASSUME Remembered, NEW e \in Drones, NEW b \in Alerts
                 PROVE  told'[e][b] <= IF e \in origin[b] THEN 0 ELSE 1
        BY <1>1 DEF ToldOnce
    <2>1. CASE e = d /\ b = a
        <3>1. ~(told[d][a] > 0) /\ d \notin origin[a]
            BY <1>0 DEF Kept
        <3>2. told[d][a] \in 0 .. 2
            BY <1>0 DEF TypeOK
        <3> QED BY <1>1, <2>1, <3>1, <3>2
    <2>2. CASE ~(e = d /\ b = a)
        BY <1>1, <2>2 DEF ToldOnce
    <2> QED BY <2>1, <2>2
<1> QED BY <1>1, <1>2, <1>3, <1>4, <1>5, <1>6

LEMMA SendKeeps ==
    ASSUME IInv, NEW d \in Drones, ProcessThreatQueue(d)
    PROVE  IInv'
<1> USE DEF IInv
<1>1. PICK taken \in SUBSET Sent(d) :
            /\ net' = net \cup taken
            /\ dropped' = dropped \cup {m.alert.id : m \in Sent(d) \ taken}
    BY DEF ProcessThreatQueue
<1>2. /\ queue' = [queue EXCEPT ![d] = <<>>] /\ UNCHANGED <<order, told, origin>>
      /\ Sighted' = Sighted
    BY DEF ProcessThreatQueue, Sighted
<1>3. \A m \in Sent(d) : m \in [to : Drones, alert : AlertOf] /\ m.alert.id \in Sighted
    <2> SUFFICES ASSUME NEW e \in InRange(d), NEW x \in Elements(queue[d])
                 PROVE  /\ Message(e, x) \in [to : Drones, alert : AlertOf]
                        /\ Message(e, x).alert.id \in Sighted
        BY DEF Sent
    <2>1. x \in AlertOf
        BY LenProperties, ElementOfSeq DEF Elements, TypeOK
    <2>2. e \in Drones /\ x.id \in Sighted
        BY DEF InRange, Known
    <2> QED BY <2>1, <2>2 DEF Message
<1>4. \A m \in Sent(d) : m.alert.id \in Alerts
    BY <1>3 DEF Sighted
<1>5. <<>> \in Seq(AlertOf) /\ Elements(<<>>) = {}
    BY EmptySeq DEF Elements
<1>6. TypeOK'
    BY <1>1, <1>2, <1>3, <1>4, <1>5 DEF TypeOK
<1>7. Known'
    BY <1>1, <1>2, <1>3, <1>5 DEF Known, TypeOK
<1> QED BY <1>2, <1>6, <1>7 DEF Kept, ToldOnce, Remembered

LEMMA InitInvariant ==
    ASSUME Init
    PROVE  IInv
<1>1. /\ <<>> \in Seq(AlertOf) /\ <<>> \in Seq(Alerts)
      /\ Len(<<>>) = 0 /\ Elements(<<>>) = {}
    BY EmptySeq DEF Elements
<1>2. TypeOK
    BY <1>1, RelayAssumption DEF Init, TypeOK
<1>3. Sighted = {} /\ IsFiniteSet(Sighted)
    BY FS_EmptySet DEF Init, Sighted
<1>4. Known /\ Kept /\ ToldOnce
    BY <1>1 DEF Init, Known, Kept, ToldOnce
<1>5. \A d \in Drones : Distinct(order[d])
    BY <1>1 DEF Init, Distinct
<1> QED BY <1>2, <1>3, <1>4, <1>5 DEF IInv

LEMMA StepKeeps ==
    ASSUME IInv, [Next]_vars
    PROVE  IInv'
<1>1. CASE \E d \in Drones : ProcessThreatQueue(d)
    BY <1>1, SendKeeps
<1>2. CASE \E d \in Drones : \E a \in Alerts : Broadcast(d, a)
    BY <1>2, BroadcastKeeps
<1>3. ASSUME NEW m \in net, ReceiveThreatRelay(m)
      PROVE  IInv'
    <2>1. CASE m.alert.id \in Elements(order[m.to])
        BY <1>3, <2>1, RepeatKeeps DEF ReceiveThreatRelay
    <2>2. CASE m.alert.id \notin Elements(order[m.to])
        BY <1>3, <2>2, FirstCopyKeeps
    <2> QED BY <2>1, <2>2
<1>4. CASE UNCHANGED vars
    BY <1>4, RepeatKeeps DEF vars
<1> QED BY <1>1, <1>2, <1>3, <1>4 DEF Next

(* The inductive invariant: types, alerts known, memories without          *)
(* repetitions that keep what they must.                                   *)
THEOREM RelayInvariant == Spec => []IInv
BY InitInvariant, StepKeeps, PTL DEF Spec

-----------------------------------------------------------------------------
(* Where an alert has been: along which paths it came, and who has yet to  *)
(* pass it on.                                                             *)

Reached(a) == {d \in Drones : told[d][a] > 0 \/ d \in origin[a]}

(* A drone remembers only alerts that have reached it.                     *)
Heard == \A d \in Drones : \A a \in Elements(order[d]) : d \in Reached(a)

(* The alert has come to d along a path of n drones.                       *)
CameBy(a, d, n) == \E p \in Paths(n) : p[n] = d /\ \A k \in 1 .. n : p[k] \in Reached(a)

(* The hops an alert has left tell the length of the path it took.         *)
QueuesCount ==
    Remembered => \A d \in Drones : \A x \in Elements(queue[d]) :
                        CameBy(x.id, d, Hops - x.hops + 1)
NetCounts ==
    Remembered => \A m \in net : \E d \in Drones :
                        /\ m.to \in InRange(d)
                        /\ CameBy(m.alert.id, d, Hops - m.alert.hops + 1)

(* What has reached a drone, and was not lost, has reached its neighbours, *)
(* is on its way to them, or waits to be sent.                             *)
Waits(d, a) == \E x \in Elements(queue[d]) : x.id = a
Comes(e, a) == \E m \in net : m.to = e /\ m.alert.id = a
PassedOn ==
    HopsSuffice /\ Remembered =>
        \A a \in Alerts \ dropped : \A d \in Reached(a) : \A e \in InRange(d) :
            e \in Reached(a) \/ Waits(d, a) \/ Comes(e, a)

RInv == IInv /\ Heard /\ QueuesCount /\ NetCounts /\ PassedOn

(* A drone alone is a path, and a path goes on to any drone in range that  *)
(* is not on it.                                                           *)
LEMMA PathOfOne ==
    ASSUME NEW d \in Drones
    PROVE  [k \in 1 .. 1 |-> d] \in Paths(1)
BY DEF Paths

LEMMA PathGoesOn ==
    ASSUME NEW n \in Nat \ {0}, NEW p \in Paths(n), NEW e \in InRange(p[n]),
           \A k \in 1 .. n : p[k] # e
    PROVE  [k \in 1 .. n + 1 |-> IF k <= n THEN p[k] ELSE e] \in Paths(n + 1)
<1> DEFINE q == [k \in 1 .. n + 1 |-> IF k <= n THEN p[k] ELSE e]
<1>1. /\ \A k \in 1 .. n : q[k] = p[k] /\ p[k] \in Drones
      /\ q[n + 1] = e /\ e \in Drones
      /\ q \in [1 .. n + 1 -> Drones]
    BY DEF Paths, InRange
<1> HIDE DEF q
<1>2. \A j, k \in 1 .. n + 1 : q[j] = q[k] => j = k
    <2> SUFFICES ASSUME NEW j \in 1 .. n + 1, NEW k \in 1 .. n + 1, q[j] = q[k]
                 PROVE  j = k
        OBVIOUS
    <2>1. (j \in 1 .. n \/ j = n + 1) /\ (k \in 1 .. n \/ k = n + 1)
        OBVIOUS
    <2> QED BY <1>1, <2>1 DEF Paths
<1>3. \A k \in 1 .. (n + 1) - 1 : q[k + 1] \in InRange(q[k])
    <2> SUFFICES ASSUME NEW k \in 1 .. (n + 1) - 1
                 PROVE  q[k + 1] \in InRange(q[k])
        OBVIOUS
    <2>0. k \in 1 .. n
        OBVIOUS
    <2>1. CASE k = n
        BY <1>1, <2>1
    <2>2. CASE k # n
        <3>1. k \in 1 .. n - 1 /\ k + 1 \in 1 .. n
            BY <2>0, <2>2
        <3> QED BY <1>1, <3>1 DEF Paths
    <2> QED BY <2>1, <2>2
<1> QED BY <1>1, <1>2, <1>3 DEF Paths, q

(* What came to d along n drones goes on to a drone it has not reached.    *)
LEMMA ComesOn ==
    ASSUME NEW a, NEW d, NEW n \in Nat \ {0}, CameBy(a, d, n),
           NEW e \in InRange(d), e \notin Reached(a)
    PROVE  \E p \in Paths(n + 1) :
                /\ p[n + 1] = e
                /\ \A k \in 1 .. n : p[k] \in Reached(a)
<1>1. PICK p \in Paths(n) : p[n] = d /\ \A k \in 1 .. n : p[k] \in Reached(a)
    BY DEF CameBy
<1> DEFINE q == [k \in 1 .. n + 1 |-> IF k <= n THEN p[k] ELSE e]
<1>2. q \in Paths(n + 1)
    BY <1>1, PathGoesOn
<1>3. q[n + 1] = e /\ \A k \in 1 .. n : q[k] = p[k]
    OBVIOUS
<1> HIDE DEF q
<1> QED BY <1>1, <1>2, <1>3

(* An alert with no hops left that is heard for the first time leaves no   *)
(* neighbour behind.                                                       *)
LEMMA LastHop ==
    ASSUME HopsSuffice, NEW a, NEW d, CameBy(a, d, Hops + 1),
           NEW e \in InRange(d), e \notin Reached(a), NEW f \in InRange(e), f \notin Reached(a)
    PROVE  FALSE
<1>1. Hops + 1 \in Nat \ {0} /\ Hops + 2 \in Nat \ {0}
      /\ (Hops + 1) + 1 = Hops + 2 /\ (Hops + 2) + 1 = Hops + 3
    BY RelayAssumption
<1>2. PICK p \in Paths(Hops + 2) : p[Hops + 2] = e /\ \A k \in 1 .. Hops + 1 : p[k] \in Reached(a)
    BY <1>1, ComesOn
<1>3. f # e
    BY DEF InRange
<1>4. ASSUME NEW k \in 1 .. Hops + 2
      PROVE  p[k] # f
    <2>1. k = Hops + 2 \/ k \in 1 .. Hops + 1
        BY <1>1
    <2> QED BY <1>2, <1>3, <2>1
<1> DEFINE q == [k \in 1 .. Hops + 3 |-> IF k <= Hops + 2 THEN p[k] ELSE f]
<1>5. q \in Paths(Hops + 3)
    BY <1>1, <1>2, <1>4, PathGoesOn
<1> QED BY <1>5 DEF HopsSuffice

(* A step only adds to the drones an alert has reached.                    *)
LEMMA CameByGrows ==
    ASSUME NEW a, NEW d, NEW n, CameBy(a, d, n), Reached(a) \subseteq Reached(a)'
    PROVE  CameBy(a, d, n)'
BY DEF CameBy

(* Queues, messages and memories speak of alerts.                          *)
LEMMA OfAlerts ==
    ASSUME IInv
    PROVE  /\ \A d \in Drones : Elements(order[d]) \subseteq Alerts
           /\ \A d \in Drones : \A x \in Elements(queue[d]) : x.id \in Alerts
           /\ \A m \in net : m.to \in Drones /\ m.alert.id \in Alerts /\ m.alert.hops \in 0 .. Hops
<1>1. Sighted \subseteq Alerts
    BY DEF Sighted
<1> QED BY <1>1 DEF IInv, Known, TypeOK, AlertOf

LEMMA BroadcastRelays ==
    ASSUME RInv, NEW d \in Drones, NEW a \in Alerts, Broadcast(d, a)
    PROVE  Heard' /\ QueuesCount' /\ NetCounts' /\ PassedOn'
<1>0. IInv /\ TypeOK
    BY DEF RInv, IInv
<1>1. /\ a \notin Sighted
      /\ origin' = [origin EXCEPT ![a] = {d}]
      /\ UNCHANGED <<told, net, dropped>>
      /\ Elements(Track(order[d], a)) \subseteq Elements(order[d]) \cup {a}
      /\ order' = [order EXCEPT ![d] = Track(order[d], a)]
      /\ Elements(Append(queue[d], Alert(a, Hops))) = Elements(queue[d]) \cup {Alert(a, Hops)}
      /\ queue' = [queue EXCEPT ![d] = Append(queue[d], Alert(a, Hops))]
      /\ Remembered' => Remembered
    BY <1>0, BroadcastFacts DEF BroadcastEffect
<1>2. /\ \A e \in Drones : Elements(order'[e]) \subseteq Elements(order[e]) \cup (IF e = d THEN {a} ELSE {})
      /\ \A e \in Drones : Elements(queue'[e]) =
            Elements(queue[e]) \cup (IF e = d THEN {Alert(a, Hops)} ELSE {})
    BY <1>0, <1>1 DEF TypeOK
<1>3. Reached(a) = {}
    BY <1>0, <1>1 DEF Reached, IInv, Known, Sighted
<1>4. /\ Reached(a)' = {d}
      /\ \A b \in Alerts \ {a} : Reached(b)' = Reached(b)
    <2>1. \A b \in Alerts : origin'[b] = IF b = a THEN {d} ELSE origin[b]
        BY <1>0, <1>1 DEF TypeOK
    <2> QED BY <1>1, <1>3, <2>1 DEF Reached
<1>5. \A b \in Alerts : Reached(b) \subseteq Reached(b)'
    BY <1>3, <1>4
<1>6. Heard'
    BY <1>0, <1>2, <1>4, <1>5, OfAlerts DEF RInv, Heard
<1>7. QueuesCount'
    <2> SUFFICES ASSUME Remembered', NEW e \in Drones, NEW x \in Elements(queue'[e])
                 PROVE  CameBy(x.id, e, Hops - x.hops + 1)'
        BY DEF QueuesCount
    <2>1. CASE x \in Elements(queue[e])
        <3>1. CameBy(x.id, e, Hops - x.hops + 1) /\ x.id \in Alerts
            BY <1>0, <1>1, <2>1, OfAlerts DEF RInv, QueuesCount
        <3> QED BY <1>5, <3>1, CameByGrows
    <2>2. CASE e = d /\ x = Alert(a, Hops)
        <3>1. x.id = a /\ Hops - x.hops + 1 = 1
            BY <2>2, RelayAssumption DEF Alert
        <3> DEFINE p == [k \in 1 .. 1 |-> d]
        <3>2. p \in Paths(1)
            BY PathOfOne
        <3>3. p[1] = d /\ \A k \in 1 .. 1 : p[k] \in Reached(a)'
            BY <1>4
        <3> HIDE DEF p
        <3>4. CameBy(a, d, 1)'
            BY <3>2, <3>3 DEF CameBy
        <3> QED BY <2>2, <3>1, <3>4
    <2> QED BY <1>2, <2>1, <2>2
<1>8. NetCounts'
    <2> SUFFICES ASSUME Remembered', NEW m \in net
                 PROVE  \E e \in Drones : /\ m.to \in InRange(e)
                                         /\ CameBy(m.alert.id, e, Hops - m.alert.hops + 1)'
        BY <1>1 DEF NetCounts
    <2>1. PICK e \in Drones : m.to \in InRange(e) /\ CameBy(m.alert.id, e, Hops - m.alert.hops + 1)
        BY <1>1 DEF RInv, NetCounts
    <2> QED BY <1>0, <1>5, <2>1, CameByGrows, OfAlerts
<1>9. PassedOn'
    <2> SUFFICES ASSUME HopsSuffice, Remembered', NEW b \in Alerts, b \notin dropped,
                        NEW e \in Reached(b)', NEW f \in InRange(e)
                 PROVE  f \in Reached(b)' \/ Waits(e, b)' \/ Comes(f, b)'
        BY <1>1 DEF PassedOn
    <2>1. CASE b = a
        <3>1. e = d
            BY <1>4, <2>1
        <3>2. Alert(a, Hops) \in Elements(queue'[d]) /\ Alert(a, Hops).id = a
            BY <1>2 DEF Alert
        <3> QED BY <2>1, <3>1, <3>2 DEF Waits
    <2>2. CASE b # a
        <3>1. e \in Reached(b) /\ e \in Drones
            BY <1>4, <2>2 DEF Reached
        <3>2. f \in Reached(b) \/ Waits(e, b) \/ Comes(f, b)
            BY <1>1, <3>1 DEF RInv, PassedOn
        <3>3. Waits(e, b) => Waits(e, b)'
            BY <1>2, <3>1 DEF Waits
        <3>4. Comes(f, b) => Comes(f, b)'
            BY <1>1 DEF Comes
        <3> QED BY <1>5, <3>2, <3>3, <3>4
    <2> QED BY <2>1, <2>2
<1> QED BY <1>6, <1>7, <1>8, <1>9

LEMMA RepeatRelays ==
    ASSUME RInv, UNCHANGED <<queue, order, told, origin, dropped>>, net' \subseteq net,
           \A m \in net \ net' : m.to \in Reached(m.alert.id)
    PROVE  Heard' /\ QueuesCount' /\ NetCounts' /\ PassedOn'
<1>1. Remembered' = Remembered /\ \A b : Reached(b)' = Reached(b)
    BY DEF Remembered, Sighted, Reached
<1>2. \A b, d, n : CameBy(b, d, n)' = CameBy(b, d, n)
    BY <1>1 DEF CameBy
<1>3. Heard' /\ QueuesCount' /\ NetCounts'
    BY <1>1, <1>2 DEF RInv, Heard, QueuesCount, NetCounts
<1>4. PassedOn'
    <2> SUFFICES ASSUME HopsSuffice, Remembered, NEW b \in Alerts, b \notin dropped,
                        NEW e \in Reached(b), NEW f \in InRange(e)
                 PROVE  f \in Reached(b) \/ Waits(e, b) \/ Comes(f, b)'
        BY <1>1 DEF PassedOn, Waits
    <2>1. f \in Reached(b) \/ Waits(e, b) \/ Comes(f, b)
        BY DEF RInv, PassedOn
    <2>2. Comes(f, b) => f \in Reached(b) \/ Comes(f, b)'
        BY DEF Comes
    <2> QED BY <2>1, <2>2
<1> QED BY <1>3, <1>4

LEMMA FirstCopyRelays ==
    ASSUME RInv, NEW m \in net, ReceiveThreatRelay(m), m.alert.id \notin Elements(order[m.to]),
           NEW d, d = m.to, NEW a, a = m.alert.id
    PROVE  Heard' /\ QueuesCount' /\ NetCounts' /\ PassedOn'
<1> DEFINE h == m.alert.hops
<1>0. IInv /\ TypeOK /\ FirstCopyEffect(m, d, a)
    BY FirstCopyFacts DEF RInv, IInv
<1>1. /\ d \in Drones /\ a \in Alerts
      /\ UNCHANGED <<origin, dropped>> /\ net' = net \ {m}
      /\ \A e \in Drones : \A b \in Alerts :
            told'[e][b] = IF e = d /\ b = a THEN (IF told[d][a] = 2 THEN 2 ELSE told[d][a] + 1)
                          ELSE told[e][b]
      /\ Remembered' = Remembered
    BY <1>0 DEF FirstCopyEffect
<1>2. h \in 0 .. Hops /\ Hops \in Nat
    BY <1>0, OfAlerts, RelayAssumption
<1>3. /\ \A e \in Drones : Elements(order'[e]) \subseteq Elements(order[e]) \cup (IF e = d THEN {a} ELSE {})
      /\ \A e \in Drones : Elements(queue'[e]) =
            Elements(queue[e]) \cup (IF e = d /\ h > 0 THEN {Alert(a, h - 1)} ELSE {})
    BY <1>0 DEF FirstCopyEffect, TypeOK
<1>4. /\ Reached(a)' = Reached(a) \cup {d}
      /\ \A b \in Alerts \ {a} : Reached(b)' = Reached(b)
    <2>1. told[d][a] \in 0 .. 2
        BY <1>0, <1>1 DEF TypeOK
    <2> QED BY <1>1, <2>1 DEF Reached
<1>5. \A b \in Alerts : Reached(b) \subseteq Reached(b)'
    BY <1>4
<1>6. ASSUME Remembered
      PROVE  d \notin Reached(a)
    BY <1>0, <1>1, <1>6 DEF FirstCopyEffect, IInv, Kept, Reached
<1>7. ASSUME Remembered
      PROVE  \E e \in Drones : d \in InRange(e) /\ CameBy(a, e, Hops - h + 1)
    BY <1>7 DEF RInv, NetCounts
<1>8. Heard'
    BY <1>0, <1>1, <1>3, <1>4, <1>5, OfAlerts DEF RInv, Heard
<1> HIDE DEF h
<1>9. QueuesCount'
    <2> SUFFICES ASSUME Remembered, NEW e \in Drones, NEW x \in Elements(queue'[e])
                 PROVE  CameBy(x.id, e, Hops - x.hops + 1)'
        BY <1>1 DEF QueuesCount
    <2>1. CASE x \in Elements(queue[e])
        <3>1. CameBy(x.id, e, Hops - x.hops + 1) /\ x.id \in Alerts
            BY <1>0, <2>1, OfAlerts DEF RInv, QueuesCount
        <3> QED BY <1>5, <3>1, CameByGrows
    <2>2. CASE e = d /\ h > 0 /\ x = Alert(a, h - 1)
        <3>1. /\ x.id = a /\ Hops - x.hops + 1 = (Hops - h + 1) + 1
              /\ Hops - h + 1 \in Nat \ {0}
            BY <1>2, <2>2 DEF Alert
        <3>2. PICK c \in Drones : d \in InRange(c) /\ CameBy(a, c, Hops - h + 1)
            BY <1>7
        <3> DEFINE n == Hops - h + 1
        <3> HIDE DEF n
        <3>3. n \in Nat \ {0} /\ CameBy(a, c, n)
            BY <3>1, <3>2 DEF n
        <3>4. PICK p \in Paths(n + 1) : p[n + 1] = d /\ \A k \in 1 .. n : p[k] \in Reached(a)
            BY <1>6, <3>2, <3>3, ComesOn
        <3>5. \A k \in 1 .. n + 1 : p[k] \in Reached(a)'
            <4> SUFFICES ASSUME NEW k \in 1 .. n + 1
                         PROVE  p[k] \in Reached(a)'
                OBVIOUS
            <4>1. k \in 1 .. n \/ k = n + 1
                BY <3>3
            <4> QED BY <1>4, <3>4, <4>1
        <3>6. CameBy(a, d, n + 1)'
            BY <3>4, <3>5 DEF CameBy
        <3> QED BY <2>2, <3>1, <3>6 DEF n
    <2> QED BY <1>3, <2>1, <2>2
<1>10. NetCounts'
    <2> SUFFICES ASSUME Remembered, NEW o \in net
                 PROVE  \E e \in Drones : /\ o.to \in InRange(e)
                                         /\ CameBy(o.alert.id, e, Hops - o.alert.hops + 1)'
        BY <1>1 DEF NetCounts
    <2>1. PICK e \in Drones : o.to \in InRange(e) /\ CameBy(o.alert.id, e, Hops - o.alert.hops + 1)
        BY DEF RInv, NetCounts
    <2> QED BY <1>0, <1>5, <2>1, CameByGrows, OfAlerts
<1>11. PassedOn'
    <2> SUFFICES ASSUME HopsSuffice, Remembered, NEW b \in Alerts, b \notin dropped,
                        NEW e \in Reached(b)', NEW f \in InRange(e)
                 PROVE  f \in Reached(b)' \/ Waits(e, b)' \/ Comes(f, b)'
        BY <1>1 DEF PassedOn
    <2>1. CASE b = a /\ e = d /\ h > 0
        <3>1. Alert(a, h - 1) \in Elements(queue'[d]) /\ Alert(a, h - 1).id = a
            BY <1>1, <1>3, <2>1 DEF Alert
        <3> QED BY <2>1, <3>1 DEF Waits
    <2>2. CASE b = a /\ e = d /\ ~(h > 0)
        <3>1. PICK c \in Drones : d \in InRange(c) /\ CameBy(a, c, Hops - h + 1)
            BY <1>7
        <3>2. CameBy(a, c, Hops + 1)
            <4>1. Hops - h + 1 = Hops + 1
                BY <1>2, <2>2
            <4> QED BY <3>1, <4>1
        <3>3. f \in Reached(a)
            BY <1>6, <2>2, <3>1, <3>2, LastHop
        <3> QED BY <1>4, <2>2, <3>3
    <2>3. CASE ~(b = a /\ e = d)
        <3>1. e \in Reached(b) /\ e \in Drones
            BY <1>4, <2>3 DEF Reached
        <3>2. f \in Reached(b) \/ Waits(e, b) \/ Comes(f, b)
            BY <3>1 DEF RInv, PassedOn
        <3>3. Waits(e, b) => Waits(e, b)'
            BY <1>3, <3>1 DEF Waits
        <3>4. Comes(f, b) => Comes(f, b)' \/ f \in Reached(b)'
            BY <1>1, <1>4 DEF Comes
        <3> QED BY <1>5, <3>2, <3>3, <3>4
    <2> QED BY <2>1, <2>2, <2>3
<1> QED BY <1>8, <1>9, <1>10, <1>11

LEMMA SendRelays ==
    ASSUME RInv, NEW d \in Drones, ProcessThreatQueue(d)
    PROVE  Heard' /\ QueuesCount' /\ NetCounts' /\ PassedOn'
<1>0. IInv /\ TypeOK
    BY DEF RInv, IInv
<1>1. PICK taken \in SUBSET Sent(d) :
            /\ net' = net \cup taken
            /\ dropped' = dropped \cup {m.alert.id : m \in Sent(d) \ taken}
    BY DEF ProcessThreatQueue
<1>2. UNCHANGED <<order, told, origin>> /\ Remembered' = Remembered
    BY DEF ProcessThreatQueue, Sighted, Remembered
<1>3. \A e \in Drones : Elements(queue'[e]) = IF e = d THEN {} ELSE Elements(queue[e])
    <2>1. Elements(<<>>) = {}
        BY EmptySeq DEF Elements
    <2> QED BY <1>0, <2>1 DEF ProcessThreatQueue, TypeOK
<1>4. \A b : Reached(b)' = Reached(b)
    BY <1>2 DEF Reached
<1>5. \A b, e, n : CameBy(b, e, n)' = CameBy(b, e, n)
    BY <1>4 DEF CameBy
<1>6. Heard'
    BY <1>2, <1>4 DEF RInv, Heard
<1>7. QueuesCount'
    BY <1>2, <1>3, <1>5 DEF RInv, QueuesCount
<1>8. NetCounts'
    <2> SUFFICES ASSUME Remembered, NEW m \in net \cup Sent(d)
                 PROVE  \E e \in Drones : /\ m.to \in InRange(e)
                                         /\ CameBy(m.alert.id, e, Hops - m.alert.hops + 1)
        BY <1>1, <1>2, <1>5 DEF NetCounts
    <2>1. CASE m \in net
        BY <2>1 DEF RInv, NetCounts
    <2>2. CASE m \in Sent(d)
        <3>1. PICK e \in InRange(d), x \in Elements(queue[d]) : m = Message(e, x)
            BY <2>2 DEF Sent
        <3>2. m.to \in InRange(d) /\ m.alert = x
            BY <3>1 DEF Message
        <3>3. CameBy(x.id, d, Hops - x.hops + 1)
            BY DEF RInv, QueuesCount
        <3> QED BY <3>2, <3>3
    <2> QED BY <2>1, <2>2
<1>9. PassedOn'
    <2> SUFFICES ASSUME HopsSuffice, Remembered, NEW b \in Alerts, b \notin dropped',
                        NEW e \in Reached(b), NEW f \in InRange(e)
                 PROVE  f \in Reached(b) \/ Waits(e, b)' \/ Comes(f, b)'
        BY <1>2, <1>4 DEF PassedOn
    <2>1. f \in Reached(b) \/ Waits(e, b) \/ Comes(f, b)
        BY <1>1 DEF RInv, PassedOn
    <2>2. Comes(f, b) => Comes(f, b)'
        BY <1>1 DEF Comes
    <2>3. CASE Waits(e, b) /\ e = d
        <3>1. PICK x \in Elements(queue[d]) : x.id = b
            BY <2>3 DEF Waits
        <3>2. /\ Message(f, x) \in Sent(d)
              /\ Message(f, x).to = f /\ Message(f, x).alert.id = b
            BY <2>3, <3>1 DEF Sent, Message
        <3>3. Message(f, x) \in taken
            BY <1>1, <3>2
        <3> QED BY <1>1, <3>2, <3>3 DEF Comes
    <2>4. CASE Waits(e, b) /\ e # d
        BY <1>3, <2>4 DEF Waits, Reached
    <2> QED BY <2>1, <2>2, <2>3, <2>4
<1> QED BY <1>6, <1>7, <1>8, <1>9

(* The invariant of the relay: every alert came along a path its hops tell *)
(* the length of, and what was not lost has been passed on.                *)
THEOREM RelayPassesOn == Spec => []RInv
<1>1. Init => RInv
    <2> SUFFICES ASSUME Init
                 PROVE  RInv
        OBVIOUS
    <2>1. Elements(<<>>) = {}
        BY EmptySeq DEF Elements
    <2>2. \A a \in Alerts : Reached(a) = {}
        BY DEF Init, Reached
    <2>3. Heard /\ QueuesCount /\ NetCounts /\ PassedOn
        BY <2>1, <2>2 DEF Init, Heard, QueuesCount, NetCounts, PassedOn
    <2>4. IInv
        BY InitInvariant
    <2> QED BY <2>3, <2>4 DEF RInv
<1>2. RInv /\ [Next]_vars => RInv'
    <2> SUFFICES ASSUME RInv, [Next]_vars
                 PROVE  RInv'
        OBVIOUS
    <2>0. IInv /\ IInv'
        BY StepKeeps DEF RInv
    <2>1. CASE \E d \in Drones : ProcessThreatQueue(d)
        BY <2>0, <2>1, SendRelays DEF RInv
    <2>2. CASE \E d \in Drones : \E a \in Alerts : Broadcast(d, a)
        BY <2>0, <2>2, BroadcastRelays DEF RInv
    <2>3. ASSUME NEW m \in net, ReceiveThreatRelay(m)
          PROVE  RInv'
        <3>1. CASE m.alert.id \in Elements(order[m.to])
            <4>1. m.to \in Reached(m.alert.id)
                BY <2>0, <3>1, OfAlerts DEF RInv, Heard
            <4>2. UNCHANGED <<queue, order, told, origin, dropped>> /\ net' = net \ {m}
                BY <2>3, <3>1 DEF ReceiveThreatRelay
            <4>3. Heard' /\ QueuesCount' /\ NetCounts' /\ PassedOn'
                BY <4>1, <4>2, RepeatRelays
            <4> QED BY <2>0, <4>3 DEF RInv
        <3>2. CASE m.alert.id \notin Elements(order[m.to])
            BY <2>0, <2>3, <3>2, FirstCopyRelays DEF RInv
        <3> QED BY <3>1, <3>2
    <2>4. CASE UNCHANGED vars
        <3>1. UNCHANGED <<queue, order, told, origin, dropped>> /\ net' = net
            BY <2>4 DEF vars
        <3> QED BY <2>0, <3>1, RepeatRelays DEF RInv
    <2> QED BY <2>1, <2>2, <2>3, <2>4 DEF Next
<1> QED BY <1>1, <1>2, PTL DEF Spec

(* When the relay of a connected network has come to rest, every drone was *)
(* told of every alert of which nothing was lost, if no path is longer     *)
(* than the hops carry it.                                                 *)
THEOREM EveryoneTold == Spec => []QuietMeansTold
<1>1. RInv => QuietMeansTold
    <2> SUFFICES ASSUME RInv, Connected, HopsSuffice, Quiet, Remembered,
                        NEW a \in Alerts \ dropped, NEW d \in Drones,
                        origin[a] # {}, d \notin origin[a]
                 PROVE  told[d][a] > 0
        BY DEF QuietMeansTold
    <2>1. \A e \in Reached(a) : InRange(e) \subseteq Reached(a)
        <3>1. Elements(<<>>) = {}
            BY EmptySeq DEF Elements
        <3>2. \A e \in Reached(a) : e \in Drones /\ Elements(queue[e]) = {}
            BY <3>1 DEF Reached, Quiet
        <3>3. ASSUME NEW e \in Reached(a), NEW f \in InRange(e)
              PROVE  f \in Reached(a)
            <4>1. f \in Reached(a) \/ Waits(e, a) \/ Comes(f, a)
                BY DEF RInv, PassedOn
            <4>2. ~Waits(e, a)
                BY <3>2 DEF Waits
            <4>3. net = {}
                BY DEF Quiet
            <4>4. ~Comes(f, a)
                BY <4>3 DEF Comes
            <4> QED BY <4>1, <4>2, <4>4
        <3> QED BY <3>3
    <2>2. Reached(a) \in (SUBSET Drones) \ {{}}
        <3>1. origin[a] \subseteq Drones
            BY DEF RInv, IInv, TypeOK
        <3> QED BY <3>1 DEF Reached
    <2>3. d \in Reached(a)
        BY <2>1, <2>2 DEF Connected
    <2> QED BY <2>3 DEF Reached
<1> QED BY <1>1, RelayPassesOn, PTL

(* The state keeps its shape, and a memory its bound.                      *)
THEOREM RelayTypes == Spec => []TypeOK
BY RelayInvariant, PTL DEF IInv

(* No drone is told of an alert twice, nor of its own, as long as the      *)
(* memory holds the alerts there are.                                      *)
THEOREM NobodyToldTwice == Spec => []ToldOnce
BY RelayInvariant, PTL DEF IInv
=============================================================================
