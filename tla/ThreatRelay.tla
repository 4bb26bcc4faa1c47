----------------------------- MODULE ThreatRelay -----------------------------
(***************************************************************************)
(* The FANET relay of AlphaRegimentCoordinator: a drone that sees a threat *)
(* sends an alert, every drone that hears it for the first time is told    *)
(* and passes it on, a bounded number of times                             *)
(* (src/src/swarm/coordination/regiment_coordinator.py).                   *)
(*                                                                         *)
(* The network is outside src/: a send reaches any of the drones in range, *)
(* by messages that arrive in any order and after any delay.               *)
(***************************************************************************)
EXTENDS Integers, Sequences, FiniteSets

CONSTANTS
    Drones,
    Links,      \* the pairs of drones in range of each other
    Spotters,   \* the drones that broadcast alerts
    Alerts,     \* threat ids, each fresh when it is broadcast
    Hops,       \* fanet_relay_hops
    Memory      \* the bound of _relayed_threat_order

ASSUME RelayAssumption ==
    /\ Hops \in Nat /\ Memory \in Nat \ {0}
    /\ Spotters \subseteq Drones /\ Links \subseteq SUBSET Drones

VARIABLES
    queue,      \* queue[d]: _threat_queue, what the next step of d sends
    order,      \* order[d]: _relayed_threat_order, whose members are _relayed_threat_ids
    told,       \* told[d][a]: how often d's callback was given alert a, 2 for oftener
    origin,     \* origin[a]: the drones that broadcast a
    net,        \* messages under way
    dropped     \* alerts of which a send or a message was lost

vars == <<queue, order, told, origin, net, dropped>>

Alert(a, hops) == [id |-> a, hops |-> hops]
Message(d, alert) == [to |-> d, alert |-> alert]
Elements(s) == {s[k] : k \in DOMAIN s}
InRange(d) == {e \in Drones \ {d} : {d, e} \in Links}

Init ==
    /\ queue = [d \in Drones |-> <<>>]
    /\ order = [d \in Drones |-> <<>>]
    /\ told = [d \in Drones |-> [a \in Alerts |-> 0]]
    /\ origin = [a \in Alerts |-> {}]
    /\ net = {}
    /\ dropped = {}

\* _track_relayed_threat evicts the oldest id of a full memory.
Track(s, a) == Append(IF Len(s) >= Memory THEN Tail(s) ELSE s, a)

\* (Plausible bug, for mutation runs: the alert goes out without its hops, and
\* a receiver takes 0 for them.)
Broadcast_NoHops(d, a) ==
    /\ d \in Spotters
    /\ origin[a] = {}
    /\ origin' = [origin EXCEPT ![a] = {d}]
    /\ queue' = [queue EXCEPT ![d] = Append(@, Alert(a, 0))]
    /\ order' = [order EXCEPT ![d] = Track(@, a)]
    /\ UNCHANGED <<told, net, dropped>>

Broadcast(d, a) ==
    /\ d \in Spotters
    /\ origin[a] = {}
    /\ origin' = [origin EXCEPT ![a] = {d}]
    /\ queue' = [queue EXCEPT ![d] = Append(@, Alert(a, Hops))]
    /\ order' = [order EXCEPT ![d] = Track(@, a)]
    /\ UNCHANGED <<told, net, dropped>>

\* The hops an alert is passed on with; none are left for one that is not.
\* (Plausible bug, for mutation runs: the hops are not counted down.)
Passed_Uncounted(alert) == IF alert.hops > 0 THEN <<alert>> ELSE <<>>
Passed(alert) == IF alert.hops > 0 THEN <<Alert(alert.id, alert.hops - 1)>> ELSE <<>>

\* (Plausible bug, for mutation runs: the receiver does not remember the alert.)
ReceiveThreatRelay_Untracked(m) ==
    /\ m \in net
    /\ net' = net \ {m}
    /\ IF m.alert.id \in Elements(order[m.to])
       THEN UNCHANGED <<queue, told>>
       ELSE /\ told' = [told EXCEPT ![m.to][m.alert.id] = IF @ = 2 THEN 2 ELSE @ + 1]
            /\ queue' = [queue EXCEPT ![m.to] = @ \o Passed(m.alert)]
    /\ UNCHANGED <<order, origin, dropped>>

ReceiveThreatRelay(m) ==
    /\ m \in net
    /\ net' = net \ {m}
    /\ IF m.alert.id \in Elements(order[m.to])
       THEN UNCHANGED <<queue, order, told>>
       ELSE /\ order' = [order EXCEPT ![m.to] = Track(@, m.alert.id)]
            /\ told' = [told EXCEPT ![m.to][m.alert.id] = IF @ = 2 THEN 2 ELSE @ + 1]
            /\ queue' = [queue EXCEPT ![m.to] = @ \o Passed(m.alert)]
    /\ UNCHANGED <<origin, dropped>>

\* The whole queue is sent.  What the network does not take up is lost: a
\* send that raises, a drone without a network, a message on its way.
Sent(d) == {Message(e, alert) : e \in InRange(d), alert \in Elements(queue[d])}

ProcessThreatQueue(d) ==
    /\ queue[d] # <<>>
    /\ queue' = [queue EXCEPT ![d] = <<>>]
    /\ \E taken \in SUBSET Sent(d) :
        /\ net' = net \cup taken
        /\ dropped' = dropped \cup {m.alert.id : m \in Sent(d) \ taken}
    /\ UNCHANGED <<order, told, origin>>

Next ==
    \/ \E d \in Drones : ProcessThreatQueue(d) \/ \E a \in Alerts : Broadcast(d, a)
    \/ \E m \in net : ReceiveThreatRelay(m)

\* The coordination loop keeps calling the step, and what the network took up
\* arrives in the end.
Spec ==
    /\ Init /\ [][Next]_vars
    /\ \A d \in Drones : WF_vars(ProcessThreatQueue(d))
    /\ WF_vars(\E m \in net : ReceiveThreatRelay(m))

-----------------------------------------------------------------------------
(* Properties.                                                             *)

AlertOf == [id : Alerts, hops : 0 .. Hops]

\* Queues and messages carry alerts with hops left to spend, and a drone
\* remembers as many as its memory holds.
TypeOK ==
    /\ queue \in [Drones -> Seq(AlertOf)]
    /\ order \in [Drones -> Seq(Alerts)]
    /\ \A d \in Drones : Len(order[d]) <= Memory
    /\ told \in [Drones -> [Alerts -> 0 .. 2]]
    /\ origin \in [Alerts -> SUBSET Drones]
    /\ net \subseteq [to : Drones, alert : AlertOf]
    /\ dropped \subseteq Alerts

\* No drone is told of an alert twice, nor of one it sent itself, however
\* many copies reach it and in whatever order, as long as its memory holds
\* the alerts there are.
Sighted == {a \in Alerts : origin[a] # {}}
Remembered == Cardinality(Sighted) <= Memory
ToldOnce ==
    Remembered =>
        \A d \in Drones : \A a \in Alerts : told[d][a] <= IF d \in origin[a] THEN 0 ELSE 1

\* The drones along a path, each in range of the one before, none twice.
Paths(n) ==
    {p \in [1 .. n -> Drones] :
        /\ \A j, k \in 1 .. n : p[j] = p[k] => j = k
        /\ \A k \in 1 .. n - 1 : p[k + 1] \in InRange(p[k])}

\* The hops suffice when no path is longer than they carry an alert: the
\* first copy decides how far a drone passes it on, and it need not be the
\* one that took the shortest path.
HopsSuffice == Paths(Hops + 3) = {}
Connected ==
    \A S \in (SUBSET Drones) \ {{}} : (\A d \in S : InRange(d) \subseteq S) => S = Drones

\* When the relay of a connected network has come to rest, every drone was
\* told of every alert of which nothing was lost, if the hops suffice.  A
\* drone that has forgotten an alert lengthens the paths, so the memory must
\* hold the alerts there are.
Quiet == net = {} /\ \A d \in Drones : queue[d] = <<>>
QuietMeansTold ==
    Connected /\ HopsSuffice =>
        (Quiet /\ Remembered => \A a \in Alerts \ dropped : \A d \in Drones :
                origin[a] # {} /\ d \notin origin[a] => told[d][a] > 0)

\* Alerts die out, even those that come back to drones that have forgotten
\* them.
AlertsDieOut == <>[]Quiet
=============================================================================
