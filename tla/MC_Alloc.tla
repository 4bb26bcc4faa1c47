------------------------------- MODULE MC_Alloc -------------------------------
(* Instances of SwarmAllocation for TLC. *)
EXTENDS SwarmAllocation
NoRtl == [d \in Drones |-> {}]
Rtl0 == [d \in Drones |-> IF d = 0 THEN {"rtl_0"} ELSE {}]

\* Both drones want s0, the second one more; s1 may be out of a drone's reach.
SomeScore ==
  [d \in Drones |-> [t \in Tasks |->
     CASE t = "s0" -> {1 + d} [] t = "s1" -> {-1, 1} [] OTHER -> {1}]]

\* One drone is better at s0, the other at s1.
Distinct ==
  [d \in Drones |-> [t \in Tasks |-> IF t = "s0" THEN {1 + d} ELSE {3 - d}]]

\* Only drone 1 can fly s0, and it is better at s1, which it prefers.  (Scores
\* that may or may not be feasible would let fairness choose the feasible one.)
OneForBoth ==
  [d \in Drones |-> [t \in Tasks |->
     IF t = "s1" THEN {2 + d} ELSE IF d = 0 THEN {-1} ELSE {2}]]
===============================================================================
