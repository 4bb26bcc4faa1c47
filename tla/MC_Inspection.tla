----------------------------- MODULE MC_Inspection -----------------------------
(* Instances of Inspection for TLC. *)
EXTENDS Inspection

CONSTANTS d1, d2, armed, bomb, zone

\* Every drone's two nearest by number are the two others.
AllOthers == [d \in Inspectors |-> Inspectors \ {d}]

\* OBJECT_PRIORITY puts armed persons and explosives before crowds; between the
\* two the level, the score and the confidence decide.
Ranks == [o \in Sources |-> IF o = zone THEN 2 ELSE IF o = bomb THEN 5 ELSE 6]
===============================================================================
