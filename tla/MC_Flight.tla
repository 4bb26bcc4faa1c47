----------------------------- MODULE MC_Flight -----------------------------
(* Instances of FlightController for TLC.                                  *)
EXTENDS FlightController, TLC

\* A place to fly to, one outside the fence, and one above it.
SomePlaces == {"home", "wp", "far", "top"}
Under == [p \in SomePlaces |-> IF p = "top" THEN "wp" ELSE p]

AnyCaller == Permutations(Callers)
=============================================================================
