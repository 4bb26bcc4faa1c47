----------------------------- MODULE MissionPolicy -----------------------------
(***************************************************************************)
(* The mission policy (response/mission_policy.py): whether a threat is to *)
(* be inspected from close by.  The gates are asked in the code's order    *)
(* and the first that applies decides.  No caller in the package passes an *)
(* operator override or a communication state, so those gates never apply  *)
(* and are left out.                                                       *)
(***************************************************************************)
EXTENDS Naturals

CONSTANTS Crowds,         \* sources that are crowds
          Facades,        \* sources that need a scan of a facade
          Critical,       \* sources whose score reaches critical_threat_threshold
          UnsafeCorridor, \* sources a drone cannot descend to
          RankOf,         \* OBJECT_PRIORITY and the further keys of the order
          MaxInspectors   \* max_active_inspectors

EvaluateThreat_OneMore(o, multi, inspecting, covered) ==
  IF o \in Crowds THEN "CROWD_RETASK"
  ELSE IF inspecting > MaxInspectors THEN "HOLD"
  ELSE IF ~multi \/ o \notin Critical \/ ~covered THEN "HOLD"
  ELSE IF o \in UnsafeCorridor THEN "ABORT"
  ELSE IF o \in Facades THEN "EXECUTE_FACADE_SCAN" ELSE "DESCEND"

\* evaluate_threat, for a threat of source o: `multi` says that enough kinds
\* of sensors have seen it, `inspecting` is the number of active inspections
\* and `covered` says that the sectors are covered well enough.
EvaluateThreat(o, multi, inspecting, covered) ==
  IF o \in Crowds THEN "CROWD_RETASK"
  ELSE IF inspecting >= MaxInspectors THEN "HOLD"
  ELSE IF ~multi \/ o \notin Critical \/ ~covered THEN "HOLD"
  ELSE IF o \in UnsafeCorridor THEN "ABORT"
  ELSE IF o \in Facades THEN "EXECUTE_FACADE_SCAN" ELSE "DESCEND"

Descents == {"DESCEND", "EXECUTE_FACADE_SCAN"}

\* _priority_sort_key: the more urgent source first, then the older threat.
Before(t, o, u, p) ==
  RankOf[o] > RankOf[p] \/ (RankOf[o] = RankOf[p] /\ t < u)
===============================================================================
