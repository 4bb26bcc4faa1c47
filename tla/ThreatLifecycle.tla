---------------------------- MODULE ThreatLifecycle ----------------------------
(***************************************************************************)
(* What surveillance promises about threats, whatever tracks them: each    *)
(* threat moves along                                                      *)
(*                                                                         *)
(*   DETECTED / PENDING -> CONFIRMING -> CONFIRMED / CLEARED -> RESOLVED   *)
(*                                                                         *)
(* and never backwards, an identifier is used once, only a bounded number  *)
(* of threats is inspected at a time, and an inspection that has begun is  *)
(* brought to a verdict and then given up.                                 *)
(***************************************************************************)
EXTENDS Naturals, FiniteSets

CONSTANTS ThreatIds, Limit

VARIABLES stage,   \* where each threat is in its life
          inHand   \* the threats somebody inspects or returns from

lifeVars == <<stage, inHand>>

Doubtful == {"DETECTED", "PENDING_CONFIRMATION"}
Stages == Doubtful \cup
  {"UNBORN", "CONFIRMING", "CONFIRMED", "CLEARED", "RESOLVED", "GONE"}

LifeInit ==
  /\ stage = [t \in ThreatIds |-> "UNBORN"]
  /\ inHand = {}

IsBorn(t) ==
  /\ stage[t] = "UNBORN"
  /\ \E s \in Doubtful : stage' = [stage EXCEPT ![t] = s]
  /\ UNCHANGED inHand

StartsInspection(t) ==
  /\ stage[t] \in Doubtful
  /\ t \notin inHand
  /\ Cardinality(inHand) < Limit
  /\ stage' = [stage EXCEPT ![t] = "CONFIRMING"]
  /\ inHand' = inHand \cup {t}

IsJudged(t) ==
  /\ stage[t] = "CONFIRMING"
  /\ t \in inHand
  /\ \E s \in {"CONFIRMED", "CLEARED"} : stage' = [stage EXCEPT ![t] = s]
  /\ UNCHANGED inHand

EndsInspection(t) ==
  /\ t \in inHand
  /\ stage[t] # "CONFIRMING"
  /\ inHand' = inHand \ {t}
  /\ UNCHANGED stage

\* What time makes of a threat that nobody inspects or has confirmed.
Older(s) ==
  IF s \in Doubtful \cup {"CLEARED"} THEN "RESOLVED"
  ELSE IF s = "RESOLVED" THEN "GONE" ELSE s

ThreatsAge(ts) ==
  /\ stage' = [t \in ThreatIds |-> IF t \in ts THEN Older(stage[t]) ELSE stage[t]]
  /\ UNCHANGED inHand

LifeNext ==
  \/ \E t \in ThreatIds :
       IsBorn(t) \/ StartsInspection(t) \/ IsJudged(t) \/ EndsInspection(t)
  \/ \E ts \in SUBSET ThreatIds : ThreatsAge(ts)

LifeSafety == LifeInit /\ [][LifeNext]_lifeVars

\* An inspection comes to a verdict and the inspector to its own work again.
LifeSpec ==
  /\ LifeSafety
  /\ \A t \in ThreatIds : WF_lifeVars(IsJudged(t)) /\ WF_lifeVars(EndsInspection(t))
===============================================================================
