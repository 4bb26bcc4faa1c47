----------------------------- MODULE ThreatManager -----------------------------
(***************************************************************************)
(* The threat manager (surveillance/threat_manager.py): threats, their     *)
(* status and the guidance ("shepherd") of whoever inspects them.          *)
(*                                                                         *)
(* A threat is numbered by _threat_counter; ABSENT is a number not used    *)
(* yet or pruned.  Times are abstracted: due[t] says that the age limit    *)
(* of the threat's present status has passed (120 s for a doubtful threat, *)
(* 30 s for a cleared and 60 s for a resolved one).                        *)
(*                                                                         *)
(* The maps from event and zone identifiers to threats are left out:       *)
(* change_detection.py:179 and drone_types.py:796 make a new identifier    *)
(* for every report, so report_change and report_crowd_risk never find an  *)
(* earlier one and always create a threat.                                 *)
(***************************************************************************)
EXTENDS Integers, FiniteSets

CONSTANTS Sources,     \* the objects and crowd zones that cause threats
          HighScore,   \* those whose score reaches threat_score_threshold
          Inspectors,  \* the drones that may be sent to inspect
          NoDrone,
          MaxThreats   \* bound of the model on _threat_counter

ASSUME ThreatsAssumption ==
  /\ MaxThreats \in Nat /\ Sources # {}
  /\ HighScore \subseteq Sources
  /\ NoDrone \notin Inspectors

VARIABLES counter, status, source, inspector, due, shepherds

threatVars == <<counter, status, source, inspector, due, shepherds>>

ThreatIds == 1..MaxThreats
Doubtful  == {"DETECTED", "PENDING_CONFIRMATION"}
Waiting   == Doubtful \cup {"CLEARED", "RESOLVED"}   \* those that age
Statuses  == Waiting \cup {"ABSENT", "CONFIRMING", "CONFIRMED"}

ThreatsInit ==
  /\ counter   = 0
  /\ status    = [t \in ThreatIds |-> "ABSENT"]
  /\ source    = [t \in ThreatIds |-> CHOOSE o \in Sources : TRUE]
  /\ inspector = [t \in ThreatIds |-> NoDrone]
  /\ due       = [t \in ThreatIds |-> FALSE]
  /\ shepherds = {}

ScoredStatus(o) == IF o \in HighScore THEN "PENDING_CONFIRMATION" ELSE "DETECTED"

\* report_change / report_crowd_risk, of a source seen just now.
ReportThreat(o) ==
  /\ counter < MaxThreats
  /\ counter' = counter + 1
  /\ status'  = [status EXCEPT ![counter'] = ScoredStatus(o)]
  /\ source'  = [source EXCEPT ![counter'] = o]
  /\ UNCHANGED <<inspector, due, shepherds>>

\* request_inspection, when it accepts: the nearest of the drones offered.
RequestInspection(t, d) ==
  /\ status[t] \in Doubtful
  /\ status'    = [status EXCEPT ![t] = "CONFIRMING"]
  /\ inspector' = [inspector EXCEPT ![t] = d]
  /\ due'       = [due EXCEPT ![t] = FALSE]
  /\ shepherds' = shepherds \cup {t}
  /\ UNCHANGED <<counter, source>>

\* confirm_threat; it takes any status.
ConfirmThreat(t, real) ==
  /\ status[t] # "ABSENT"
  /\ status'    = [status EXCEPT ![t] = IF real THEN "CONFIRMED" ELSE "CLEARED"]
  /\ due'       = [due EXCEPT ![t] = FALSE]
  /\ shepherds' = shepherds \ {t}
  /\ UNCHANGED <<counter, source, inspector>>

\* update: doubtful and cleared threats resolve, resolved ones are pruned.
Aged_KeepsCleared(t) ==
  IF ~due[t] THEN status[t]
  ELSE IF status[t] \in Doubtful THEN "RESOLVED"
  ELSE IF status[t] = "RESOLVED" THEN "ABSENT" ELSE status[t]

Aged(t) ==
  IF ~due[t] THEN status[t]
  ELSE IF status[t] \in Doubtful \cup {"CLEARED"} THEN "RESOLVED"
  ELSE IF status[t] = "RESOLVED" THEN "ABSENT" ELSE status[t]

UpdateThreats ==
  /\ status' = [t \in ThreatIds |-> Aged(t)]
  /\ due'    = [t \in ThreatIds |-> FALSE]
  /\ inspector' = [t \in ThreatIds |-> IF Aged(t) = "ABSENT" THEN NoDrone ELSE inspector[t]]
  /\ UNCHANGED <<counter, source, shepherds>>

\* The age limit of the threat's status passes.
TimePasses(t) ==
  /\ status[t] \in Waiting
  /\ ~due[t]
  /\ due' = [due EXCEPT ![t] = TRUE]
  /\ UNCHANGED <<counter, status, source, inspector, shepherds>>

ThreatsTypeOK ==
  /\ counter   \in 0..MaxThreats
  /\ status    \in [ThreatIds -> Statuses]
  /\ source    \in [ThreatIds -> Sources]
  /\ inspector \in [ThreatIds -> Inspectors \cup {NoDrone}]
  /\ due       \in [ThreatIds -> BOOLEAN]
  /\ shepherds \subseteq ThreatIds
===============================================================================
