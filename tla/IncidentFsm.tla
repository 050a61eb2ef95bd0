---------------------------- MODULE IncidentFsm ----------------------------
(***************************************************************************)
(* What the incident state machine promises about the incidents, whatever  *)
(* alerts, people, agents or remediations move them: the table             *)
(* INCIDENT_TRANSITIONS of domain/enums.py and nothing else.  The detailed *)
(* incident modules are shown to implement this one, or shown where they   *)
(* do not.                                                                 *)
(***************************************************************************)

CONSTANT IncidentId

VARIABLE status       \* of each incident; "NONE" until its row is inserted

IncidentStatus ==
  {"DETECTED", "INVESTIGATING", "ACKNOWLEDGED", "MITIGATING", "RESOLVED", "CLOSED"}

INCIDENT_TRANSITIONS ==
  [DETECTED      |-> {"INVESTIGATING", "ACKNOWLEDGED", "RESOLVED", "CLOSED"},
   INVESTIGATING |-> {"ACKNOWLEDGED", "MITIGATING", "RESOLVED", "CLOSED"},
   ACKNOWLEDGED  |-> {"INVESTIGATING", "MITIGATING", "RESOLVED", "CLOSED"},
   MITIGATING    |-> {"INVESTIGATING", "RESOLVED", "CLOSED"},
   RESOLVED      |-> {"CLOSED", "INVESTIGATING"},
   CLOSED        |-> {}]

OPEN_INCIDENT_STATUSES == {"DETECTED", "INVESTIGATING", "ACKNOWLEDGED", "MITIGATING"}

Init == status = [i \in IncidentId |-> "NONE"]

Detect(i) ==
  /\ status[i] = "NONE"
  /\ status' = [status EXCEPT ![i] = "DETECTED"]

Move(i) ==
  /\ status[i] \in IncidentStatus
  /\ \E to \in INCIDENT_TRANSITIONS[status[i]] : status' = [status EXCEPT ![i] = to]

Next == \E i \in IncidentId : Detect(i) \/ Move(i)

Spec == Init /\ [][Next]_status
=============================================================================
