--------------------------- MODULE IncidentStatus ---------------------------
(***************************************************************************)
(* The statuses of an incident run and the rules of its life cycle: the    *)
(* enum of the schema and the table of the worker's state machine.         *)
(***************************************************************************)

Statuses == {"INITIATED", "FAULT_INJECTED", "INVESTIGATING", "REPRODUCED",
             "SOLUTIONS_GENERATED", "EVALUATED", "APPROVED", "DEPLOYED_CANARY",
             "RESOLVED", "ROLLED_BACK"}

\* ALLOWED_TRANSITIONS
AllowedTransitions == [s \in Statuses |->
    CASE s = "INITIATED" -> {"FAULT_INJECTED"}
      [] s = "FAULT_INJECTED" -> {"INVESTIGATING", "RESOLVED"}
      [] s = "INVESTIGATING" -> {"REPRODUCED", "RESOLVED"}
      [] s = "REPRODUCED" -> {"SOLUTIONS_GENERATED", "INVESTIGATING"}
      [] s = "SOLUTIONS_GENERATED" -> {"EVALUATED", "REPRODUCED"}
      [] s = "EVALUATED" -> {"APPROVED", "INVESTIGATING"}
      [] s = "APPROVED" -> {"DEPLOYED_CANARY", "ROLLED_BACK"}
      [] s = "DEPLOYED_CANARY" -> {"RESOLVED", "ROLLED_BACK"}
      [] s = "RESOLVED" -> {"INITIATED"}
      [] s = "ROLLED_BACK" -> {"INVESTIGATING", "RESOLVED"}]

\* IncidentStateMachine.isValidTransition
IsValidTransition(current, next) ==
    current = next \/ next \in AllowedTransitions[current]

\* The statuses the worker's job writes, and those the API's handlers write.
WorkerWrites == {"INVESTIGATING", "REPRODUCED"}
RequestWrites == {"EVALUATED", "APPROVED", "INVESTIGATING", "DEPLOYED_CANARY",
                  "RESOLVED", "ROLLED_BACK"}

=============================================================================
