---------------------------- MODULE Remediation -----------------------------
(***************************************************************************)
(* What people do to one incident through the API: evaluate the candidate  *)
(* patches (ArenaEvaluator), decide on them (HumanApprovalGate), deploy    *)
(* the canary (CanarySimulator) and roll back (RollbackEngine).            *)
(*                                                                         *)
(* Requests run concurrently.  A handler reads the incident, checks its    *)
(* status and writes a new one in separate calls, without a transaction    *)
(* and without naming the status it expects, so every request may act on   *)
(* what it read before the others wrote.  The worker's job changes the     *)
(* status meanwhile; here it may do so at any time (module Investigation   *)
(* says when it does).                                                     *)
(*                                                                         *)
(* A definition introduced as a slip is used by no specification: it is    *)
(* a mistake this code could well contain, kept here to show that a        *)
(* property would notice it.                                               *)
(***************************************************************************)
EXTENDS Naturals, FiniteSets, IncidentStatus

CONSTANTS
    Requests,      \* requests, each serves one operation
    NoCase,        \* there is no evaluation case yet
    Candidates     \* number of candidate patches (2 in the route)

ASSUME RequestsAssumption == NoCase \notin Requests
ASSUME CandidatesAssumption == Candidates \in Nat \ {0}

VARIABLES
    status,        \* status of the incident
    cases,         \* evaluation cases, named by the request that created them
    latestCase,    \* the case created last
    responses,     \* candidate responses stored for each case
    approvals,     \* approval rows: who decided, on which case, and how
    op,            \* what each request asks for, "none" before it arrives
    at,            \* where its handler is
    seenCase       \* the latest case as an approval read it

records == <<cases, latestCase, responses, approvals>>
requestVars == <<records, op, at, seenCase>>
vars == <<status, requestVars>>

Decisions == {"APPROVED", "REJECTED"}
Operations == {"evaluate", "deploy", "rollback"} \cup Decisions

Locations ==
    {"new", "finding", "creating", "responding", "evaluated",
     "reviewing", "citing", "deciding", "applying",
     "checking", "starting", "rolling", "promoting", "reverting", "restoring",
     "done"}

TypeOK ==
    /\ status \in Statuses
    /\ cases \subseteq Requests
    /\ latestCase \in Requests \cup {NoCase}
    /\ responses \in [Requests -> 0..Candidates]
    /\ approvals \subseteq [by : Requests, case : Requests, decision : Decisions]
    /\ op \in [Requests -> Operations \cup {"none"}]
    /\ at \in [Requests -> Locations]
    /\ seenCase \in [Requests -> Requests \cup {NoCase}]

\* The incident was created; nobody has acted on it.
Init ==
    /\ status = "FAULT_INJECTED"
    /\ cases = {}
    /\ latestCase = NoCase
    /\ responses = [r \in Requests |-> 0]
    /\ approvals = {}
    /\ op = [r \in Requests |-> "none"]
    /\ at = [r \in Requests |-> "new"]
    /\ seenCase = [r \in Requests |-> NoCase]

\* The handler of r is at `from' and goes on to `to'.
Move(r, from, to) ==
    /\ at[r] = from
    /\ at' = [at EXCEPT ![r] = to]
    /\ UNCHANGED op

Entry == [evaluate |-> "finding", APPROVED |-> "reviewing", REJECTED |-> "reviewing",
          deploy |-> "checking", rollback |-> "reverting"]

\* A request arrives and the guards of its route let it pass.
Arrive(r) ==
    /\ at[r] = "new"
    /\ \E o \in Operations : /\ op' = [op EXCEPT ![r] = o]
                            /\ at' = [at EXCEPT ![r] = Entry[o]]
    /\ UNCHANGED <<status, records, seenCase>>

\* The handler goes on past a read that changes nothing, or answers 4xx.
Read(r, from, to, ok) ==
    /\ Move(r, from, IF ok THEN to ELSE "done")
    /\ UNCHANGED <<status, records, seenCase>>

\* An update of the incident's status, whatever the status is now.
Write(r, from, to, next) ==
    /\ Move(r, from, to)
    /\ status' = next
    /\ UNCHANGED <<records, seenCase>>

-----------------------------------------------------------------------------
(* POST .../evaluate                                                       *)

FindIncident(r) == Read(r, "finding", "creating", TRUE)

\* Slip: the incident is marked as evaluated along with its case.
CreateCaseEvaluated(r) ==
    /\ Move(r, "creating", "responding")
    /\ cases' = cases \cup {r}
    /\ latestCase' = r
    /\ status' = "EVALUATED"
    /\ UNCHANGED <<responses, approvals, seenCase>>

CreateCase(r) ==
    /\ Move(r, "creating", "responding")
    /\ cases' = cases \cup {r}
    /\ latestCase' = r
    /\ UNCHANGED <<status, responses, approvals, seenCase>>

StoreResponse(r) ==
    /\ Move(r, "responding",
            IF responses[r] + 1 = Candidates THEN "evaluated" ELSE "responding")
    /\ responses' = [responses EXCEPT ![r] = @ + 1]
    /\ UNCHANGED <<status, cases, latestCase, approvals, seenCase>>

\* The status is not checked: every status becomes EVALUATED.
WriteEvaluated(r) == Write(r, "evaluated", "done", "EVALUATED")

-----------------------------------------------------------------------------
(* POST .../approvals                                                      *)

\* Slip: any incident may be reviewed, whatever its status.
ReviewIncidentUnchecked(r) == Read(r, "reviewing", "citing", TRUE)

\* The incident is read, and its latest case by a second query.
ReviewIncident(r) ==
    Read(r, "reviewing", "citing", status \in {"EVALUATED", "APPROVED"})

\* The case a decision cites is picked here, not by the person who decides: it
\* is the one created last, perhaps since, and its evaluation may be under way.
ReadLatestCase(r) ==
    /\ Move(r, "citing", IF latestCase # NoCase THEN "deciding" ELSE "done")
    /\ seenCase' = [seenCase EXCEPT ![r] = latestCase]
    /\ UNCHANGED <<status, records>>

StoreApproval(r) ==
    /\ Move(r, "deciding", "applying")
    /\ approvals' = approvals \cup {[by |-> r, case |-> seenCase[r], decision |-> op[r]]}
    /\ UNCHANGED <<status, cases, latestCase, responses, seenCase>>

WriteDecision(r) ==
    Write(r, "applying", "done",
          IF op[r] = "APPROVED" THEN "APPROVED" ELSE "INVESTIGATING")

-----------------------------------------------------------------------------
(* POST .../canary/deploy and .../canary/rollback                          *)

\* Slip: the canary is started on an incident that was only evaluated.
CheckEvaluated(r) ==
    Read(r, "checking", "starting", status \in {"EVALUATED", "APPROVED", "DEPLOYED_CANARY"})

CheckApproved(r) ==
    Read(r, "checking", "starting", status \in {"APPROVED", "DEPLOYED_CANARY"})

StartCanary(r) == Write(r, "starting", "rolling", "DEPLOYED_CANARY")

\* The four traffic steps run without a database call: all are healthy, or
\* one breaches a threshold and the canary rolls itself back.
EvaluateSteps(r) ==
    \E healthy \in BOOLEAN :
        /\ Move(r, "rolling", IF healthy THEN "promoting" ELSE "reverting")
        /\ UNCHANGED <<status, records, seenCase>>

Promote(r) == Write(r, "promoting", "done", "RESOLVED")

\* RollbackEngine.executeRollback reads the incident only to see it exists.
ReadForRollback(r) == Read(r, "reverting", "restoring", TRUE)

\* Slip: the rollback puts the incident back to where it began.
WriteFaultInjected(r) == Write(r, "restoring", "done", "FAULT_INJECTED")

WriteRolledBack(r) == Write(r, "restoring", "done", "ROLLED_BACK")

-----------------------------------------------------------------------------

\* A guard refuses the request, a call rejects, or the API process dies:
\* what the handler has written stays.
GiveUp(r) ==
    /\ at[r] \notin {"new", "done"}
    /\ at' = [at EXCEPT ![r] = "done"]
    /\ UNCHANGED <<status, records, op, seenCase>>

Handle(r) ==
    \/ FindIncident(r) \/ CreateCase(r) \/ StoreResponse(r) \/ WriteEvaluated(r)
    \/ ReviewIncident(r) \/ ReadLatestCase(r) \/ StoreApproval(r) \/ WriteDecision(r)
    \/ CheckApproved(r) \/ StartCanary(r) \/ EvaluateSteps(r) \/ Promote(r)
    \/ ReadForRollback(r) \/ WriteRolledBack(r)

RequestNext == \E r \in Requests : Arrive(r) \/ Handle(r) \/ GiveUp(r)

\* The worker's job writes the status.
WorkerWritesStatus ==
    /\ status' \in WorkerWrites
    /\ UNCHANGED requestVars

Next == RequestNext \/ WorkerWritesStatus

Spec == Init /\ [][Next]_vars

\* The requests alone, with no job of the worker under way.
RequestSpec == Init /\ [][RequestNext]_vars

-----------------------------------------------------------------------------
(* Properties.                                                             *)

Complete(c) == c \in cases /\ responses[c] = Candidates

Approved == \E a \in approvals : a.decision = "APPROVED"

\* Nothing is approved, deployed or resolved unless a reviewer's decision to
\* approve was stored first, however stale what the handlers have read.
ShippedWasApproved ==
    /\ status \in {"APPROVED", "DEPLOYED_CANARY", "RESOLVED"} => Approved
    /\ \A r \in Requests : at[r] \in {"starting", "rolling", "promoting"} => Approved

\* An incident that was evaluated or decided on has an evaluation with all of
\* its candidates' responses.
EvaluatedHasCompleteCase ==
    status \in {"EVALUATED", "APPROVED", "DEPLOYED_CANARY", "RESOLVED"} =>
        \E c \in Requests : Complete(c)

\* No decision, to reject no more than to approve, is on record before some
\* evaluation has stored all of its responses, although the status is checked
\* long before and the case cited may be one whose evaluation never finishes.
DecidedAfterEvaluation == approvals # {} => \E c \in Requests : Complete(c)

\* "Immediately rolls back an in-flight ... canary deployment, restoring the
\* baseline": a canary that was rolled back is not promoted afterwards.
RolledBackIsNotPromoted ==
    [][\A r \in Requests : Promote(r) => status # "ROLLED_BACK"]_vars

=============================================================================
