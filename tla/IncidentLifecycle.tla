------------------------- MODULE IncidentLifecycle --------------------------
(***************************************************************************)
(* One incident, with the worker's job (module Investigation) and the      *)
(* requests of people (module Remediation) changing its status at the same *)
(* time.  Each of the two modules leaves the other side of the status free *)
(* to write at any time; here the two sides are put together, and each is  *)
(* shown to be what the other one assumes.                                 *)
(***************************************************************************)
EXTENDS Naturals, IncidentStatus

CONSTANTS MaxAttempts, MaxStalls, MaxRuns, Requests, NoCase, Candidates

ASSUME JobAssumption == MaxAttempts \in Nat \ {0} /\ MaxStalls \in Nat /\ MaxRuns \in Nat
ASSUME PeopleAssumption == NoCase \notin Requests /\ Candidates \in Nat \ {0}

VARIABLES
    status,
    evidence, hypotheses, agentRuns, job, holder, started, attemptsMade, stalls, runAt,
    cases, latestCase, responses, approvals, op, requestAt, seenCase

Worker == INSTANCE Investigation WITH at <- runAt
People == INSTANCE Remediation WITH at <- requestAt

workerVars == <<evidence, hypotheses, agentRuns, job, holder, started, attemptsMade,
                stalls, runAt>>
requestVars == <<cases, latestCase, responses, approvals, op, requestAt, seenCase>>
vars == <<status, workerVars, requestVars>>

Init == Worker!Init /\ People!Init

WorkerStep == Worker!WorkerNext /\ UNCHANGED requestVars
RequestStep == People!RequestNext /\ UNCHANGED workerVars

Next == WorkerStep \/ RequestStep

Spec == Init /\ [][Next]_vars

-----------------------------------------------------------------------------
(* Properties.                                                             *)

\* The worker does to the status only what module Remediation allows for.
ImplementsRemediation == People!Spec

\* The requests do to the status only what module Investigation allows for.
ImplementsInvestigation == Worker!Spec

\* While people evaluate, decide and ship: what the worker has stored is all
\* there, from one run, and not stored more often than the queue retries.
WorkIsBacked ==
    /\ Worker!HypothesisCitesEvidence
    /\ Worker!ReproducedIsSupported
    /\ Worker!CompletedIsSupported
    /\ Worker!EffectsAreBounded

\* While the worker investigates, however late its runs: nothing ships without
\* an approval, and nothing is decided without an evaluation.
DecisionsAreBacked ==
    /\ People!ShippedWasApproved
    /\ People!EvaluatedHasCompleteCase
    /\ People!DecidedAfterEvaluation

\* "Atomically transitions an incident to the next state ..., throwing an
\* error if the transition violates lifecycle rules": no write of the worker
\* makes a step the table does not allow.
WorkerTransitionsAreLegal ==
    [][WorkerStep => IsValidTransition(status, status')]_vars

=============================================================================
