---------------------- MODULE IncidentLifecycleProofs -----------------------
(***************************************************************************)
(* The worker's job and the requests of people, put together, are each     *)
(* what the other one's module assumes.  What was proved of each module by *)
(* itself, with the other side free to write the status at any time, then  *)
(* holds of the two together.                                              *)
(***************************************************************************)
EXTENDS IncidentLifecycle, TLAPS

\* All that the requests do to the status is to write one of RequestWrites.
LEMMA RequestsWrite ==
    People!RequestNext => status' \in RequestWrites \cup {status}
<1> SUFFICES ASSUME NEW r \in Requests,
                    People!Arrive(r) \/ People!Handle(r) \/ People!GiveUp(r)
             PROVE  status' \in RequestWrites \cup {status}
    BY DEF People!RequestNext
<1>1. CASE People!Arrive(r) \/ People!GiveUp(r)
    BY <1>1 DEF People!Arrive, People!GiveUp
<1>2. CASE People!FindIncident(r) \/ People!ReviewIncident(r) \/ People!CheckApproved(r)
           \/ People!ReadForRollback(r)
    BY <1>2 DEF People!FindIncident, People!ReviewIncident, People!CheckApproved,
        People!ReadForRollback, People!Read
<1>3. CASE People!CreateCase(r) \/ People!StoreResponse(r) \/ People!ReadLatestCase(r)
           \/ People!StoreApproval(r) \/ People!EvaluateSteps(r)
    BY <1>3 DEF People!CreateCase, People!StoreResponse, People!ReadLatestCase,
        People!StoreApproval, People!EvaluateSteps
<1>4. CASE People!WriteEvaluated(r) \/ People!WriteDecision(r) \/ People!StartCanary(r)
           \/ People!Promote(r) \/ People!WriteRolledBack(r)
    BY <1>4 DEF People!WriteEvaluated, People!WriteDecision, People!StartCanary,
        People!Promote, People!WriteRolledBack, People!Write, RequestWrites
<1> QED
    BY <1>1, <1>2, <1>3, <1>4 DEF People!Handle

\* All that the worker does to it is to write one of WorkerWrites.
LEMMA WorkerWritesOnly ==
    Worker!WorkerNext => status' \in WorkerWrites \cup {status}
<1> SUFFICES ASSUME Worker!WorkerNext PROVE status' \in WorkerWrites \cup {status}
    OBVIOUS
<1>1. CASE Worker!StartRun \/ Worker!Stall
    BY <1>1 DEF Worker!StartRun, Worker!Stall
<1>2. ASSUME NEW r \in Worker!Runs, Worker!Process(r) \/ Worker!Throw(r)
      PROVE  status' \in WorkerWrites \cup {status}
  <2>1. CASE Worker!Fail(r)
    BY <2>1 DEF Worker!Fail
  <2>2. CASE Worker!ReadForInvestigating(r) \/ Worker!ReadForReproduced(r)
    BY <2>1, <2>2 DEF Worker!ReadForInvestigating, Worker!ReadForReproduced, Worker!ReadStatus
  <2>3. CASE Worker!WriteInvestigating(r) \/ Worker!WriteReproduced(r)
    BY <2>3 DEF Worker!WriteInvestigating, Worker!WriteReproduced, Worker!WriteStatus,
        WorkerWrites
  <2>4. CASE Worker!CollectEvidence(r) \/ Worker!StoreHypothesis(r) \/ Worker!LoadScenario(r)
             \/ Worker!ConsultSpecialist(r) \/ Worker!Complete(r)
    BY <2>4 DEF Worker!CollectEvidence, Worker!StoreHypothesis, Worker!LoadScenario,
        Worker!ConsultSpecialist, Worker!Complete
  <2> QED
    BY <1>2, <2>1, <2>2, <2>3, <2>4 DEF Worker!Process, Worker!Throw
<1> QED
    BY <1>1, <1>2 DEF Worker!WorkerNext

\* The requests do to the status only what module Investigation allows for.
THEOREM ImplementsInvestigationModule == Spec => ImplementsInvestigation
<1>1. Init => Worker!Init
    BY DEF Init
<1>2. [Next]_vars => [Worker!Next]_(Worker!vars)
  <2>1. WorkerStep => Worker!Next
    BY DEF WorkerStep, Worker!Next
  <2>2. ASSUME RequestStep PROVE [Worker!Next]_(Worker!vars)
    <3>1. UNCHANGED Worker!workerVars
      BY <2>2 DEF RequestStep, workerVars, Worker!workerVars, Worker!artifacts, Worker!queue
    <3>2. status' \in RequestWrites \/ status' = status
      BY <2>2, RequestsWrite DEF RequestStep
    <3>3. CASE status' \in RequestWrites
      BY <3>1, <3>3
      DEF Worker!Next, Worker!RequestWritesStatus, RequestWrites, Worker!RequestWrites
    <3>4. CASE status' = status
      BY <3>1, <3>4 DEF Worker!vars
    <3> QED
      BY <3>2, <3>3, <3>4
  <2>3. UNCHANGED vars => UNCHANGED Worker!vars
    BY DEF vars, workerVars, Worker!vars, Worker!workerVars, Worker!artifacts, Worker!queue
  <2> QED
    BY <2>1, <2>2, <2>3 DEF Next
<1> QED
    BY <1>1, <1>2, PTL DEF Spec, ImplementsInvestigation, Worker!Spec

\* The worker does to the status only what module Remediation allows for.
THEOREM ImplementsRemediationModule == Spec => ImplementsRemediation
<1>1. Init => People!Init
    BY DEF Init
<1>2. [Next]_vars => [People!Next]_(People!vars)
  <2>1. RequestStep => People!Next
    BY DEF RequestStep, People!Next
  <2>2. ASSUME WorkerStep PROVE [People!Next]_(People!vars)
    <3>1. UNCHANGED People!requestVars
      BY <2>2 DEF WorkerStep, requestVars, People!requestVars, People!records
    <3>2. status' \in WorkerWrites \/ status' = status
      BY <2>2, WorkerWritesOnly DEF WorkerStep
    <3>3. CASE status' \in WorkerWrites
      BY <3>1, <3>3
      DEF People!Next, People!WorkerWritesStatus, WorkerWrites, People!WorkerWrites
    <3>4. CASE status' = status
      BY <3>1, <3>4 DEF People!vars
    <3> QED
      BY <3>2, <3>3, <3>4
  <2>3. UNCHANGED vars => UNCHANGED People!vars
    BY DEF vars, requestVars, People!vars, People!requestVars, People!records
  <2> QED
    BY <2>1, <2>2, <2>3 DEF Next
<1> QED
    BY <1>1, <1>2, PTL DEF Spec, ImplementsRemediation, People!Spec

-----------------------------------------------------------------------------

(* The theorems of the two proof modules, read for these variables.  They   *)
(* speak of the instances below; that these are the same specifications as *)
(* Worker and People takes no more than expanding both.                    *)

WorkerProofs == INSTANCE InvestigationProofs WITH at <- runAt
PeopleProofs == INSTANCE RemediationProofs WITH at <- requestAt

\* The instance the proofs speak of is the one of the composition.
LEMMA WorkerInstance == Worker!Spec => WorkerProofs!Spec
<1>1. Worker!Init => WorkerProofs!Init
  BY DEF Worker!Init, WorkerProofs!Init, Worker!Runs, WorkerProofs!Runs
<1>2. [Worker!Next]_(Worker!vars) => [WorkerProofs!Next]_(WorkerProofs!vars)
  BY DEF
      Worker!Next, WorkerProofs!Next, Worker!vars, WorkerProofs!vars,
      Worker!workerVars, WorkerProofs!workerVars, Worker!artifacts,
      WorkerProofs!artifacts, Worker!queue, WorkerProofs!queue, Worker!Runs,
      WorkerProofs!Runs, Worker!Go, WorkerProofs!Go, Worker!WorkerNext,
      WorkerProofs!WorkerNext, Worker!StartRun, WorkerProofs!StartRun, Worker!Stall,
      WorkerProofs!Stall, Worker!Process, WorkerProofs!Process, Worker!Throw,
      WorkerProofs!Throw, Worker!Fail, WorkerProofs!Fail, Worker!Complete,
      WorkerProofs!Complete, Worker!ReadStatus, WorkerProofs!ReadStatus,
      Worker!WriteStatus, WorkerProofs!WriteStatus, Worker!ReadForInvestigating,
      WorkerProofs!ReadForInvestigating, Worker!WriteInvestigating,
      WorkerProofs!WriteInvestigating, Worker!CollectEvidence,
      WorkerProofs!CollectEvidence, Worker!StoreHypothesis,
      WorkerProofs!StoreHypothesis, Worker!LoadScenario, WorkerProofs!LoadScenario,
      Worker!ConsultSpecialist, WorkerProofs!ConsultSpecialist,
      Worker!ReadForReproduced, WorkerProofs!ReadForReproduced,
      Worker!WriteReproduced, WorkerProofs!WriteReproduced,
      Worker!RequestWritesStatus, WorkerProofs!RequestWritesStatus,
      Worker!RequestWrites, WorkerProofs!RequestWrites, Worker!IsValidTransition,
      WorkerProofs!IsValidTransition, Worker!AllowedTransitions,
      WorkerProofs!AllowedTransitions, Worker!Statuses, WorkerProofs!Statuses,
      Worker!Specialists, WorkerProofs!Specialists, Worker!Ended, WorkerProofs!Ended
<1> QED
  BY <1>1, <1>2, PTL DEF Worker!Spec, WorkerProofs!Spec

\* What was proved of the worker's job by itself.
LEMMA WorkerTheorem == Worker!Spec => []WorkIsBacked
<1>1. WorkerProofs!Spec => []WorkerProofs!HypothesisCitesEvidence
  BY JobAssumption, WorkerProofs!EvidenceComesFirst
<1>2. WorkerProofs!Spec => []WorkerProofs!ReproducedIsSupported
  BY JobAssumption, WorkerProofs!ReproducedHasArtifacts
<1>3. WorkerProofs!Spec => []WorkerProofs!CompletedIsSupported
  BY JobAssumption, WorkerProofs!CompletedHasArtifacts
<1>4. WorkerProofs!Spec => []WorkerProofs!EffectsAreBounded
  BY JobAssumption, WorkerProofs!BoundedEffects
<1>5. WorkerProofs!HypothesisCitesEvidence => Worker!HypothesisCitesEvidence
  BY DEF WorkerProofs!HypothesisCitesEvidence, Worker!HypothesisCitesEvidence
<1>6. WorkerProofs!ReproducedIsSupported => Worker!ReproducedIsSupported
  BY DEF WorkerProofs!ReproducedIsSupported, Worker!ReproducedIsSupported,
      WorkerProofs!Supported, Worker!Supported, WorkerProofs!Specialists, Worker!Specialists,
      WorkerProofs!Runs, Worker!Runs
<1>7. WorkerProofs!CompletedIsSupported => Worker!CompletedIsSupported
  BY DEF WorkerProofs!CompletedIsSupported, Worker!CompletedIsSupported,
      WorkerProofs!Supported, Worker!Supported, WorkerProofs!Specialists, Worker!Specialists,
      WorkerProofs!Runs, Worker!Runs
<1>8. WorkerProofs!EffectsAreBounded => Worker!EffectsAreBounded
  BY DEF WorkerProofs!EffectsAreBounded, Worker!EffectsAreBounded,
      WorkerProofs!Cardinality, Worker!Cardinality
<1> QED
  BY WorkerInstance, <1>1, <1>2, <1>3, <1>4, <1>5, <1>6, <1>7, <1>8, PTL
  DEF WorkIsBacked

\* Likewise for the requests.
LEMMA PeopleInstance == People!Spec => PeopleProofs!Spec
<1>1. People!Init => PeopleProofs!Init
  BY DEF People!Init, PeopleProofs!Init
<1>2. [People!Next]_(People!vars) => [PeopleProofs!Next]_(PeopleProofs!vars)
  BY DEF
      People!Next, PeopleProofs!Next, People!vars, PeopleProofs!vars,
      People!requestVars, PeopleProofs!requestVars, People!records,
      PeopleProofs!records, People!Move, PeopleProofs!Move, People!Entry,
      PeopleProofs!Entry, People!Operations, PeopleProofs!Operations,
      People!Decisions, PeopleProofs!Decisions, People!RequestNext,
      PeopleProofs!RequestNext, People!Arrive, PeopleProofs!Arrive, People!Handle,
      PeopleProofs!Handle, People!GiveUp, PeopleProofs!GiveUp, People!Read,
      PeopleProofs!Read, People!Write, PeopleProofs!Write, People!FindIncident,
      PeopleProofs!FindIncident, People!CreateCase, PeopleProofs!CreateCase,
      People!StoreResponse, PeopleProofs!StoreResponse, People!WriteEvaluated,
      PeopleProofs!WriteEvaluated, People!ReviewIncident,
      PeopleProofs!ReviewIncident, People!ReadLatestCase,
      PeopleProofs!ReadLatestCase, People!StoreApproval, PeopleProofs!StoreApproval,
      People!WriteDecision, PeopleProofs!WriteDecision, People!CheckApproved,
      PeopleProofs!CheckApproved, People!StartCanary, PeopleProofs!StartCanary,
      People!EvaluateSteps, PeopleProofs!EvaluateSteps, People!Promote,
      PeopleProofs!Promote, People!ReadForRollback, PeopleProofs!ReadForRollback,
      People!WriteRolledBack, PeopleProofs!WriteRolledBack,
      People!WorkerWritesStatus, PeopleProofs!WorkerWritesStatus,
      People!WorkerWrites, PeopleProofs!WorkerWrites
<1> QED
  BY <1>1, <1>2, PTL DEF People!Spec, PeopleProofs!Spec

\* What was proved of the requests by themselves.
LEMMA PeopleTheorem == People!Spec => []DecisionsAreBacked
<1>1. PeopleProofs!Spec => []PeopleProofs!ShippedWasApproved
  BY PeopleAssumption, PeopleProofs!ShippingNeedsApproval
<1>2. PeopleProofs!Spec => []PeopleProofs!EvaluatedHasCompleteCase
  BY PeopleAssumption, PeopleProofs!EvaluationIsBacked
<1>3. PeopleProofs!Spec => []PeopleProofs!DecidedAfterEvaluation
  BY PeopleAssumption, PeopleProofs!DecisionsFollowEvaluation
<1>4. PeopleProofs!ShippedWasApproved => People!ShippedWasApproved
  BY DEF PeopleProofs!ShippedWasApproved, People!ShippedWasApproved,
      PeopleProofs!Approved, People!Approved
<1>5. PeopleProofs!EvaluatedHasCompleteCase => People!EvaluatedHasCompleteCase
  BY DEF PeopleProofs!EvaluatedHasCompleteCase, People!EvaluatedHasCompleteCase,
      PeopleProofs!Complete, People!Complete
<1>6. PeopleProofs!DecidedAfterEvaluation => People!DecidedAfterEvaluation
  BY DEF PeopleProofs!DecidedAfterEvaluation, People!DecidedAfterEvaluation,
      PeopleProofs!Complete, People!Complete
<1> QED
  BY PeopleInstance, <1>1, <1>2, <1>3, <1>4, <1>5, <1>6, PTL
  DEF DecisionsAreBacked

\* With requests writing the status at any time, hypotheses have their evidence,
\* a status or a finished job has the artifacts of one run behind it, and the
\* retries bound what is stored.
THEOREM WorkIsBackedTogether == Spec => []WorkIsBacked
BY WorkerTheorem, ImplementsInvestigationModule, PTL DEF ImplementsInvestigation

\* With the job writing the status at any time, nothing ships without a stored
\* approval, evaluations have their cases, and no decision precedes them all.
THEOREM DecisionsAreBackedTogether == Spec => []DecisionsAreBacked
BY PeopleTheorem, ImplementsRemediationModule, PTL DEF ImplementsRemediation

\* With requests writing the status at any time, the job of the incident
\* implements the contract of the queue: it ends once, and stays as it ended.
THEOREM JobContractTogether == Spec => Worker!ImplementsJobContract
<1>1. WorkerProofs!Contract!Init => Worker!Contract!Init
  BY DEF WorkerProofs!Contract!Init, Worker!Contract!Init, WorkerProofs!Stage, Worker!Stage
<1>2. [WorkerProofs!Contract!Next]_[j \in {"investigation"} |-> WorkerProofs!Stage]
        => [Worker!Contract!Next]_[j \in {"investigation"} |-> Worker!Stage]
  BY DEF WorkerProofs!Contract!Next, Worker!Contract!Next, WorkerProofs!Contract!Add,
      Worker!Contract!Add, WorkerProofs!Contract!Start, Worker!Contract!Start,
      WorkerProofs!Contract!Finish, Worker!Contract!Finish, WorkerProofs!Contract!Forget,
      Worker!Contract!Forget, WorkerProofs!Contract!Move, Worker!Contract!Move,
      WorkerProofs!Contract!Ended, Worker!Contract!Ended, WorkerProofs!Stage, Worker!Stage
<1>3. WorkerProofs!Spec => WorkerProofs!ImplementsJobContract
  BY JobAssumption, WorkerProofs!ImplementsContractOfQueue
<1>4. WorkerProofs!ImplementsJobContract => Worker!ImplementsJobContract
  BY <1>1, <1>2, PTL DEF WorkerProofs!ImplementsJobContract, Worker!ImplementsJobContract,
      WorkerProofs!Contract!Spec, Worker!Contract!Spec
<1> QED
  BY <1>3, <1>4, WorkerInstance, ImplementsInvestigationModule, PTL
  DEF ImplementsInvestigation

=============================================================================
