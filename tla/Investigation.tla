--------------------------- MODULE Investigation ----------------------------
(***************************************************************************)
(* The investigation job of one incident: the processor of the incident    *)
(* worker, the specialists it consults (AgentOrchestrator) and the retries *)
(* of the job queue around it.                                             *)
(*                                                                         *)
(* The queue (BullMQ) runs the job until one run returns, at most          *)
(* MaxAttempts times if runs throw.  A run that loses its lock is stalled: *)
(* the queue starts another one, but nothing stops the first, so two runs  *)
(* of one job may overlap.  IncidentStateMachine.transition is a plain     *)
(* read followed by a write, two steps.  The handlers of the API change    *)
(* the status meanwhile; here they may do so at any time (module           *)
(* Remediation says when they do).                                         *)
(*                                                                         *)
(* The early return for a job without an incident is left out: the one     *)
(* route that enqueues an event puts the incident's id into its payload.   *)
(*                                                                         *)
(* A definition introduced as a slip is used by no specification: it is    *)
(* a mistake this code could well contain, kept here to show that a        *)
(* property would notice it.                                               *)
(***************************************************************************)
EXTENDS Naturals, FiniteSets, IncidentStatus

CONSTANTS
    MaxAttempts,   \* attempts of DEFAULT_JOB_OPTIONS (3 in the code)
    MaxStalls,     \* maxStalledCount of the queue (1, its default)
    MaxRuns        \* bound: runs the model has names for

ASSUME AttemptsAssumption ==
    MaxAttempts \in Nat \ {0} /\ MaxStalls \in Nat /\ MaxRuns \in Nat

VARIABLES
    status,        \* status of the incident
    evidence,      \* runs that stored an evidence artifact
    hypotheses,    \* runs that stored a hypothesis, which cites their evidence
    agentRuns,     \* for each run, how many specialists' rows it has stored
    job,           \* state of the job in the queue
    holder,        \* the run that holds the job's lock, 0 if none does
    started,       \* runs started so far
    attemptsMade,  \* runs that threw while they held the lock
    stalls,        \* how often the job was found stalled
    at             \* where each run is

artifacts == <<evidence, hypotheses, agentRuns>>
queue == <<job, holder, started, attemptsMade, stalls>>
workerVars == <<artifacts, queue, at>>
vars == <<status, workerVars>>

Runs == 1..MaxRuns

\* TRIAGE, BACKEND, VERIFICATION and SAFETY
Specialists == 4

Ended == {"unstarted", "returned", "thrown"}

Locations == Ended \cup
    {"opening", "opened", "collecting", "explaining", "loading", "consulting",
     "closing", "closed", "returning"}

TypeOK ==
    /\ status \in Statuses
    /\ evidence \subseteq Runs
    /\ hypotheses \subseteq Runs
    /\ agentRuns \in [Runs -> 0..Specialists]
    /\ job \in {"waiting", "active", "completed", "failed"}
    /\ holder \in 0..MaxRuns
    /\ started \in 0..MaxRuns
    /\ attemptsMade \in 0..MaxAttempts
    /\ stalls \in 0..(MaxStalls + 1)
    /\ at \in [Runs -> Locations]

\* The incident was created and its job was handed to the queue.
Init ==
    /\ status = "FAULT_INJECTED"
    /\ evidence = {}
    /\ hypotheses = {}
    /\ agentRuns = [r \in Runs |-> 0]
    /\ job = "waiting"
    /\ holder = 0
    /\ started = 0
    /\ attemptsMade = 0
    /\ stalls = 0
    /\ at = [r \in Runs |-> "unstarted"]

Go(r, l) == at' = [at EXCEPT ![r] = l]

-----------------------------------------------------------------------------
(* The job queue.                                                          *)

StartRun ==
    /\ job = "waiting"
    /\ started < MaxRuns
    /\ started' = started + 1
    /\ job' = "active"
    /\ holder' = started + 1
    /\ Go(started + 1, "opening")
    /\ UNCHANGED <<status, artifacts, attemptsMade, stalls>>

\* Slip: the job is not moved to the completed set.
CompleteWithoutMoving(r) ==
    /\ at[r] = "returning"
    /\ Go(r, "returned")
    /\ UNCHANGED <<status, artifacts, queue>>

\* Slip: the queue does not ask whether the run still holds the job's lock.
CompleteAnyhow(r) ==
    /\ at[r] = "returning"
    /\ Go(r, "returned")
    /\ job' = "completed" /\ holder' = 0
    /\ UNCHANGED <<status, artifacts, started, attemptsMade, stalls>>

\* The processor returned: the job is completed if the run still holds it.
Complete(r) ==
    /\ at[r] = "returning"
    /\ Go(r, "returned")
    /\ IF holder = r
       THEN job' = "completed" /\ holder' = 0
       ELSE UNCHANGED <<job, holder>>
    /\ UNCHANGED <<status, artifacts, started, attemptsMade, stalls>>

\* Slip: a failed attempt is not counted.
FailUncounted(r) ==
    /\ Go(r, "thrown")
    /\ IF holder = r THEN job' = "waiting" /\ holder' = 0 ELSE UNCHANGED <<job, holder>>
    /\ UNCHANGED <<status, artifacts, started, attemptsMade, stalls>>

\* The processor threw: another attempt, as long as there is one left.
Fail(r) ==
    /\ Go(r, "thrown")
    /\ IF holder = r
       THEN /\ attemptsMade' = attemptsMade + 1
            /\ job' = IF attemptsMade + 1 < MaxAttempts THEN "waiting" ELSE "failed"
            /\ holder' = 0
       ELSE UNCHANGED <<attemptsMade, job, holder>>
    /\ UNCHANGED <<status, artifacts, started, stalls>>

\* The lock was not renewed in time, because the worker died or was busy.
Stall ==
    /\ job = "active"
    /\ stalls' = stalls + 1
    /\ job' = IF stalls < MaxStalls THEN "waiting" ELSE "failed"
    /\ holder' = 0
    /\ UNCHANGED <<status, artifacts, started, attemptsMade, at>>

-----------------------------------------------------------------------------
(* The processor.                                                          *)

\* Slip: a transition that is not allowed ends the run as if it had succeeded.
ReadStatusOrReturn(r, from, to, next) ==
    /\ at[r] = from
    /\ Go(r, IF IsValidTransition(status, next) THEN to ELSE "returning")
    /\ UNCHANGED <<status, artifacts, queue>>

\* IncidentStateMachine.transition, first half: read, check, or throw.
ReadStatus(r, from, to, next) ==
    /\ at[r] = from
    /\ IF IsValidTransition(status, next)
       THEN Go(r, to) /\ UNCHANGED <<status, artifacts, queue>>
       ELSE Fail(r)

\* Second half: the update, which names no status it expects.
WriteStatus(r, from, to, next) ==
    /\ at[r] = from
    /\ status' = next
    /\ Go(r, to)
    /\ UNCHANGED <<artifacts, queue>>

ReadForInvestigating(r) == ReadStatus(r, "opening", "opened", "INVESTIGATING")

\* Slip: the hypothesis is stored before the evidence.
WriteInvestigatingThenExplain(r) == WriteStatus(r, "opened", "explaining", "INVESTIGATING")

WriteInvestigating(r) == WriteStatus(r, "opened", "collecting", "INVESTIGATING")

CollectEvidence(r) ==
    /\ at[r] = "collecting"
    /\ evidence' = evidence \cup {r}
    /\ Go(r, "explaining")
    /\ UNCHANGED <<status, hypotheses, agentRuns, queue>>

StoreHypothesis(r) ==
    /\ at[r] = "explaining"
    /\ hypotheses' = hypotheses \cup {r}
    /\ Go(r, "loading")
    /\ UNCHANGED <<status, evidence, agentRuns, queue>>

\* Slip: an incident whose scenario is not found skips the specialists.
LoadScenarioOrSkip(r) ==
    /\ at[r] = "loading"
    /\ Go(r, "consulting") \/ Go(r, "closing")
    /\ UNCHANGED <<status, artifacts, queue>>

\* The incident is read with its scenario, which every incident has.
LoadScenario(r) ==
    /\ at[r] = "loading"
    /\ Go(r, "consulting")
    /\ UNCHANGED <<status, artifacts, queue>>

\* runInvestigation: one specialist after the other, a row after each.
ConsultSpecialist(r) ==
    /\ at[r] = "consulting"
    /\ agentRuns' = [agentRuns EXCEPT ![r] = @ + 1]
    /\ Go(r, IF agentRuns[r] + 1 = Specialists THEN "closing" ELSE "consulting")
    /\ UNCHANGED <<status, evidence, hypotheses, queue>>

ReadForReproduced(r) == ReadStatus(r, "closing", "closed", "REPRODUCED")

\* Slip: the job ends with the status ARCHITECTURE.md draws.
WriteReproducedAsEvaluated(r) == WriteStatus(r, "closed", "returning", "EVALUATED")

WriteReproduced(r) == WriteStatus(r, "closed", "returning", "REPRODUCED")

\* Any call of the processor may reject.
Throw(r) ==
    /\ at[r] \notin Ended \cup {"returning"}
    /\ Fail(r)

Process(r) ==
    \/ ReadForInvestigating(r) \/ WriteInvestigating(r)
    \/ CollectEvidence(r) \/ StoreHypothesis(r) \/ LoadScenario(r)
    \/ ConsultSpecialist(r)
    \/ ReadForReproduced(r) \/ WriteReproduced(r)
    \/ Complete(r)

WorkerNext ==
    \/ StartRun
    \/ Stall
    \/ \E r \in Runs : Process(r) \/ Throw(r)

-----------------------------------------------------------------------------

\* A handler of the API writes the status.
RequestWritesStatus ==
    /\ status' \in RequestWrites
    /\ UNCHANGED workerVars

Next == WorkerNext \/ RequestWritesStatus

Spec == Init /\ [][Next]_vars

\* The queue starts a waiting job, and the run that holds the lock goes on:
\* one that does not is found stalled.  Runs without the lock owe nothing.
Fairness ==
    /\ WF_vars(StartRun)
    /\ WF_vars(\E r \in Runs : holder = r /\ Process(r))

FairSpec == Spec /\ Fairness

-----------------------------------------------------------------------------
(* Properties.                                                             *)

\* What a run has stored once it is past the specialists.
Supported(r) ==
    r \in evidence /\ r \in hypotheses /\ agentRuns[r] = Specialists

\* No hypothesis is ever stored without the evidence it cites, whichever call
\* rejects and however runs overlap.
HypothesisCitesEvidence == hypotheses \subseteq evidence

\* An incident is REPRODUCED only with evidence, a hypothesis and the rows of
\* all four specialists from one and the same run behind it.
ReproducedIsSupported ==
    status = "REPRODUCED" => \E r \in Runs : Supported(r)

\* A completed job did all of its work in one run: the partial work of runs
\* that threw or stalled never adds up to a completed job.
CompletedIsSupported ==
    job = "completed" => \E r \in Runs : at[r] = "returned" /\ Supported(r)

\* Retries are bounded: attempts and stalls together limit how often the
\* effects of the job are repeated.
EffectsAreBounded ==
    /\ started <= MaxAttempts + MaxStalls
    /\ Cardinality(evidence) <= attemptsMade + stalls + 1

\* A job that waits for its next attempt is, to who added it, being worked on.
Stage == IF job = "waiting" /\ started > 0 THEN "active" ELSE job

Contract == INSTANCE JobContract WITH Jobs <- {"investigation"},
                                      job <- [j \in {"investigation"} |-> Stage]

\* Attempts, stalls and runs that go on without the lock implement the contract
\* of the queue: the job ends once, and no late run changes how it ended.
ImplementsJobContract == Contract!Spec

\* The job leaves the queue's hands, whatever the API does to the incident.
JobEnds == <>(job \in {"completed", "failed"})

=============================================================================
