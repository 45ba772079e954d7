------------------------- MODULE InvestigationProofs ------------------------
(***************************************************************************)
(* Proofs about module Investigation, for every number of attempts, stalls *)
(* and runs: its types, that hypotheses cite stored evidence, that an      *)
(* incident is REPRODUCED and a job completed only with all artifacts of   *)
(* one run, and that retries bound the effects.                            *)
(***************************************************************************)
EXTENDS Investigation, FiniteSetTheorems, TLAPS

\* What a run has stored by the time it is where it is.
RunOK(r) ==
    /\ at[r] = "unstarted" <=> r > started
    /\ at[r] \in {"explaining", "loading", "consulting", "closing", "closed",
                  "returning", "returned"} => r \in evidence
    /\ at[r] \in {"loading", "consulting", "closing", "closed",
                  "returning", "returned"} => r \in hypotheses
    /\ at[r] \in {"unstarted", "opening", "opened", "collecting", "explaining",
                  "loading", "consulting"} => agentRuns[r] < Specialists
    /\ at[r] \in {"closing", "closed", "returning", "returned"} =>
         agentRuns[r] = Specialists
    /\ r \in evidence => r <= started
    /\ holder = r => at[r] \notin Ended

\* The lock, the attempts and the stalls account for every run.
QueueInv ==
    /\ holder = 0 <=> job # "active"
    /\ holder <= started
    /\ started = attemptsMade + stalls + (IF job \in {"active", "completed"} THEN 1 ELSE 0)
    /\ job # "failed" => attemptsMade < MaxAttempts /\ stalls <= MaxStalls
    /\ job = "failed" => \/ attemptsMade = MaxAttempts /\ stalls <= MaxStalls
                         \/ attemptsMade < MaxAttempts /\ stalls = MaxStalls + 1

IInv ==
    /\ TypeOK
    /\ \A r \in Runs : RunOK(r)
    /\ QueueInv
    /\ HypothesisCitesEvidence
    /\ ReproducedIsSupported
    /\ CompletedIsSupported

USE DEF Runs, Specialists

LEMMA InitInv == Init => IInv
<1> SUFFICES ASSUME Init PROVE IInv
  OBVIOUS
<1> USE AttemptsAssumption DEF Init
<1>1. TypeOK
  BY DEF TypeOK, Statuses, Locations, Ended
<1>2. \A r \in Runs : RunOK(r)
  BY DEF RunOK
<1>3. QueueInv
  BY DEF QueueInv
<1> QED
  BY <1>1, <1>2, <1>3
  DEF IInv, HypothesisCitesEvidence, ReproducedIsSupported, CompletedIsSupported

\* A run that throws: its artifacts stay, the job is retried or fails.
LEMMA FailInv ==
    ASSUME IInv, NEW r \in Runs, at[r] \notin Ended, at[r] # "returning", Fail(r)
    PROVE  IInv'
<1> USE AttemptsAssumption DEF IInv
<1>1. /\ at' = [at EXCEPT ![r] = "thrown"]
      /\ UNCHANGED <<status, evidence, hypotheses, agentRuns, started, stalls>>
  BY DEF Fail, Go, artifacts
<1>2. TypeOK'
  BY <1>1 DEF Fail, TypeOK, QueueInv, Locations, Ended
<1>3. QueueInv'
  BY <1>1 DEF Fail, TypeOK, QueueInv
<1>4. ASSUME NEW q \in Runs PROVE RunOK(q)'
  <2>1. holder' = q => holder = q /\ q # r
    BY DEF Fail
  <2>2. r <= started
    BY DEF RunOK, Ended, TypeOK
  <2> QED
    BY <1>1, <2>1, <2>2 DEF RunOK, TypeOK, Ended
<1>5. HypothesisCitesEvidence' /\ ReproducedIsSupported'
  BY <1>1 DEF HypothesisCitesEvidence, ReproducedIsSupported, Supported
<1>6. CompletedIsSupported'
  <2>1. job' = "completed" => job = "completed"
    BY DEF Fail
  <2> QED
    BY <1>1, <2>1 DEF CompletedIsSupported, Supported, TypeOK, Ended
<1> QED
  BY <1>2, <1>3, <1>4, <1>5, <1>6

\* A step of a run that only moves it on and stores its next artifact.
LEMMA MoveInv ==
    ASSUME IInv, NEW r \in Runs, NEW l \in Locations, l \notin Ended,
           at[r] \notin Ended,
           at' = [at EXCEPT ![r] = l],
           UNCHANGED <<job, holder, started, attemptsMade, stalls>>,
           status' \in Statuses,
           evidence \subseteq evidence', evidence' \subseteq evidence \cup {r},
           hypotheses \subseteq hypotheses', hypotheses' \subseteq hypotheses \cup {r},
           agentRuns' \in [Runs -> 0..Specialists],
           \A q \in Runs : q # r => agentRuns'[q] = agentRuns[q],
           agentRuns'[r] >= agentRuns[r],
           HypothesisCitesEvidence', RunOK(r)',
           status' = "REPRODUCED" => status = "REPRODUCED" \/ Supported(r)
    PROVE  IInv'
<1> USE DEF IInv
<1>1. TypeOK'
  BY DEF TypeOK
<1>2. QueueInv'
  BY DEF QueueInv
<1>3. ASSUME NEW q \in Runs, q # r PROVE RunOK(q)'
  BY <1>3 DEF RunOK, TypeOK
<1>4. \A q \in Runs : Supported(q) => Supported(q)'
  BY DEF Supported, TypeOK
<1>5. ReproducedIsSupported'
  BY <1>4 DEF ReproducedIsSupported
<1>6. CompletedIsSupported'
  BY <1>4 DEF CompletedIsSupported, TypeOK, Ended
<1> QED
  BY <1>1, <1>2, <1>3, <1>5, <1>6

\* The same for a step that stores nothing.
LEMMA QuietMoveInv ==
    ASSUME IInv, NEW r \in Runs, NEW l \in Locations, l \notin Ended,
           at[r] \notin Ended,
           at' = [at EXCEPT ![r] = l],
           UNCHANGED <<evidence, hypotheses, agentRuns,
                       job, holder, started, attemptsMade, stalls>>,
           status' \in Statuses,
           RunOK(r)',
           status' = "REPRODUCED" => status = "REPRODUCED" \/ Supported(r)
    PROVE  IInv'
<1>1. /\ agentRuns' \in [Runs -> 0..Specialists]
      /\ \A q \in Runs : q # r => agentRuns'[q] = agentRuns[q]
      /\ agentRuns'[r] >= agentRuns[r]
  BY DEF IInv, TypeOK
<1>2. HypothesisCitesEvidence'
  BY DEF IInv, HypothesisCitesEvidence
<1>3. /\ evidence \subseteq evidence' /\ evidence' \subseteq evidence \cup {r}
      /\ hypotheses \subseteq hypotheses' /\ hypotheses' \subseteq hypotheses \cup {r}
  OBVIOUS
<1> QED
  BY <1>1, <1>2, <1>3, MoveInv

LEMMA ReadStatusInv ==
    ASSUME IInv, NEW r \in Runs, NEW from, NEW to, NEW next, ReadStatus(r, from, to, next),
           \/ from = "opening" /\ to = "opened"
           \/ from = "closing" /\ to = "closed"
    PROVE  IInv'
<1> USE DEF IInv
<1>1. at[r] = from /\ at[r] \notin Ended /\ at[r] # "returning"
  BY DEF ReadStatus, Ended
<1>2. CASE Fail(r)
  BY <1>1, <1>2, FailInv
<1>3. CASE Go(r, to) /\ UNCHANGED <<status, artifacts, queue>>
  <2>1. /\ at' = [at EXCEPT ![r] = to]
        /\ UNCHANGED <<status, evidence, hypotheses, agentRuns,
                       job, holder, started, attemptsMade, stalls>>
    BY <1>3 DEF Go, artifacts, queue
  <2>2. to \in Locations /\ to \notin Ended /\ status' \in Statuses
    BY <2>1 DEF Locations, Ended, TypeOK
  <2>3. RunOK(r)'
    BY <1>1, <2>1, <2>2 DEF RunOK, TypeOK, Ended
  <2> QED
    BY <1>1, <2>1, <2>2, <2>3, QuietMoveInv
<1> QED
  BY <1>2, <1>3 DEF ReadStatus

LEMMA WriteStatusInv ==
    ASSUME IInv, NEW r \in Runs, WriteInvestigating(r) \/ WriteReproduced(r)
    PROVE  IInv'
<1> USE DEF IInv
<1>1. CASE WriteInvestigating(r)
  <2>1. /\ at[r] = "opened" /\ at' = [at EXCEPT ![r] = "collecting"]
        /\ status' = "INVESTIGATING"
        /\ UNCHANGED <<evidence, hypotheses, agentRuns,
                       job, holder, started, attemptsMade, stalls>>
    BY <1>1 DEF WriteInvestigating, WriteStatus, Go, artifacts, queue
  <2>2. /\ at[r] \notin Ended /\ "collecting" \in Locations /\ "collecting" \notin Ended
        /\ status' \in Statuses
    BY <2>1 DEF Locations, Ended, Statuses
  <2>3. RunOK(r)'
    BY <2>1 DEF RunOK, TypeOK, Ended
  <2> QED
    BY <2>1, <2>2, <2>3, QuietMoveInv
<1>2. CASE WriteReproduced(r)
  <2>1. /\ at[r] = "closed" /\ at' = [at EXCEPT ![r] = "returning"]
        /\ status' = "REPRODUCED"
        /\ UNCHANGED <<evidence, hypotheses, agentRuns,
                       job, holder, started, attemptsMade, stalls>>
    BY <1>2 DEF WriteReproduced, WriteStatus, Go, artifacts, queue
  <2>2. /\ at[r] \notin Ended /\ "returning" \in Locations /\ "returning" \notin Ended
        /\ status' \in Statuses
    BY <2>1 DEF Locations, Ended, Statuses
  <2>3. RunOK(r)' /\ Supported(r)
    BY <2>1 DEF RunOK, TypeOK, Ended, Supported
  <2> QED
    BY <2>1, <2>2, <2>3, QuietMoveInv
<1> QED
  BY <1>1, <1>2

\* The steps that store an artifact.
LEMMA StoreInv ==
    ASSUME IInv, NEW r \in Runs,
           CollectEvidence(r) \/ StoreHypothesis(r) \/ LoadScenario(r) \/ ConsultSpecialist(r)
    PROVE  IInv'
<1> USE DEF IInv
<1>1. r <= started /\ at[r] \notin Ended
  BY DEF RunOK, CollectEvidence, StoreHypothesis, LoadScenario, ConsultSpecialist,
         Ended, TypeOK
<1>2. UNCHANGED <<status, job, holder, started, attemptsMade, stalls>> /\ status' \in Statuses
  BY DEF CollectEvidence, StoreHypothesis, LoadScenario, ConsultSpecialist,
         queue, TypeOK
<1>3. CASE CollectEvidence(r) \/ StoreHypothesis(r) \/ LoadScenario(r)
  <2>1. PICK l \in {"explaining", "loading", "consulting"} : at' = [at EXCEPT ![r] = l]
    BY <1>3 DEF CollectEvidence, StoreHypothesis, LoadScenario, Go
  <2>2. l \in Locations /\ l \notin Ended
    BY DEF Locations, Ended
  <2>3. agentRuns' = agentRuns
    BY <1>3 DEF CollectEvidence, StoreHypothesis, LoadScenario, artifacts
  <2>4. /\ evidence \subseteq evidence' /\ evidence' \subseteq evidence \cup {r}
        /\ hypotheses \subseteq hypotheses' /\ hypotheses' \subseteq hypotheses \cup {r}
    BY <1>3 DEF CollectEvidence, StoreHypothesis, LoadScenario, artifacts
  <2>5. RunOK(r)'
    BY <1>1, <1>2, <1>3
    DEF CollectEvidence, StoreHypothesis, LoadScenario, artifacts, Go, RunOK, TypeOK, Ended
  <2>6. HypothesisCitesEvidence'
    BY <1>3 DEF CollectEvidence, StoreHypothesis, LoadScenario, artifacts, RunOK,
                HypothesisCitesEvidence
  <2>7. /\ agentRuns' \in [Runs -> 0..Specialists] /\ agentRuns'[r] >= agentRuns[r]
        /\ \A q \in Runs : q # r => agentRuns'[q] = agentRuns[q]
    BY <2>3 DEF TypeOK
  <2> QED
    BY <1>1, <1>2, <2>1, <2>2, <2>4, <2>5, <2>6, <2>7, MoveInv
<1>4. CASE ConsultSpecialist(r)
  <2>1. PICK l \in {"closing", "consulting"} :
          /\ at' = [at EXCEPT ![r] = l]
          /\ l = "closing" <=> agentRuns[r] + 1 = Specialists
    BY <1>4 DEF ConsultSpecialist, Go
  <2>2. l \in Locations /\ l \notin Ended
    BY DEF Locations, Ended
  <2>3. /\ at[r] = "consulting" /\ agentRuns' = [agentRuns EXCEPT ![r] = @ + 1]
        /\ UNCHANGED <<evidence, hypotheses>>
    BY <1>4 DEF ConsultSpecialist
  <2>4. agentRuns[r] < Specialists /\ agentRuns[r] \in Nat
    BY <2>3 DEF RunOK, TypeOK
  <2>5. /\ agentRuns' \in [Runs -> 0..Specialists] /\ agentRuns'[r] >= agentRuns[r]
        /\ \A q \in Runs : q # r => agentRuns'[q] = agentRuns[q]
        /\ agentRuns'[r] = agentRuns[r] + 1
    BY <2>3, <2>4 DEF TypeOK
  <2>6. RunOK(r)'
    BY <1>1, <1>2, <2>1, <2>3, <2>4, <2>5 DEF RunOK, TypeOK, Ended
  <2>7. HypothesisCitesEvidence'
    BY <2>3 DEF HypothesisCitesEvidence
  <2>8. /\ evidence \subseteq evidence' /\ evidence' \subseteq evidence \cup {r}
        /\ hypotheses \subseteq hypotheses' /\ hypotheses' \subseteq hypotheses \cup {r}
    BY <2>3
  <2> QED
    BY <1>1, <1>2, <2>1, <2>2, <2>5, <2>6, <2>7, <2>8, MoveInv
<1> QED
  BY <1>3, <1>4

LEMMA StartRunInv == ASSUME IInv, StartRun PROVE IInv'
<1> USE AttemptsAssumption DEF IInv
<1> DEFINE n == started + 1
<1>1. /\ job = "waiting" /\ started < MaxRuns /\ started' = n /\ job' = "active"
      /\ holder' = n /\ at' = [at EXCEPT ![n] = "opening"]
      /\ UNCHANGED <<status, evidence, hypotheses, agentRuns, attemptsMade, stalls>>
  BY DEF StartRun, Go, artifacts
<1>2. n \in Runs /\ at[n] = "unstarted"
  BY <1>1 DEF TypeOK, RunOK
<1>3. TypeOK'
  BY <1>1, <1>2 DEF TypeOK, Locations, Ended
<1>4. QueueInv'
  BY <1>1 DEF QueueInv, TypeOK
<1>5. ASSUME NEW q \in Runs PROVE RunOK(q)'
  <2>1. CASE q = n
    BY <1>1, <1>2, <2>1 DEF RunOK, TypeOK, Ended
  <2>2. CASE q # n
    BY <1>1, <1>2, <2>2 DEF RunOK, TypeOK, Ended
  <2> QED
    BY <2>1, <2>2
<1>6. HypothesisCitesEvidence' /\ ReproducedIsSupported' /\ CompletedIsSupported'
  BY <1>1 DEF HypothesisCitesEvidence, ReproducedIsSupported, CompletedIsSupported, Supported
<1> QED
  BY <1>3, <1>4, <1>5, <1>6

LEMMA CompleteInv == ASSUME IInv, NEW r \in Runs, Complete(r) PROVE IInv'
<1> USE AttemptsAssumption DEF IInv
<1>1. /\ at[r] = "returning" /\ at' = [at EXCEPT ![r] = "returned"]
      /\ UNCHANGED <<status, evidence, hypotheses, agentRuns, started, attemptsMade, stalls>>
      /\ \/ holder = r /\ job' = "completed" /\ holder' = 0
         \/ holder # r /\ UNCHANGED <<job, holder>>
  BY DEF Complete, Go, artifacts
<1>2. TypeOK'
  BY <1>1 DEF TypeOK, Locations, Ended
<1>3. QueueInv'
  BY <1>1 DEF QueueInv, TypeOK
<1>4. ASSUME NEW q \in Runs PROVE RunOK(q)'
  BY <1>1 DEF RunOK, TypeOK, Ended
<1>5. HypothesisCitesEvidence' /\ ReproducedIsSupported'
  BY <1>1 DEF HypothesisCitesEvidence, ReproducedIsSupported, Supported
<1>6. Supported(r)' /\ at'[r] = "returned"
  BY <1>1 DEF RunOK, Supported, TypeOK
<1>7. CompletedIsSupported'
  BY <1>6 DEF CompletedIsSupported
<1> QED
  BY <1>2, <1>3, <1>4, <1>5, <1>7

LEMMA StallInv == ASSUME IInv, Stall PROVE IInv'
<1> USE AttemptsAssumption DEF IInv
<1>1. /\ job = "active" /\ stalls' = stalls + 1 /\ holder' = 0
      /\ job' = IF stalls < MaxStalls THEN "waiting" ELSE "failed"
      /\ UNCHANGED <<status, evidence, hypotheses, agentRuns, started, attemptsMade, at>>
  BY DEF Stall, artifacts
<1>2. TypeOK'
  BY <1>1 DEF TypeOK, QueueInv
<1>3. QueueInv'
  BY <1>1 DEF QueueInv, TypeOK
<1>4. \A q \in Runs : RunOK(q)'
  BY <1>1 DEF RunOK
<1>5. HypothesisCitesEvidence' /\ ReproducedIsSupported' /\ CompletedIsSupported'
  BY <1>1 DEF HypothesisCitesEvidence, ReproducedIsSupported, CompletedIsSupported, Supported
<1> QED
  BY <1>2, <1>3, <1>4, <1>5

\* What the API's handlers write is never REPRODUCED.
LEMMA RequestInv == ASSUME IInv, RequestWritesStatus PROVE IInv'
<1> USE DEF IInv
<1>1. status' \in Statuses /\ status' # "REPRODUCED" /\ UNCHANGED workerVars
  BY DEF RequestWritesStatus, RequestWrites, Statuses
<1>2. UNCHANGED <<evidence, hypotheses, agentRuns, job, holder, started, attemptsMade,
                  stalls, at>>
  BY <1>1 DEF workerVars, artifacts, queue
<1> QED
  BY <1>1, <1>2 DEF TypeOK, RunOK, QueueInv, HypothesisCitesEvidence, ReproducedIsSupported,
                    CompletedIsSupported, Supported

THEOREM Inductive == IInv /\ [Next]_vars => IInv'
<1> SUFFICES ASSUME IInv, [Next]_vars PROVE IInv'
  OBVIOUS
<1>1. ASSUME NEW r \in Runs, Process(r) PROVE IInv'
  BY <1>1, ReadStatusInv, WriteStatusInv, StoreInv, CompleteInv
  DEF Process, ReadForInvestigating, ReadForReproduced
<1>2. ASSUME NEW r \in Runs, Throw(r) PROVE IInv'
  BY <1>2, FailInv DEF Throw
<1>3. CASE UNCHANGED vars
  <2>1. UNCHANGED <<status, evidence, hypotheses, agentRuns, job, holder, started,
                    attemptsMade, stalls, at>>
    BY <1>3 DEF vars, workerVars, artifacts, queue
  <2> QED
    BY <2>1 DEF IInv, TypeOK, RunOK, QueueInv, HypothesisCitesEvidence,
                ReproducedIsSupported, CompletedIsSupported, Supported
<1> QED
  BY <1>1, <1>2, <1>3, StartRunInv, StallInv, RequestInv DEF Next, WorkerNext

LEMMA Invariance == Spec => []IInv
<1>1. Init => IInv
  BY InitInv
<1>2. IInv /\ [Next]_vars => IInv'
  BY Inductive
<1> QED
  BY <1>1, <1>2, PTL DEF Spec

\* The job's state and the runs keep their types.
THEOREM Typing == Spec => []TypeOK
<1>1. IInv => TypeOK
  BY DEF IInv
<1> QED
  BY <1>1, Invariance, PTL

\* A hypothesis is stored only after the evidence it cites.
THEOREM EvidenceComesFirst == Spec => []HypothesisCitesEvidence
<1>1. IInv => HypothesisCitesEvidence
  BY DEF IInv
<1> QED
  BY <1>1, Invariance, PTL

\* REPRODUCED means that one run has stored all of its artifacts.
THEOREM ReproducedHasArtifacts == Spec => []ReproducedIsSupported
<1>1. IInv => ReproducedIsSupported
  BY DEF IInv
<1> QED
  BY <1>1, Invariance, PTL

\* A completed job has done all of its work in one run.
THEOREM CompletedHasArtifacts == Spec => []CompletedIsSupported
<1>1. IInv => CompletedIsSupported
  BY DEF IInv
<1> QED
  BY <1>1, Invariance, PTL

\* Attempts and stalls bound the runs, and so the repeated effects.
THEOREM BoundedEffects == Spec => []EffectsAreBounded
<1>1. IInv => EffectsAreBounded
  <2> SUFFICES ASSUME IInv PROVE EffectsAreBounded
    OBVIOUS
  <2> USE AttemptsAssumption DEF IInv
  <2>1. started <= MaxAttempts + MaxStalls /\ started <= attemptsMade + stalls + 1
    BY DEF QueueInv, TypeOK
  <2>2. evidence \subseteq 1..started
    BY DEF RunOK, TypeOK
  <2>3. /\ IsFiniteSet(1..started) /\ Cardinality(1..started) = started
        /\ started \in Nat /\ attemptsMade + stalls + 1 \in Nat
    BY FS_Interval DEF TypeOK
  <2>4. Cardinality(evidence) <= started /\ Cardinality(evidence) \in Nat
    BY <2>2, <2>3, FS_Subset, FS_CardinalityType
  <2> QED
    BY <2>1, <2>3, <2>4 DEF EffectsAreBounded
<1> QED
  BY <1>1, Invariance, PTL

-----------------------------------------------------------------------------
(* The contract of the queue.                                              *)

\* Seen by who added it, the job is taken up, or ends, or does not change: the
\* job's state is moved only by the run that holds its lock, or by a stall, and
\* both leave alone a job that has ended.
LEMMA StageStep ==
    ASSUME IInv, [Next]_vars
    PROVE  \/ Stage' = Stage
           \/ Stage = "waiting" /\ Stage' = "active"
           \/ Stage = "active" /\ Stage' \in {"completed", "failed"}
<1> USE DEF IInv
<1>1. CASE StartRun
  BY <1>1 DEF StartRun, Stage, TypeOK
<1>2. CASE Stall
  BY <1>2 DEF Stall, Stage, TypeOK, QueueInv
<1>3. ASSUME NEW r \in Runs, Complete(r)
      PROVE  \/ Stage' = Stage
             \/ Stage = "active" /\ Stage' = "completed"
  <2>1. holder = r => job = "active"
    BY <1>3 DEF QueueInv, TypeOK
  <2> QED
    BY <1>3, <2>1 DEF Complete, Stage
<1>4. ASSUME NEW r \in Runs, Fail(r)
      PROVE  \/ Stage' = Stage
             \/ Stage = "active" /\ Stage' = "failed"
  <2>1. holder = r => job = "active" /\ started > 0
    BY <1>4 DEF QueueInv, TypeOK
  <2> QED
    BY <1>4, <2>1 DEF Fail, Stage, TypeOK
<1>5. ASSUME NEW r \in Runs, ~Complete(r), ~Fail(r), Process(r) \/ Throw(r)
      PROVE  Stage' = Stage
  BY <1>5
  DEF Process, Throw, ReadForInvestigating, WriteInvestigating, CollectEvidence, StoreHypothesis,
      LoadScenario, ConsultSpecialist, ReadForReproduced, WriteReproduced, ReadStatus,
      WriteStatus, queue, Stage
<1>6. CASE RequestWritesStatus \/ UNCHANGED vars
  BY <1>6 DEF RequestWritesStatus, vars, workerVars, queue, Stage
<1> QED
  BY <1>1, <1>2, <1>3, <1>4, <1>5, <1>6 DEF Next, WorkerNext

\* The job, with all its attempts, stalls and runs that have lost its lock,
\* implements the contract of the queue.
THEOREM ImplementsContractOfQueue == Spec => ImplementsJobContract
<1>1. Init => Contract!Init
  BY DEF Init, Contract!Init, Stage
<1>2. ASSUME IInv, [Next]_vars
      PROVE  [Contract!Next]_[j \in {"investigation"} |-> Stage]
  <2>1. CASE Stage' = Stage
    BY <2>1
  <2>2. CASE Stage = "waiting" /\ Stage' = "active"
    <3>1. Contract!Start("investigation")
      BY <2>2 DEF Contract!Start, Contract!Move
    <3> QED
      BY <3>1 DEF Contract!Next
  <2>3. CASE Stage = "active" /\ Stage' \in {"completed", "failed"}
    <3>1. Contract!Finish("investigation")
      BY <2>3 DEF Contract!Finish, Contract!Move, Contract!Ended
    <3> QED
      BY <3>1 DEF Contract!Next
  <2> QED
    BY <1>2, <2>1, <2>2, <2>3, StageStep
<1> QED
  BY <1>1, <1>2, Invariance, PTL DEF Spec, ImplementsJobContract, Contract!Spec

-----------------------------------------------------------------------------
(* What JobEnds rests on, apart from fairness: a job that is not at its    *)
(* end has somebody who can go on, and there is less to do with each step. *)

\* The calls that a run has still to make.
Left(r) ==
    CASE at[r] = "opening" -> 12
      [] at[r] = "opened" -> 11
      [] at[r] = "collecting" -> 10
      [] at[r] = "explaining" -> 9
      [] at[r] = "loading" -> 8
      [] at[r] = "consulting" -> 7 - agentRuns[r]
      [] at[r] = "closing" -> 3
      [] at[r] = "closed" -> 2
      [] at[r] = "returning" -> 1
      [] OTHER -> 0

\* An active job has a run with a call to make, and a job that waits has a run
\* to its credit: no attempt or stall leaves it in the queue with neither.
NeverAbandoned ==
    /\ job = "active" => holder \in Runs /\ Left(holder) > 0
    /\ job = "waiting" => started < MaxAttempts + MaxStalls

\* Each step of a run takes it nearer to its end, and no other step takes it
\* further away.
RunsComeToAnEnd ==
    [][\A r \in Runs : at[r] # "unstarted" =>
        /\ Left(r)' <= Left(r)
        /\ Process(r) \/ Throw(r) => Left(r)' < Left(r)]_vars

LEMMA LeftType == IInv => \A r \in Runs : Left(r) \in 0..12
<1> SUFFICES ASSUME IInv, NEW r \in Runs PROVE Left(r) \in 0..12
  OBVIOUS
<1>1. at[r] \in Locations /\ agentRuns[r] \in 0..4
  BY DEF IInv, TypeOK
<1>2. at[r] = "consulting" => agentRuns[r] < 4
  BY DEF IInv, RunOK
<1> QED
  BY <1>1, <1>2 DEF Left, Locations, Ended

LEMMA LeftAfter == ASSUME IInv, [Next]_vars PROVE \A r \in Runs : Left(r)' \in 0..12
<1>1. IInv'
  BY Inductive
<1>2. \A r \in Runs : at'[r] \in Locations /\ agentRuns'[r] \in 0..4
  BY <1>1 DEF IInv, TypeOK
<1>3. \A r \in Runs : at'[r] = "consulting" => agentRuns'[r] < 4
  BY <1>1 DEF IInv, RunOK
<1> QED
  BY <1>2, <1>3 DEF Left, Locations, Ended

\* A step of one run moves this run only, and forward.
LEMMA StepsLeadOn ==
    ASSUME IInv, NEW r \in Runs, Process(r) \/ Throw(r)
    PROVE  /\ Left(r)' < Left(r)
           /\ \A q \in Runs : q # r => Left(q)' = Left(q)
<1> USE DEF IInv, TypeOK
<1>0. /\ at[r] = "consulting" => agentRuns[r] \in 0..3
      /\ at[r] \in {"unstarted"} \cup Ended => Left(r) = 0
      /\ Left(r) \in 0..12
  BY LeftType DEF RunOK, Left, Ended
<1>1. CASE Throw(r) \/ (Fail(r) /\ at[r] \notin Ended \cup {"returning"})
  <2>1. at' = [at EXCEPT ![r] = "thrown"] /\ agentRuns' = agentRuns
    BY <1>1 DEF Throw, Fail, Go, artifacts
  <2>2. at[r] \in Locations \ (Ended \cup {"returning"})
    BY <1>1 DEF Throw
  <2>3. Left(r) > 0
    BY <1>0, <2>2 DEF Left, Locations, Ended
  <2> QED
    BY <2>1, <2>3 DEF Left
<1>2. ASSUME NEW from \in Locations, NEW to \in Locations, at[r] = from,
             at' = [at EXCEPT ![r] = to], agentRuns' = agentRuns,
             <<from, to>> \in {<<"opening", "opened">>, <<"opened", "collecting">>,
                               <<"collecting", "explaining">>, <<"explaining", "loading">>,
                               <<"closing", "closed">>, <<"closed", "returning">>}
      PROVE  /\ Left(r)' < Left(r)
             /\ \A q \in Runs : q # r => Left(q)' = Left(q)
  <2>1. at'[r] = to /\ \A q \in Runs : q # r => at'[q] = at[q]
    BY <1>2
  <2>2. \A q \in Runs : q # r => Left(q)' = Left(q)
    BY <1>2, <2>1 DEF Left
  <2>3. Left(r)' < Left(r)
    BY <1>2, <2>1 DEF Left
  <2> QED
    BY <2>2, <2>3
<1>3. CASE (ReadForInvestigating(r) \/ ReadForReproduced(r)) /\ ~Fail(r)
  <2>1. CASE ReadForInvestigating(r)
    <3>1. at[r] = "opening" /\ at' = [at EXCEPT ![r] = "opened"] /\ agentRuns' = agentRuns
      BY <1>3, <2>1 DEF ReadForInvestigating, ReadStatus, Go, artifacts
    <3> QED
      BY <3>1, <1>2 DEF Locations
  <2>2. CASE ReadForReproduced(r)
    <3>1. at[r] = "closing" /\ at' = [at EXCEPT ![r] = "closed"] /\ agentRuns' = agentRuns
      BY <1>3, <2>2 DEF ReadForReproduced, ReadStatus, Go, artifacts
    <3> QED
      BY <3>1, <1>2 DEF Locations
  <2> QED
    BY <1>3, <2>1, <2>2
<1>4. CASE WriteInvestigating(r) \/ WriteReproduced(r)
  <2>1. CASE WriteInvestigating(r)
    <3>1. at[r] = "opened" /\ at' = [at EXCEPT ![r] = "collecting"] /\ agentRuns' = agentRuns
      BY <2>1 DEF WriteInvestigating, WriteStatus, Go, artifacts
    <3> QED
      BY <3>1, <1>2 DEF Locations
  <2>2. CASE WriteReproduced(r)
    <3>1. at[r] = "closed" /\ at' = [at EXCEPT ![r] = "returning"] /\ agentRuns' = agentRuns
      BY <2>2 DEF WriteReproduced, WriteStatus, Go, artifacts
    <3> QED
      BY <3>1, <1>2 DEF Locations
  <2> QED
    BY <1>4, <2>1, <2>2
<1>5. CASE CollectEvidence(r) \/ StoreHypothesis(r)
  <2>1. CASE CollectEvidence(r)
    <3>1. at[r] = "collecting" /\ at' = [at EXCEPT ![r] = "explaining"] /\ agentRuns' = agentRuns
      BY <2>1 DEF CollectEvidence, Go
    <3> QED
      BY <3>1, <1>2 DEF Locations
  <2>2. CASE StoreHypothesis(r)
    <3>1. at[r] = "explaining" /\ at' = [at EXCEPT ![r] = "loading"] /\ agentRuns' = agentRuns
      BY <2>2 DEF StoreHypothesis, Go
    <3> QED
      BY <3>1, <1>2 DEF Locations
  <2> QED
    BY <1>5, <2>1, <2>2
<1>6. CASE LoadScenario(r)
  <2>1. agentRuns[r] \in 0..3
    BY <1>6 DEF LoadScenario, RunOK
  <2> QED
    BY <1>6, <2>1 DEF LoadScenario, Go, artifacts, Left
<1>7. CASE ConsultSpecialist(r)
  <2>1. agentRuns[r] \in 0..3 /\ at[r] = "consulting" /\ Left(r) = 7 - agentRuns[r]
    BY <1>0, <1>7 DEF ConsultSpecialist, Left
  <2>2. Left(r)' = IF agentRuns[r] + 1 = 4 THEN 3 ELSE 7 - (agentRuns[r] + 1)
    BY <1>7, <2>1 DEF ConsultSpecialist, Go, Left
  <2>3. \A q \in Runs : q # r => Left(q)' = Left(q)
    BY <1>7 DEF ConsultSpecialist, Go, Left
  <2> QED
    BY <2>1, <2>2, <2>3
<1>8. CASE Complete(r)
  BY <1>8 DEF Complete, Go, artifacts, Left
<1>9. ReadForInvestigating(r) /\ Fail(r) => at[r] \notin Ended \cup {"returning"}
  BY DEF ReadForInvestigating, ReadStatus, Ended
<1>10. ReadForReproduced(r) /\ Fail(r) => at[r] \notin Ended \cup {"returning"}
  BY DEF ReadForReproduced, ReadStatus, Ended
<1> QED
  BY <1>1, <1>3, <1>4, <1>5, <1>6, <1>7, <1>8, <1>9, <1>10 DEF Process

\* Whatever throws, stalls or goes on without its lock, the job is at its end
\* or somebody has its next step to take.
THEOREM JobIsNeverAbandoned == Spec => []NeverAbandoned
<1>1. IInv => NeverAbandoned
  <2> SUFFICES ASSUME IInv PROVE NeverAbandoned
    OBVIOUS
  <2>1. ASSUME job = "active" PROVE holder \in Runs /\ Left(holder) > 0
    <3>1. holder \in Runs
      BY <2>1 DEF IInv, QueueInv, TypeOK
    <3>2. at[holder] \in Locations \ Ended /\ agentRuns[holder] \in 0..4
      BY <3>1 DEF IInv, RunOK, TypeOK
    <3>3. at[holder] = "consulting" => agentRuns[holder] < 4
      BY <3>1 DEF IInv, RunOK
    <3> QED
      BY <3>1, <3>2, <3>3 DEF Left, Locations, Ended
  <2>2. job = "waiting" => started < MaxAttempts + MaxStalls
    BY AttemptsAssumption DEF IInv, QueueInv, TypeOK
  <2> QED
    BY <2>1, <2>2 DEF NeverAbandoned
<1> QED
  BY <1>1, Invariance, PTL

\* A run makes twelve calls at most, whichever of them fail.
THEOREM RunsEnd == Spec => RunsComeToAnEnd
<1>1. ASSUME IInv, [Next]_vars, NEW r \in Runs, at[r] # "unstarted"
      PROVE  /\ Left(r)' <= Left(r)
             /\ Process(r) \/ Throw(r) => Left(r)' < Left(r)
  <2>1. Left(r) \in 0..12
    BY <1>1, LeftType
  <2>2. CASE StartRun
    <3>1. r # started + 1
      BY <1>1 DEF IInv, RunOK, TypeOK
    <3> QED
      BY <1>1, <2>1, <2>2, <3>1, StepsLeadOn DEF StartRun, Go, artifacts, Left, IInv, TypeOK
  <2>3. CASE Stall \/ RequestWritesStatus \/ UNCHANGED vars
    <3>1. UNCHANGED <<at, agentRuns>>
      BY <2>3 DEF Stall, RequestWritesStatus, vars, workerVars, artifacts
    <3>2. Left(r)' = Left(r)
      BY <3>1 DEF Left
    <3> QED
      BY <1>1, <2>1, <3>2, StepsLeadOn
  <2>4. ASSUME NEW q \in Runs, Process(q) \/ Throw(q)
        PROVE  /\ Left(r)' <= Left(r)
               /\ Process(r) \/ Throw(r) => Left(r)' < Left(r)
    <3>1. CASE q = r
      BY <1>1, <2>1, <2>4, <3>1, StepsLeadOn, LeftAfter
    <3>2. CASE q # r
      <4>1. Left(r)' = Left(r)
        BY <1>1, <2>4, <3>2, StepsLeadOn
      <4>2. ~(Process(r) \/ Throw(r))
        BY <1>1, <2>1, <2>4, <3>2, <4>1, StepsLeadOn
      <4> QED
        BY <2>1, <4>1, <4>2
    <3> QED
      BY <3>1, <3>2
  <2> QED
    BY <1>1, <2>2, <2>3, <2>4 DEF Next, WorkerNext
<1>2. IInv /\ [Next]_vars =>
        [\A r \in Runs : at[r] # "unstarted" =>
            /\ Left(r)' <= Left(r)
            /\ Process(r) \/ Throw(r) => Left(r)' < Left(r)]_vars
  BY <1>1
<1> QED
  BY <1>2, Invariance, PTL DEF Spec, RunsComeToAnEnd

=============================================================================
