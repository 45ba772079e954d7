------------------------- MODULE RemediationProofs --------------------------
(***************************************************************************)
(* The safety properties of module Remediation, for every set of requests  *)
(* and every number of candidates.  None of the properties is inductive:   *)
(* each of them speaks of the status, which a handler writes long after it *)
(* has checked what entitles it to.  The invariant therefore says what a   *)
(* handler may rely on at each place in its code.                          *)
(***************************************************************************)
EXTENDS Remediation, TLAPS

\* An evaluation counts its responses from zero and finishes its own case.
Counting ==
    \A r \in Requests :
        /\ at[r] \in {"new", "finding", "creating"} => responses[r] = 0
        /\ at[r] = "responding" => r \in cases /\ responses[r] < Candidates
        /\ at[r] = "evaluated" => Complete(r)

\* A review decides, cites a case that exists, stores that, and only then
\* goes on to the status.
Deciding ==
    \A r \in Requests :
        /\ at[r] \in {"reviewing", "citing", "deciding", "applying"} => op[r] \in Decisions
        /\ at[r] = "deciding" => seenCase[r] \in cases
        /\ at[r] = "applying" =>
            [by |-> r, case |-> seenCase[r], decision |-> op[r]] \in approvals

\* The latest case is one of the cases.
Stored == latestCase # NoCase => latestCase \in cases

\* A handler that has seen an evaluated incident goes on with that knowledge.
SeenEvaluated ==
    \A r \in Requests :
        at[r] \in {"citing", "deciding", "applying", "starting", "rolling", "promoting"} =>
            \E c \in Requests : Complete(c)

IInv ==
    /\ TypeOK
    /\ Counting
    /\ Deciding
    /\ Stored
    /\ SeenEvaluated
    /\ ShippedWasApproved
    /\ EvaluatedHasCompleteCase
    /\ DecidedAfterEvaluation

-----------------------------------------------------------------------------

\* Every operation enters its handler where the code does.
LEMMA EntryPoints ==
    \A o \in Operations :
        /\ Entry[o] \in {"finding", "reviewing", "checking", "reverting"}
        /\ Entry[o] = "reviewing" => o \in Decisions
BY DEF Entry, Operations, Decisions

\* The initial states satisfy the invariant.
LEMMA InitInv == Init => IInv
<1> SUFFICES ASSUME Init PROVE IInv
    OBVIOUS
<1>1. TypeOK
    BY CandidatesAssumption
    DEF Init, TypeOK, Statuses, Locations, Decisions, Operations
<1>2. Counting /\ Deciding /\ Stored /\ SeenEvaluated
    BY DEF Init, Counting, Deciding, Stored, SeenEvaluated
<1>3. ShippedWasApproved /\ EvaluatedHasCompleteCase /\ DecidedAfterEvaluation
    BY DEF Init, ShippedWasApproved, EvaluatedHasCompleteCase, DecidedAfterEvaluation
<1> QED
    BY <1>1, <1>2, <1>3 DEF IInv

\* Every step keeps the invariant.
LEMMA StepInv == IInv /\ [Next]_vars => IInv'
<1> SUFFICES ASSUME IInv, [Next]_vars PROVE IInv'
    OBVIOUS
<1>1. ASSUME NEW r \in Requests, Arrive(r) PROVE IInv'
  <2> USE <1>1 DEF Arrive, IInv
  <2>1. TypeOK'
    BY EntryPoints DEF TypeOK, Counting, Deciding, Statuses, Locations, records
  <2>2. Counting'
    BY EntryPoints DEF TypeOK, Counting, Complete, records
  <2>3. Deciding' /\ Stored'
    BY EntryPoints DEF TypeOK, Deciding, Stored, records, Decisions
  <2>4. SeenEvaluated' /\ EvaluatedHasCompleteCase' /\ DecidedAfterEvaluation'
    BY EntryPoints DEF TypeOK, Counting, Deciding, SeenEvaluated, EvaluatedHasCompleteCase,
           DecidedAfterEvaluation, Complete, records
  <2>5. ShippedWasApproved'
    BY EntryPoints DEF TypeOK, Deciding, ShippedWasApproved, Approved, records
  <2> QED
    BY <2>1, <2>2, <2>3, <2>4, <2>5
<1>2. ASSUME NEW r \in Requests, FindIncident(r) PROVE IInv'
  <2> USE <1>2 DEF FindIncident, Read, Move, IInv
  <2>1. TypeOK'
    BY DEF TypeOK, Counting, Deciding, Statuses, Locations, records
  <2>2. Counting'
    BY DEF TypeOK, Counting, Complete, records
  <2>3. Deciding' /\ Stored'
    BY DEF TypeOK, Deciding, Stored, records, Decisions
  <2>4. SeenEvaluated' /\ EvaluatedHasCompleteCase' /\ DecidedAfterEvaluation'
    BY DEF TypeOK, Counting, Deciding, SeenEvaluated, EvaluatedHasCompleteCase,
           DecidedAfterEvaluation, Complete, records
  <2>5. ShippedWasApproved'
    BY DEF TypeOK, Deciding, ShippedWasApproved, Approved, records
  <2> QED
    BY <2>1, <2>2, <2>3, <2>4, <2>5
<1>3. ASSUME NEW r \in Requests, CreateCase(r) PROVE IInv'
  <2> USE <1>3 DEF CreateCase, Move, IInv
  <2>1. TypeOK'
    BY DEF TypeOK, Counting, Deciding, Statuses, Locations, records
  <2>2. Counting'
    BY CandidatesAssumption DEF TypeOK, Counting, Complete, records
  <2>3. Deciding' /\ Stored'
    BY DEF TypeOK, Deciding, Stored, records, Decisions
  <2>4. SeenEvaluated' /\ EvaluatedHasCompleteCase' /\ DecidedAfterEvaluation'
    BY DEF TypeOK, Counting, Deciding, SeenEvaluated, EvaluatedHasCompleteCase,
           DecidedAfterEvaluation, Complete, records
  <2>5. ShippedWasApproved'
    BY DEF TypeOK, Deciding, ShippedWasApproved, Approved, records
  <2> QED
    BY <2>1, <2>2, <2>3, <2>4, <2>5
<1>4. ASSUME NEW r \in Requests, StoreResponse(r) PROVE IInv'
  <2> USE <1>4 DEF StoreResponse, Move, IInv
  <2>1. TypeOK'
    BY CandidatesAssumption DEF TypeOK, Counting, Deciding, Statuses, Locations, records
  <2>2. Counting'
    <3>1. /\ responses[r] \in Nat /\ responses[r] < Candidates /\ r \in cases
          /\ responses' = [responses EXCEPT ![r] = responses[r] + 1]
          /\ responses \in [Requests -> 0..Candidates]
          /\ cases' = cases
      BY CandidatesAssumption DEF TypeOK, Counting
    <3>2. at'[r] = "responding" => responses'[r] < Candidates
      BY <3>1, CandidatesAssumption DEF TypeOK
    <3>3. at'[r] \in {"responding", "evaluated"}
      BY DEF TypeOK
    <3>4. at'[r] = "evaluated" => responses'[r] = Candidates
      BY <3>1, CandidatesAssumption DEF TypeOK
    <3>5. ASSUME NEW q \in Requests, q # r
          PROVE at'[q] = at[q] /\ responses'[q] = responses[q]
      BY <3>1, <3>5 DEF TypeOK
    <3> HIDE DEF StoreResponse, Move
    <3> QED
      BY <3>1, <3>2, <3>3, <3>4, <3>5 DEF Counting, Complete
  <2>3. Deciding' /\ Stored'
    BY CandidatesAssumption DEF TypeOK, Deciding, Stored, records, Decisions
  <2>4. SeenEvaluated' /\ EvaluatedHasCompleteCase' /\ DecidedAfterEvaluation'
    BY CandidatesAssumption DEF TypeOK, Counting, Deciding, SeenEvaluated, EvaluatedHasCompleteCase,
           DecidedAfterEvaluation, Complete, records
  <2>5. ShippedWasApproved'
    BY CandidatesAssumption DEF TypeOK, Deciding, ShippedWasApproved, Approved, records
  <2> QED
    BY <2>1, <2>2, <2>3, <2>4, <2>5
<1>5. ASSUME NEW r \in Requests, WriteEvaluated(r) PROVE IInv'
  <2> USE <1>5 DEF WriteEvaluated, Write, Move, IInv
  <2>1. TypeOK'
    BY DEF TypeOK, Counting, Deciding, Statuses, Locations, records
  <2>2. Counting'
    BY DEF TypeOK, Counting, Complete, records
  <2>3. Deciding' /\ Stored'
    BY DEF TypeOK, Deciding, Stored, records, Decisions
  <2>4. SeenEvaluated' /\ EvaluatedHasCompleteCase' /\ DecidedAfterEvaluation'
    BY DEF TypeOK, Counting, Deciding, SeenEvaluated, EvaluatedHasCompleteCase,
           DecidedAfterEvaluation, Complete, records
  <2>5. ShippedWasApproved'
    BY DEF TypeOK, Deciding, ShippedWasApproved, Approved, records
  <2> QED
    BY <2>1, <2>2, <2>3, <2>4, <2>5
<1>6. ASSUME NEW r \in Requests, ReviewIncident(r) PROVE IInv'
  <2> USE <1>6 DEF ReviewIncident, Read, Move, IInv
  <2>1. TypeOK'
    BY DEF TypeOK, Counting, Deciding, Statuses, Locations, records
  <2>2. Counting'
    BY DEF TypeOK, Counting, Complete, records
  <2>3. Deciding' /\ Stored'
    BY DEF TypeOK, Deciding, Stored, records, Decisions
  <2>4. SeenEvaluated' /\ EvaluatedHasCompleteCase' /\ DecidedAfterEvaluation'
    BY DEF TypeOK, Counting, Deciding, SeenEvaluated, EvaluatedHasCompleteCase,
           DecidedAfterEvaluation, Complete, records
  <2>5. ShippedWasApproved'
    BY DEF TypeOK, Deciding, ShippedWasApproved, Approved, records
  <2> QED
    BY <2>1, <2>2, <2>3, <2>4, <2>5
<1>7. ASSUME NEW r \in Requests, ReadLatestCase(r) PROVE IInv'
  <2> USE <1>7 DEF ReadLatestCase, Move, IInv
  <2>1. TypeOK'
    BY DEF TypeOK, Counting, Deciding, Statuses, Locations, records
  <2>2. Counting'
    BY DEF TypeOK, Counting, Complete, records
  <2>3. Deciding' /\ Stored'
    BY DEF TypeOK, Deciding, Stored, records, Decisions
  <2>4. SeenEvaluated' /\ EvaluatedHasCompleteCase' /\ DecidedAfterEvaluation'
    BY DEF TypeOK, Counting, Deciding, SeenEvaluated, EvaluatedHasCompleteCase,
           DecidedAfterEvaluation, Complete, records
  <2>5. ShippedWasApproved'
    BY DEF TypeOK, Deciding, ShippedWasApproved, Approved, records
  <2> QED
    BY <2>1, <2>2, <2>3, <2>4, <2>5
<1>8. ASSUME NEW r \in Requests, StoreApproval(r) PROVE IInv'
  <2> USE <1>8 DEF StoreApproval, Move, IInv
  <2>1. TypeOK'
    BY DEF TypeOK, Counting, Deciding, Statuses, Locations, records
  <2>2. Counting'
    BY DEF TypeOK, Counting, Complete, records
  <2>3. Deciding' /\ Stored'
    BY DEF TypeOK, Deciding, Stored, records, Decisions
  <2>4. SeenEvaluated' /\ EvaluatedHasCompleteCase' /\ DecidedAfterEvaluation'
    BY DEF TypeOK, Counting, Deciding, SeenEvaluated, EvaluatedHasCompleteCase,
           DecidedAfterEvaluation, Complete, records
  <2>5. ShippedWasApproved'
    BY DEF TypeOK, Deciding, ShippedWasApproved, Approved, records
  <2> QED
    BY <2>1, <2>2, <2>3, <2>4, <2>5
<1>9. ASSUME NEW r \in Requests, WriteDecision(r) PROVE IInv'
  <2> USE <1>9 DEF WriteDecision, Write, Move, IInv
  <2>1. TypeOK'
    BY DEF TypeOK, Counting, Deciding, Statuses, Locations, records
  <2>2. Counting'
    BY DEF TypeOK, Counting, Complete, records
  <2>3. Deciding' /\ Stored'
    BY DEF TypeOK, Deciding, Stored, records, Decisions
  <2>4. SeenEvaluated' /\ EvaluatedHasCompleteCase' /\ DecidedAfterEvaluation'
    BY DEF TypeOK, Counting, Deciding, SeenEvaluated, EvaluatedHasCompleteCase,
           DecidedAfterEvaluation, Complete, records
  <2>5. ShippedWasApproved'
    BY DEF TypeOK, Deciding, ShippedWasApproved, Approved, records
  <2> QED
    BY <2>1, <2>2, <2>3, <2>4, <2>5
<1>10. ASSUME NEW r \in Requests, CheckApproved(r) PROVE IInv'
  <2> USE <1>10 DEF CheckApproved, Read, Move, IInv
  <2>1. TypeOK'
    BY DEF TypeOK, Counting, Deciding, Statuses, Locations, records
  <2>2. Counting'
    BY DEF TypeOK, Counting, Complete, records
  <2>3. Deciding' /\ Stored'
    BY DEF TypeOK, Deciding, Stored, records, Decisions
  <2>4. SeenEvaluated' /\ EvaluatedHasCompleteCase' /\ DecidedAfterEvaluation'
    BY DEF TypeOK, Counting, Deciding, SeenEvaluated, EvaluatedHasCompleteCase,
           DecidedAfterEvaluation, Complete, records
  <2>5. ShippedWasApproved'
    BY DEF TypeOK, Deciding, ShippedWasApproved, Approved, records
  <2> QED
    BY <2>1, <2>2, <2>3, <2>4, <2>5
<1>11. ASSUME NEW r \in Requests, StartCanary(r) PROVE IInv'
  <2> USE <1>11 DEF StartCanary, Write, Move, IInv
  <2>1. TypeOK'
    BY DEF TypeOK, Counting, Deciding, Statuses, Locations, records
  <2>2. Counting'
    BY DEF TypeOK, Counting, Complete, records
  <2>3. Deciding' /\ Stored'
    BY DEF TypeOK, Deciding, Stored, records, Decisions
  <2>4. SeenEvaluated' /\ EvaluatedHasCompleteCase' /\ DecidedAfterEvaluation'
    BY DEF TypeOK, Counting, Deciding, SeenEvaluated, EvaluatedHasCompleteCase,
           DecidedAfterEvaluation, Complete, records
  <2>5. ShippedWasApproved'
    BY DEF TypeOK, Deciding, ShippedWasApproved, Approved, records
  <2> QED
    BY <2>1, <2>2, <2>3, <2>4, <2>5
<1>12. ASSUME NEW r \in Requests, EvaluateSteps(r) PROVE IInv'
  <2> USE <1>12 DEF EvaluateSteps, Move, IInv
  <2>1. TypeOK'
    BY DEF TypeOK, Counting, Deciding, Statuses, Locations, records
  <2>2. Counting'
    BY DEF TypeOK, Counting, Complete, records
  <2>3. Deciding' /\ Stored'
    BY DEF TypeOK, Deciding, Stored, records, Decisions
  <2>4. SeenEvaluated' /\ EvaluatedHasCompleteCase' /\ DecidedAfterEvaluation'
    BY DEF TypeOK, Counting, Deciding, SeenEvaluated, EvaluatedHasCompleteCase,
           DecidedAfterEvaluation, Complete, records
  <2>5. ShippedWasApproved'
    BY DEF TypeOK, Deciding, ShippedWasApproved, Approved, records
  <2> QED
    BY <2>1, <2>2, <2>3, <2>4, <2>5
<1>13. ASSUME NEW r \in Requests, Promote(r) PROVE IInv'
  <2> USE <1>13 DEF Promote, Write, Move, IInv
  <2>1. TypeOK'
    BY DEF TypeOK, Counting, Deciding, Statuses, Locations, records
  <2>2. Counting'
    BY DEF TypeOK, Counting, Complete, records
  <2>3. Deciding' /\ Stored'
    BY DEF TypeOK, Deciding, Stored, records, Decisions
  <2>4. SeenEvaluated' /\ EvaluatedHasCompleteCase' /\ DecidedAfterEvaluation'
    BY DEF TypeOK, Counting, Deciding, SeenEvaluated, EvaluatedHasCompleteCase,
           DecidedAfterEvaluation, Complete, records
  <2>5. ShippedWasApproved'
    BY DEF TypeOK, Deciding, ShippedWasApproved, Approved, records
  <2> QED
    BY <2>1, <2>2, <2>3, <2>4, <2>5
<1>14. ASSUME NEW r \in Requests, ReadForRollback(r) PROVE IInv'
  <2> USE <1>14 DEF ReadForRollback, Read, Move, IInv
  <2>1. TypeOK'
    BY DEF TypeOK, Counting, Deciding, Statuses, Locations, records
  <2>2. Counting'
    BY DEF TypeOK, Counting, Complete, records
  <2>3. Deciding' /\ Stored'
    BY DEF TypeOK, Deciding, Stored, records, Decisions
  <2>4. SeenEvaluated' /\ EvaluatedHasCompleteCase' /\ DecidedAfterEvaluation'
    BY DEF TypeOK, Counting, Deciding, SeenEvaluated, EvaluatedHasCompleteCase,
           DecidedAfterEvaluation, Complete, records
  <2>5. ShippedWasApproved'
    BY DEF TypeOK, Deciding, ShippedWasApproved, Approved, records
  <2> QED
    BY <2>1, <2>2, <2>3, <2>4, <2>5
<1>15. ASSUME NEW r \in Requests, WriteRolledBack(r) PROVE IInv'
  <2> USE <1>15 DEF WriteRolledBack, Write, Move, IInv
  <2>1. TypeOK'
    BY DEF TypeOK, Counting, Deciding, Statuses, Locations, records
  <2>2. Counting'
    BY DEF TypeOK, Counting, Complete, records
  <2>3. Deciding' /\ Stored'
    BY DEF TypeOK, Deciding, Stored, records, Decisions
  <2>4. SeenEvaluated' /\ EvaluatedHasCompleteCase' /\ DecidedAfterEvaluation'
    BY DEF TypeOK, Counting, Deciding, SeenEvaluated, EvaluatedHasCompleteCase,
           DecidedAfterEvaluation, Complete, records
  <2>5. ShippedWasApproved'
    BY DEF TypeOK, Deciding, ShippedWasApproved, Approved, records
  <2> QED
    BY <2>1, <2>2, <2>3, <2>4, <2>5
<1>16. ASSUME NEW r \in Requests, GiveUp(r) PROVE IInv'
  <2> USE <1>16 DEF GiveUp, IInv
  <2>1. TypeOK'
    BY DEF TypeOK, Counting, Deciding, Statuses, Locations, records
  <2>2. Counting'
    BY DEF TypeOK, Counting, Complete, records
  <2>3. Deciding' /\ Stored'
    BY DEF TypeOK, Deciding, Stored, records, Decisions
  <2>4. SeenEvaluated' /\ EvaluatedHasCompleteCase' /\ DecidedAfterEvaluation'
    BY DEF TypeOK, Counting, Deciding, SeenEvaluated, EvaluatedHasCompleteCase,
           DecidedAfterEvaluation, Complete, records
  <2>5. ShippedWasApproved'
    BY DEF TypeOK, Deciding, ShippedWasApproved, Approved, records
  <2> QED
    BY <2>1, <2>2, <2>3, <2>4, <2>5
<1>17. CASE WorkerWritesStatus
  <2> USE <1>17 DEF WorkerWritesStatus, WorkerWrites, requestVars, records, IInv
  <2>1. TypeOK'
    BY DEF TypeOK, Statuses
  <2>2. (Counting /\ Deciding /\ Stored /\ SeenEvaluated)'
    BY DEF Counting, Deciding, Stored, SeenEvaluated, Complete
  <2>3. (EvaluatedHasCompleteCase /\ ShippedWasApproved /\ DecidedAfterEvaluation)'
    BY DEF EvaluatedHasCompleteCase, ShippedWasApproved, DecidedAfterEvaluation, Approved, Complete
  <2> QED
    BY <2>1, <2>2, <2>3
<1>18. CASE UNCHANGED vars
  <2> USE <1>18 DEF vars, requestVars, records, IInv
  <2>1. (TypeOK /\ Counting /\ Deciding /\ Stored /\ SeenEvaluated)'
    BY DEF TypeOK, Counting, Deciding, Stored, SeenEvaluated, Complete
  <2>2. (EvaluatedHasCompleteCase /\ ShippedWasApproved /\ DecidedAfterEvaluation)'
    BY DEF EvaluatedHasCompleteCase, ShippedWasApproved, DecidedAfterEvaluation, Approved, Complete
  <2> QED
    BY <2>1, <2>2
<1> QED
  BY <1>1, <1>2, <1>3, <1>4, <1>5, <1>6, <1>7, <1>8, <1>9, <1>10, <1>11, <1>12,
     <1>13, <1>14, <1>15, <1>16, <1>17, <1>18
  DEF Next, RequestNext, Handle

-----------------------------------------------------------------------------

\* The invariant holds in every reachable state.
LEMMA Invariance == Spec => []IInv
BY InitInv, StepInv, PTL DEF Spec

\* The variables have their types: no status outside the enum is written and
\* no evaluation stores more responses than there are candidates.
THEOREM Typing == Spec => []TypeOK
<1>1. IInv => TypeOK
  BY DEF IInv
<1> QED
  BY <1>1, Invariance, PTL

\* Nothing is approved, deployed or resolved without a stored approval,
\* however many stale requests overlap.
THEOREM ShippingNeedsApproval == Spec => []ShippedWasApproved
<1>1. IInv => ShippedWasApproved
  BY DEF IInv
<1> QED
  BY <1>1, Invariance, PTL

\* An incident that counts as evaluated has a case with all its responses,
\* although evaluations may stop half-way and others overwrite the status.
THEOREM EvaluationIsBacked == Spec => []EvaluatedHasCompleteCase
<1>1. IInv => EvaluatedHasCompleteCase
  BY DEF IInv
<1> QED
  BY <1>1, Invariance, PTL

\* Every decision on record was made after an evaluation had all its responses,
\* whichever case it cites and however stale the status its handler read.
THEOREM DecisionsFollowEvaluation == Spec => []DecidedAfterEvaluation
<1>1. IInv => DecidedAfterEvaluation
  BY DEF IInv
<1> QED
  BY <1>1, Invariance, PTL

=============================================================================
