------------------------- MODULE PublicationProofs --------------------------
(***************************************************************************)
(* What module Remediation promises still holds with publishers, and       *)
(* nothing is published that was not approved and fully evaluated, for     *)
(* every set of requests and publishers.  A publisher adds the case study  *)
(* long after it has seen the status; what it has seen stays true because  *)
(* approvals and complete cases are never taken back.                      *)
(***************************************************************************)
EXTENDS Publication, RemediationProofs

\* Some reviewer approved the incident and some evaluation of it is complete.
Vetted == Approved /\ \E c \in Requests : Complete(c)

\* A publisher that has passed the check of the status knows that much.
SeenVetted == \A p \in Publishers : publishAt[p] \in {"compiling", "adding"} => Vetted

PublicationInv ==
    /\ IInv
    /\ PublisherTypeOK
    /\ SeenVetted
    /\ PublishedWasApproved

-----------------------------------------------------------------------------

\* No step of the requests or of the job takes back an approval or a
\* complete evaluation.
LEMMA VettedStays == IInv /\ Vetted /\ [Next]_vars => Vetted'
<1> SUFFICES ASSUME IInv, Vetted, [Next]_vars PROVE Vetted'
    OBVIOUS
<1>1. PICK c \in Requests : Complete(c)
  BY DEF Vetted
<1>2. ASSUME NEW r \in Requests, CreateCase(r) PROVE Vetted'
  BY <1>1, <1>2 DEF CreateCase, Vetted, Complete, Approved
<1>3. ASSUME NEW r \in Requests, StoreResponse(r) PROVE Vetted'
  <2>1. at[r] = "responding" /\ responses[r] < Candidates /\ responses \in [Requests -> 0..Candidates]
    BY <1>3 DEF StoreResponse, Move, IInv, Counting, TypeOK
  <2>2. c # r
    BY <1>1, <2>1, CandidatesAssumption DEF Complete
  <2>3. responses'[c] = responses[c] /\ UNCHANGED <<cases, approvals>>
    BY <1>3, <2>1, <2>2 DEF StoreResponse
  <2> QED
    BY <1>1, <2>3 DEF Vetted, Complete, Approved
<1>4. ASSUME NEW r \in Requests, StoreApproval(r) PROVE Vetted'
  BY <1>1, <1>4 DEF StoreApproval, Vetted, Complete, Approved
<1>5. ASSUME UNCHANGED <<cases, responses, approvals>> PROVE Vetted'
  BY <1>1, <1>5 DEF Vetted, Complete, Approved
<1>6. ASSUME NEW r \in Requests, Handle(r) PROVE Vetted'
  BY <1>2, <1>3, <1>4, <1>5, <1>6
  DEF Handle, FindIncident, WriteEvaluated, ReviewIncident, ReadLatestCase, WriteDecision,
      CheckApproved, StartCanary, EvaluateSteps, Promote, ReadForRollback, WriteRolledBack,
      Read, Write, records
<1>7. ASSUME NEW r \in Requests, Arrive(r) \/ GiveUp(r) PROVE Vetted'
  BY <1>5, <1>7 DEF Arrive, GiveUp, records
<1>8. CASE WorkerWritesStatus \/ UNCHANGED vars
  BY <1>5, <1>8 DEF WorkerWritesStatus, vars, requestVars, records
<1> QED
  BY <1>6, <1>7, <1>8 DEF Next, RequestNext

LEMMA PublicationInitInv == PublicationInit => PublicationInv
<1> SUFFICES ASSUME PublicationInit PROVE PublicationInv
    OBVIOUS
<1>1. IInv
  BY InitInv DEF PublicationInit
<1>2. PublisherTypeOK /\ SeenVetted /\ PublishedWasApproved
  BY DEF PublicationInit, PublisherTypeOK, SeenVetted, PublishedWasApproved
<1> QED
  BY <1>1, <1>2 DEF PublicationInv

LEMMA PublicationStepInv ==
    PublicationInv /\ [PublicationNext]_allVars => PublicationInv'
<1> SUFFICES ASSUME PublicationInv, [PublicationNext]_allVars PROVE PublicationInv'
    OBVIOUS
<1> USE DEF PublicationInv
<1>1. ASSUME UNCHANGED vars PROVE IInv' /\ (Vetted => Vetted')
  BY StepInv, VettedStays, <1>1
<1>2. ASSUME NEW p \in Publishers, CheckResolved(p) PROVE PublicationInv'
  <2>1. UNCHANGED <<vars, library, patchCase>> /\ publishAt[p] = "new"
    BY <1>2 DEF CheckResolved, MovePublisher
  <2>2. publishAt'[p] = "compiling" => Vetted
    BY <1>2 DEF CheckResolved, MovePublisher, PublisherTypeOK, Vetted, IInv,
                ShippedWasApproved, EvaluatedHasCompleteCase
  <2>3. publishAt' = [publishAt EXCEPT ![p] = publishAt'[p]] /\ publishAt'[p] \in {"compiling", "done"}
    BY <1>2 DEF CheckResolved, MovePublisher, PublisherTypeOK
  <2> QED
    BY <1>1, <2>1, <2>2, <2>3
    DEF PublisherTypeOK, SeenVetted, PublishedWasApproved, Vetted
<1>3. ASSUME NEW p \in Publishers, ReadCases(p) PROVE PublicationInv'
  <2>1. cases \subseteq Requests
    BY DEF IInv, TypeOK
  <2> QED
    BY <1>1, <1>3, <2>1
    DEF ReadCases, MovePublisher, PatchOf, PublisherTypeOK, SeenVetted, PublishedWasApproved, Vetted
<1>4. ASSUME NEW p \in Publishers, AddCase(p) PROVE PublicationInv'
  BY <1>1, <1>4
  DEF AddCase, MovePublisher, PublisherTypeOK, SeenVetted, PublishedWasApproved, Vetted
<1>5. ASSUME NEW p \in Publishers, Refuse(p) PROVE PublicationInv'
  BY <1>1, <1>5
  DEF Refuse, MovePublisher, PublisherTypeOK, SeenVetted, PublishedWasApproved, Vetted
<1>6. CASE RestartApi
  BY <1>1, <1>6 DEF RestartApi, PublisherTypeOK, SeenVetted, PublishedWasApproved, Vetted
<1>7. ASSUME [Next]_vars, UNCHANGED publishVars PROVE PublicationInv'
  <2>1. IInv' /\ (Vetted => Vetted')
    BY <1>7, StepInv, VettedStays
  <2> QED
    BY <1>7, <2>1
    DEF publishVars, PublisherTypeOK, SeenVetted, PublishedWasApproved, Vetted
<1> QED
  BY <1>2, <1>3, <1>4, <1>5, <1>6, <1>7 DEF PublicationNext, Publish, allVars

LEMMA PublicationInvariance == PublicationSpec => []PublicationInv
BY PublicationInitInv, PublicationStepInv, PTL DEF PublicationSpec

-----------------------------------------------------------------------------

\* The library and the publishers keep their types: what is added is a case
\* study and never an evaluation case.
THEOREM PublicationTyping == PublicationSpec => []PublicationTypeOK
<1>1. PublicationInv => PublicationTypeOK
  BY DEF PublicationInv, IInv, PublicationTypeOK
<1> QED
  BY <1>1, PublicationInvariance, PTL

\* What the library shows was approved and fully evaluated, however long the
\* compilation takes and whatever happens to the incident meanwhile.
THEOREM PublishingNeedsApproval == PublicationSpec => []PublishedWasApproved
<1>1. PublicationInv => PublishedWasApproved
  BY DEF PublicationInv
<1> QED
  BY <1>1, PublicationInvariance, PTL

=============================================================================
