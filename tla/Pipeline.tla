------------------------------ MODULE Pipeline ------------------------------
(***************************************************************************)
(* From the request to the investigation: the incident is created with its *)
(* outbox event, the outbox hands the event to the job queue, a worker     *)
(* runs the job.  The outbox is what OutboxContract promises (module       *)
(* Outbox implements it), the queue with its worker what JobContract       *)
(* promises (module Investigation implements it).                          *)
(*                                                                         *)
(* The queue holds one job for each event, named after it, and adds no     *)
(* second one while it has the first.  It keeps a finished job for a day,  *)
(* or until a thousand others have finished (removeOnComplete), and then   *)
(* would take the event for a new one.                                     *)
(*                                                                         *)
(* A definition introduced as a slip is used by no specification: it is    *)
(* a mistake this code could well contain, kept here to show that a        *)
(* property would notice it.                                               *)
(***************************************************************************)
EXTENDS IncidentCreation, Naturals

VARIABLES
    handed, settled, abandoned, stranded,  \* see OutboxContract
    job,           \* state of the event's job in the queue
    jobs,          \* jobs the queue has made for the event (history)
    forgotten      \* events whose finished job the queue has removed

outboxVars == <<handed, settled, abandoned, stranded>>
queueVars == <<job, jobs, forgotten>>
pipelineVars == <<vars, outboxVars, queueVars>>

Outbox == INSTANCE OutboxContract WITH Events <- Requests, recorded <- events

Queue == INSTANCE JobContract WITH Jobs <- Requests

JobEnded == Queue!Ended

PipelineTypeOK ==
    /\ TypeOK
    /\ settled \subseteq handed /\ handed \subseteq events /\ abandoned \subseteq events
    /\ stranded \subseteq events
    /\ job \in [Requests -> {"none", "waiting", "active"} \cup JobEnded]
    /\ jobs \in [Requests -> Nat]
    /\ forgotten \subseteq Requests

PipelineInit ==
    /\ Init
    /\ handed = {} /\ settled = {} /\ abandoned = {} /\ stranded = {}
    /\ job = [r \in Requests |-> "none"]
    /\ jobs = [r \in Requests |-> 0]
    /\ forgotten = {}

Untouched == UNCHANGED <<incidents, faults, audits, open, key, at, answer>>

\* Slip: the job is added without an id of its own.
AddIncidentJobAgain(r) ==
    /\ job' = [job EXCEPT ![r] = "waiting"]
    /\ jobs' = [jobs EXCEPT ![r] = @ + 1]

\* incidentQueue.add with the id of the event.
AddIncidentJob(r) ==
    IF job[r] = "none"
    THEN Queue!Add(r) /\ jobs' = [jobs EXCEPT ![r] = @ + 1]
    ELSE UNCHANGED <<job, jobs>>

\* An event that is claimed is handed over, once more if it was reopened.
Deliver(r) ==
    /\ Outbox!Hand(r)
    /\ AddIncidentJob(r)
    /\ Untouched /\ UNCHANGED <<stranded, forgotten>>

\* The rest of the contract: markPublished, and markFailed after a call that
\* rejected.
Acknowledge(r) ==
    /\ Outbox!Settle(r) \/ Outbox!Reopen(r) \/ Outbox!Abandon(r)
    /\ Untouched /\ UNCHANGED <<stranded, queueVars>>

\* A poller loses the row it has claimed, handed over or not.
Strand(r) ==
    /\ r \in Outbox!Owed
    /\ stranded' = stranded \cup {r}
    /\ UNCHANGED <<vars, handed, settled, abandoned, queueVars>>

StartJob(r) ==
    /\ Queue!Start(r)
    /\ UNCHANGED <<vars, outboxVars, jobs, forgotten>>

\* The first transition() throws if the incident is not there.
EndJob(r) ==
    /\ Queue!Finish(r)
    /\ job'[r] = "completed" => r \in incidents
    /\ UNCHANGED <<vars, outboxVars, jobs, forgotten>>

\* Bound: once for each event.
ForgetJob(r) ==
    /\ Queue!Forget(r)
    /\ r \notin forgotten
    /\ forgotten' = forgotten \cup {r}
    /\ UNCHANGED <<vars, outboxVars, jobs>>

DeliveryNext(r) ==
    Deliver(r) \/ Acknowledge(r) \/ Strand(r) \/ StartJob(r) \/ EndJob(r) \/ ForgetJob(r)

CreationNext == Next /\ UNCHANGED <<outboxVars, queueVars>>

PipelineNext == CreationNext \/ \E r \in Requests : DeliveryNext(r)

\* The outbox hands over what it can (SettlesUnlessStranded of module Outbox),
\* and jobs are run and end (JobEnds of module Investigation).
DeliveryFairness ==
    \A r \in Requests :
        /\ WF_pipelineVars(Deliver(r))
        /\ WF_pipelineVars(StartJob(r))
        /\ WF_pipelineVars(EndJob(r))

PipelineSpec ==
    PipelineInit /\ [][PipelineNext]_pipelineVars /\ Fairness /\ DeliveryFairness

-----------------------------------------------------------------------------
(* Properties.                                                             *)

\* A job never runs ahead of the transaction that asked for it: its incident
\* and the injected fault are there, even if the client got an error.
JobFindsIncident == \A r \in Requests : job[r] # "none" => r \in incidents /\ r \in faults

\* However often its event is handed over again, because a call rejected or an
\* acknowledgement was lost, an incident gets a second job only when the queue
\* has forgotten that the first one has finished.
SecondJobWasForgotten == \A r \in Requests : jobs[r] > 1 => r \in forgotten

\* Every incident that was committed, whatever its client was told, is
\* investigated to the end of its job, unless the outbox gives its event up or
\* strands it.
IncidentsAreInvestigated ==
    \A r \in Requests :
        r \in incidents ~> job[r] \in JobEnded \/ r \in forgotten \cup abandoned \cup stranded

=============================================================================
