------------------------------- MODULE Outbox -------------------------------
(***************************************************************************)
(* The transactional outbox: rows of outbox_events (OutboxRepository), the *)
(* pollers that move them to the job queue (OutboxPoller) and the life     *)
(* cycle of the worker process a poller runs in (WorkerServer, main).      *)
(*                                                                         *)
(* Every database call and every queue call is a step of its own, so two   *)
(* pollers, a failing call, a shutdown or a crash can come between any two *)
(* of them.  The claiming transaction is two steps, the locking SELECT and *)
(* the commit of the UPDATE, because that is where SKIP LOCKED matters.    *)
(* The job queue (BullMQ) is external: a set of job ids, which ignores an  *)
(* add whose id it already holds.                                          *)
(*                                                                         *)
(* A definition introduced as a slip is used by no specification: it is    *)
(* a mistake this code could well contain, kept here to show that a        *)
(* property would notice it.                                               *)
(***************************************************************************)
EXTENDS Naturals, FiniteSets

CONSTANTS
    Events,        \* outbox events, numbered in the order of created_at
    Pollers,       \* poll loops, one per worker process
    NoPoller,      \* the owner of an unlocked row
    BatchLimit,    \* rows claimed by one fetch (10 in the code)
    MaxRetries,    \* failed attempts after which an event is given up (5)
    MaxFaults,     \* bound: failing database or queue calls
    MaxAborts,     \* bound: turns cut short with rows claimed
    MaxExits       \* bound: crashes and shutdowns of worker processes

ASSUME EventsAssumption == Events \subseteq Nat /\ IsFiniteSet(Events)
ASSUME PollersAssumption == NoPoller \notin Pollers
ASSUME LimitsAssumption == BatchLimit \in Nat \ {0} /\ MaxRetries \in Nat \ {0}
ASSUME BoundsAssumption == MaxFaults \in Nat /\ MaxAborts \in Nat /\ MaxExits \in Nat

VARIABLES
    status,        \* status column; "ABSENT" before the row is committed
    retryCount,    \* retry_count column
    rowLock,       \* the claiming transaction that holds the row lock
    jobs,          \* events whose job `outbox-<id>` is in the queue
    pc,            \* where each poll loop is; "fetching": in a turn that began
                   \* before the signal, with the SELECT still to come
    batch,         \* events the loop has still to handle
    seenRetries,   \* retryCount as the running markFailed has read it, else 0
    running,       \* isRunning: FALSE once the process is shutting down
    failures,      \* attempts that ended in the catch block (history)
    faults, aborts, exits  \* how much of each bound was used

rows == <<status, retryCount, rowLock>>
loop == <<pc, batch, seenRetries>>
bounds == <<faults, aborts, exits>>
vars == <<rows, jobs, loop, running, failures, bounds>>

Statuses == {"PENDING", "PROCESSING", "PUBLISHED", "FAILED"}

Locations == {"idle", "fetching", "claiming", "looping", "added", "caught", "counted", "down"}

TypeOK ==
    /\ status \in [Events -> Statuses \cup {"ABSENT"}]
    /\ retryCount \in [Events -> 0..MaxRetries]
    /\ rowLock \in [Events -> Pollers \cup {NoPoller}]
    /\ jobs \subseteq Events
    /\ pc \in [Pollers -> Locations]
    /\ batch \in [Pollers -> SUBSET Events]
    /\ seenRetries \in [Pollers -> 0..MaxRetries]
    /\ running \in [Pollers -> BOOLEAN]
    /\ failures \in [Events -> Nat]
    /\ faults \in 0..MaxFaults
    /\ aborts \in 0..MaxAborts
    /\ exits \in 0..MaxExits

Init ==
    /\ status = [e \in Events |-> "ABSENT"]
    /\ retryCount = [e \in Events |-> 0]
    /\ rowLock = [e \in Events |-> NoPoller]
    /\ jobs = {}
    /\ pc = [p \in Pollers |-> "idle"]
    /\ batch = [p \in Pollers |-> {}]
    /\ seenRetries = [p \in Pollers |-> 0]
    /\ running = [p \in Pollers |-> TRUE]
    /\ failures = [e \in Events |-> 0]
    /\ faults = 0
    /\ aborts = 0
    /\ exits = 0

-----------------------------------------------------------------------------
(* The database.                                                           *)

\* OutboxRepository.enqueue, committed with the transaction it is part of.
\* Transactions may commit in another order than that of created_at.
Enqueue(e) ==
    /\ status[e] = "ABSENT"
    /\ status' = [status EXCEPT ![e] = "PENDING"]
    /\ UNCHANGED <<retryCount, rowLock, jobs, loop, running, failures, bounds>>

\* Slip: the SELECT of the claim takes no row locks.
ClaimableIgnoringLocks == {e \in Events : status[e] = "PENDING"}

\* Slip: the SELECT asks for retries to be left, and is one short.
ClaimableWithRetriesLeft ==
    {e \in Events : status[e] = "PENDING" /\ rowLock[e] = NoPoller
                      /\ retryCount[e] + 1 < MaxRetries}

\* WHERE status = 'PENDING' ... FOR UPDATE SKIP LOCKED
Claimable == {e \in Events : status[e] = "PENDING" /\ rowLock[e] = NoPoller}

\* ORDER BY created_at ASC LIMIT n
Oldest(S, n) == {e \in S : Cardinality({f \in S : f < e}) < n}

Unlocked(p) == [e \in Events |-> IF rowLock[e] = p THEN NoPoller ELSE rowLock[e]]

-----------------------------------------------------------------------------
(* One turn of the poll loop: processBatch.                                *)

\* isRunning is tested at the head of the turn, before the transaction.
FetchSelect(p) ==
    /\ pc[p] = "fetching" \/ (pc[p] = "idle" /\ running[p])
    /\ Claimable # {}
    /\ LET claimed == Oldest(Claimable, BatchLimit) IN
        /\ batch' = [batch EXCEPT ![p] = claimed]
        /\ rowLock' = [e \in Events |-> IF e \in claimed THEN p ELSE rowLock[e]]
    /\ pc' = [pc EXCEPT ![p] = "claiming"]
    /\ UNCHANGED <<status, retryCount, jobs, seenRetries, running, failures, bounds>>

FetchCommit(p) ==
    /\ pc[p] = "claiming"
    /\ status' = [e \in Events |-> IF e \in batch[p] THEN "PROCESSING" ELSE status[e]]
    /\ rowLock' = Unlocked(p)
    /\ pc' = [pc EXCEPT ![p] = "looping"]
    /\ UNCHANGED <<retryCount, jobs, batch, seenRetries, running, failures, bounds>>

\* The claim is committed and its reply is lost.  processBatch rejects all the
\* same: the rows stay in PROCESSING and the poll loop knows none of them.
FetchCommitThrows(p) ==
    /\ pc[p] = "claiming"
    /\ aborts < MaxAborts
    /\ aborts' = aborts + 1
    /\ status' = [e \in Events |-> IF e \in batch[p] THEN "PROCESSING" ELSE status[e]]
    /\ rowLock' = Unlocked(p)
    /\ batch' = [batch EXCEPT ![p] = {}]
    /\ pc' = [pc EXCEPT ![p] = "idle"]
    /\ UNCHANGED <<retryCount, jobs, seenRetries, running, failures, faults, exits>>

\* Slip: the next turn is arranged only after a turn that succeeded.
FetchFailsForGood(p) ==
    /\ pc[p] = "claiming"
    /\ faults < MaxFaults
    /\ faults' = faults + 1
    /\ rowLock' = Unlocked(p)
    /\ batch' = [batch EXCEPT ![p] = {}]
    /\ pc' = [pc EXCEPT ![p] = "over"]
    /\ UNCHANGED <<status, retryCount, jobs, seenRetries, running, failures, aborts, exits>>

\* The claiming transaction fails before its commit: it is rolled back,
\* processBatch rejects and the poll loop waits for its next turn.
FetchFails(p) ==
    /\ pc[p] = "claiming"
    /\ faults < MaxFaults
    /\ faults' = faults + 1
    /\ rowLock' = Unlocked(p)
    /\ batch' = [batch EXCEPT ![p] = {}]
    /\ pc' = [pc EXCEPT ![p] = "idle"]
    /\ UNCHANGED <<status, retryCount, jobs, seenRetries, running, failures, aborts, exits>>

\* The event the for loop is at: the oldest that is left of the batch.
Current(p) == CHOOSE e \in batch[p] : \A f \in batch[p] : e <= f

\* Slip: the loop is left after its first event.
AdvanceAndLeave(p) ==
    /\ batch' = [batch EXCEPT ![p] = {}]
    /\ pc' = [pc EXCEPT ![p] = "idle"]

\* The for loop goes on with the next event, or ends.
Advance(p) ==
    /\ batch' = [batch EXCEPT ![p] = @ \ {Current(p)}]
    /\ pc' = [pc EXCEPT ![p] = IF batch[p] = {Current(p)} THEN "idle" ELSE "looping"]

\* Slip: add is not awaited, and its failure is nobody's.
AddJobUnawaited(p) ==
    /\ pc[p] = "looping"
    /\ jobs' \in {jobs, jobs \cup {Current(p)}}
    /\ pc' = [pc EXCEPT ![p] = "added"]
    /\ UNCHANGED <<rows, batch, seenRetries, running, failures, bounds>>

AddJob(p) ==
    /\ pc[p] = "looping"
    /\ jobs' = jobs \cup {Current(p)}
    /\ pc' = [pc EXCEPT ![p] = "added"]
    /\ UNCHANGED <<rows, batch, seenRetries, running, failures, bounds>>

\* incidentQueue.add rejects: the queue could not be reached, only its reply
\* was lost, or the shutdown of this process has closed the queue.
AddJobFails(p) ==
    /\ pc[p] = "looping"
    /\ \/ faults < MaxFaults /\ faults' = faults + 1 /\ jobs' \in {jobs, jobs \cup {Current(p)}}
       \/ ~running[p] /\ faults' = faults /\ jobs' = jobs
    /\ failures' = [failures EXCEPT ![Current(p)] = @ + 1]
    /\ pc' = [pc EXCEPT ![p] = "caught"]
    /\ UNCHANGED <<rows, batch, seenRetries, running, aborts, exits>>

MarkPublished(p) ==
    /\ pc[p] = "added"
    /\ status' = [status EXCEPT ![Current(p)] = "PUBLISHED"]
    /\ Advance(p)
    /\ UNCHANGED <<retryCount, rowLock, jobs, seenRetries, running, failures, bounds>>

\* markPublished rejects, and its update may have been committed all the same.
MarkPublishedFails(p) ==
    /\ pc[p] = "added"
    /\ faults < MaxFaults
    /\ faults' = faults + 1
    /\ status' \in {status, [status EXCEPT ![Current(p)] = "PUBLISHED"]}
    /\ failures' = [failures EXCEPT ![Current(p)] = @ + 1]
    /\ pc' = [pc EXCEPT ![p] = "caught"]
    /\ UNCHANGED <<retryCount, rowLock, jobs, batch, seenRetries, running, aborts, exits>>

\* markFailed, first call: read the row.
MarkFailedRead(p) ==
    /\ pc[p] = "caught"
    /\ seenRetries' = [seenRetries EXCEPT ![p] = retryCount[Current(p)]]
    /\ pc' = [pc EXCEPT ![p] = "counted"]
    /\ UNCHANGED <<rows, jobs, batch, running, failures, bounds>>

\* Slip: the retry is granted but not counted.
WriteFailureUncounted(p) ==
    /\ status' = [status EXCEPT ![Current(p)] =
                    IF seenRetries[p] + 1 >= MaxRetries THEN "FAILED" ELSE "PENDING"]
    /\ UNCHANGED retryCount

\* What the update of markFailed writes, whatever the row now holds.
WriteFailure(p) ==
    LET nextRetry == seenRetries[p] + 1
        isExhausted == nextRetry >= MaxRetries IN
        /\ status' = [status EXCEPT ![Current(p)] =
                        IF isExhausted THEN "FAILED" ELSE "PENDING"]
        /\ retryCount' = [retryCount EXCEPT ![Current(p)] = nextRetry]

MarkFailedWrite(p) ==
    /\ pc[p] = "counted"
    /\ WriteFailure(p)
    /\ Advance(p)
    /\ seenRetries' = [seenRetries EXCEPT ![p] = 0]
    /\ UNCHANGED <<rowLock, jobs, running, failures, bounds>>

\* One of the calls of markFailed rejects.  Nothing catches that inside the
\* for loop: processBatch rejects and the rest of the batch is left behind.
MarkFailedThrows(p) ==
    /\ aborts < MaxAborts
    /\ aborts' = aborts + 1
    /\ \/ pc[p] \in {"caught", "counted"} /\ UNCHANGED <<status, retryCount>>
       \/ pc[p] = "counted" /\ WriteFailure(p)
    /\ batch' = [batch EXCEPT ![p] = {}]
    /\ seenRetries' = [seenRetries EXCEPT ![p] = 0]
    /\ pc' = [pc EXCEPT ![p] = "idle"]
    /\ UNCHANGED <<rowLock, jobs, running, failures, faults, exits>>

-----------------------------------------------------------------------------
(* The worker process.                                                     *)

\* A signal: OutboxPoller.stop clears the timer and forgets the turn that is
\* in flight, of which an idle loop may have made the head only.
Stop(p) ==
    /\ running[p]
    /\ pc[p] # "down"
    /\ exits < MaxExits
    /\ exits' = exits + 1
    /\ running' = [running EXCEPT ![p] = FALSE]
    /\ \/ pc' = pc
       \/ pc[p] = "idle" /\ pc' = [pc EXCEPT ![p] = "fetching"]
    /\ UNCHANGED <<rows, jobs, batch, seenRetries, failures, faults, aborts>>

\* The process is gone: the database rolls an open transaction back.
Halt(p) ==
    /\ rowLock' = Unlocked(p)
    /\ batch' = [batch EXCEPT ![p] = {}]
    /\ seenRetries' = [seenRetries EXCEPT ![p] = 0]
    /\ pc' = [pc EXCEPT ![p] = "down"]
    /\ running' = [running EXCEPT ![p] = FALSE]

\* The end of shutdown: process.exit(0), wherever the poll loop is.
Exit(p) ==
    /\ ~running[p]
    /\ pc[p] # "down"
    /\ Halt(p)
    /\ UNCHANGED <<status, retryCount, jobs, failures, bounds>>

Crash(p) ==
    /\ running[p]
    /\ exits < MaxExits
    /\ exits' = exits + 1
    /\ Halt(p)
    /\ UNCHANGED <<status, retryCount, jobs, failures, faults, aborts>>

Restart(p) ==
    /\ pc[p] = "down"
    /\ pc' = [pc EXCEPT ![p] = "idle"]
    /\ running' = [running EXCEPT ![p] = TRUE]
    /\ UNCHANGED <<rows, jobs, batch, seenRetries, failures, bounds>>

-----------------------------------------------------------------------------

\* What a poll loop does of its own accord when no call fails.
Progress(p) ==
    \/ FetchSelect(p) \/ FetchCommit(p) \/ AddJob(p) \/ MarkPublished(p)
    \/ MarkFailedRead(p) \/ MarkFailedWrite(p)

Disturbance(p) ==
    \/ FetchFails(p) \/ FetchCommitThrows(p) \/ AddJobFails(p) \/ MarkPublishedFails(p)
    \/ MarkFailedThrows(p) \/ Stop(p) \/ Crash(p)

Next ==
    \/ \E e \in Events : Enqueue(e)
    \/ \E p \in Pollers : Progress(p) \/ Disturbance(p) \/ Exit(p) \/ Restart(p)

Spec == Init /\ [][Next]_vars

\* The event loop runs the loop's continuations; a stopped process ends and
\* the platform restarts it.  Nothing is assumed of failing calls or signals,
\* only that there are finitely many of them.
Fairness ==
    \A p \in Pollers : WF_vars(Progress(p)) /\ WF_vars(Exit(p)) /\ WF_vars(Restart(p))

FairSpec == Spec /\ Fairness

-----------------------------------------------------------------------------
(* Properties.                                                             *)

Held == UNION {batch[p] : p \in Pollers}

\* No event is ever in the hands of two pollers: what the comment on
\* fetchPendingBatch calls single-consumer processing.
SingleConsumer ==
    \A p, q \in Pollers : p # q => batch[p] \cap batch[q] = {}

\* An event is recorded as published only if its job was accepted by the
\* queue: no interleaving of a failing add with another loop loses the job.
PublishedWasAdded ==
    \A e \in Events : status[e] = "PUBLISHED" => e \in jobs

\* markFailed reads and writes retry_count in two calls, and yet no failed
\* attempt is lost or counted twice: an event that waits again has been
\* charged every failure it met, and one that was given up met MaxRetries.
RetriesAreExact ==
    \A e \in Events :
        /\ status[e] = "PENDING" => retryCount[e] = failures[e]
        /\ status[e] = "FAILED" => failures[e] = MaxRetries

\* Rows in PROCESSING that no loop holds: nothing in the code selects them
\* again.
Stranded == {e \in Events : status[e] = "PROCESSING" /\ e \notin Held}

\* Rows are stranded only by a process that ended, a markFailed that threw or a
\* claim whose commit took effect and whose reply was lost, one batch at most
\* each time.
StrandedIsBounded ==
    Cardinality(Stranded) <= BatchLimit * (exits + aborts)

\* An event that was given up stays given up: no late loop publishes it, puts
\* it back or hands its job over.
FailedIsFinal ==
    [][\A e \in Events :
        status[e] = "FAILED" => status'[e] = "FAILED" /\ (e \in jobs' <=> e \in jobs)]_vars

Contract ==
    INSTANCE OutboxContract WITH
        recorded <- {e \in Events : status[e] # "ABSENT"},
        handed <- jobs,
        settled <- {e \in Events : status[e] = "PUBLISHED"},
        abandoned <- {e \in Events : status[e] = "FAILED"},
        stranded <- Stranded

\* The pollers, their locks, batches, retries and failures implement the
\* contract of the outbox.
ImplementsContract == Contract!Spec

\* Even with crashes, a pending event does not wait forever for a poller.
PendingIsClaimed ==
    \A e \in Events : status[e] = "PENDING" ~> status[e] # "PENDING"

\* Every committed event is at last published or given up, unless it is itself
\* one of the rows left behind: one stranded batch keeps no other event waiting.
SettlesUnlessStranded ==
    \A e \in Events :
        status[e] = "PENDING" ~> status[e] \in {"PUBLISHED", "FAILED"} \/ e \in Stranded

\* "Important background operations are ... recoverable": every committed
\* event is at last published or given up, whatever happens to a process.
EveryEventSettles ==
    \A e \in Events : status[e] = "PENDING" ~> status[e] \in {"PUBLISHED", "FAILED"}

=============================================================================
