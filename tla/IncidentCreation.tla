-------------------------- MODULE IncidentCreation --------------------------
(***************************************************************************)
(* POST .../incidents: the creation of an incident run, with its fault     *)
(* injection and its outbox event, under an optional idempotency key.      *)
(*                                                                         *)
(* The handler looks for the key, then for the scenario, then inserts      *)
(* three rows in one transaction, and writes the audit event after the     *)
(* commit.  Duplicates of a request overlap at any of these calls; the     *)
(* unique index on the key makes an insert wait for the transaction that   *)
(* has inserted the same key, and refuses it once that has committed.      *)
(* An incident is named by the request that created it.                    *)
(*                                                                         *)
(* A definition introduced as a slip is used by no specification: it is    *)
(* a mistake this code could well contain, kept here to show that a        *)
(* property would notice it.                                               *)
(***************************************************************************)
EXTENDS FiniteSets

CONSTANTS
    Requests,      \* requests, duplicates and retries of a client included
    Keys,          \* idempotency keys
    NoKey,         \* the request carries no key
    NoIncident     \* an answer that names no incident

ASSUME KeysAssumption == NoKey \notin Keys
ASSUME NamesAssumption == NoIncident \notin Requests

VARIABLES
    incidents, faults, events,  \* committed rows, by the request that inserted them
    audits,                     \* incidents with an audit event
    open,                       \* rows each request's transaction has inserted
    key,                        \* the key each request carries
    at,                         \* where its handler is
    answer                      \* what the client was told

tables == <<incidents, faults, events>>
vars == <<tables, audits, open, key, at, answer>>

Rows == {"incident", "fault", "event"}

InTransaction == {"inserting", "faulting", "enqueueing", "committing"}

Locations == InTransaction \cup {"new", "checking", "finding", "auditing", "done"}

Answers == [kind : {"none", "created", "existing", "notFound", "conflict", "error"},
            incident : Requests \cup {NoIncident}]

TypeOK ==
    /\ incidents \subseteq Requests
    /\ faults \subseteq Requests
    /\ events \subseteq Requests
    /\ audits \subseteq Requests
    /\ open \in [Requests -> SUBSET Rows]
    /\ key \in [Requests -> Keys \cup {NoKey}]
    /\ at \in [Requests -> Locations]
    /\ answer \in [Requests -> Answers]

NoAnswer == [kind |-> "none", incident |-> NoIncident]

Init ==
    /\ incidents = {}
    /\ faults = {}
    /\ events = {}
    /\ audits = {}
    /\ open = [r \in Requests |-> {}]
    /\ key = [r \in Requests |-> NoKey]
    /\ at = [r \in Requests |-> "new"]
    /\ answer = [r \in Requests |-> NoAnswer]

-----------------------------------------------------------------------------

\* The incident that has the key of r, if one was committed.
Existing(r) == {i \in incidents : key[r] # NoKey /\ key[i] = key[r]}

Go(r, to) == at' = [at EXCEPT ![r] = to] /\ UNCHANGED answer

Reply(r, kind, incident) ==
    /\ at' = [at EXCEPT ![r] = "done"]
    /\ answer' = [answer EXCEPT ![r] = [kind |-> kind, incident |-> incident]]

Arrive(r) ==
    /\ at[r] = "new"
    /\ \E k \in Keys \cup {NoKey} : key' = [key EXCEPT ![r] = k]
    /\ Go(r, "checking")
    /\ UNCHANGED <<tables, audits, open>>

CheckKey(r) ==
    /\ at[r] = "checking"
    /\ \/ Existing(r) = {} /\ Go(r, "finding")
       \/ \E i \in Existing(r) : Reply(r, "existing", i)
    /\ UNCHANGED <<tables, audits, open, key>>

FindScenario(r) ==
    /\ at[r] = "finding"
    /\ Go(r, "inserting") \/ Reply(r, "notFound", NoIncident)
    /\ UNCHANGED <<tables, audits, open, key>>

\* Slip: there is no unique index on the key.
KeyIsNeverTaken(r) == FALSE

\* Another transaction has inserted the key of r and is still open.
KeyIsTaken(r) ==
    \E s \in Requests \ {r} : "incident" \in open[s] /\ key[r] # NoKey /\ key[s] = key[r]

\* Slip: the conflict on the key is taken for a success of this request.
InsertIncidentOrPretend(r) ==
    /\ at[r] = "inserting"
    /\ ~KeyIsTaken(r)
    /\ \/ /\ Existing(r) = {}
          /\ open' = [open EXCEPT ![r] = {"incident"}]
          /\ Go(r, "faulting")
       \/ Existing(r) # {} /\ Reply(r, "existing", r) /\ UNCHANGED open
    /\ UNCHANGED <<tables, audits, key>>

InsertIncident(r) ==
    /\ at[r] = "inserting"
    /\ ~KeyIsTaken(r)
    /\ \/ /\ Existing(r) = {}
          /\ open' = [open EXCEPT ![r] = {"incident"}]
          /\ Go(r, "faulting")
       \/ /\ Existing(r) # {}
          /\ Reply(r, "conflict", NoIncident)
          /\ UNCHANGED open
    /\ UNCHANGED <<tables, audits, key>>

InsertFault(r) ==
    /\ at[r] = "faulting"
    /\ open' = [open EXCEPT ![r] = @ \cup {"fault"}]
    /\ Go(r, "enqueueing")
    /\ UNCHANGED <<tables, audits, key>>

\* Slip: enqueue is called without the client of the transaction.
EnqueueEventOutside(r) ==
    /\ at[r] = "enqueueing"
    /\ events' = events \cup {r}
    /\ Go(r, "committing")
    /\ UNCHANGED <<incidents, faults, audits, open, key>>

\* Slip: enqueue is not awaited, and its insert comes after the commit, too late.
EnqueueEventUnawaited(r) ==
    /\ at[r] = "enqueueing"
    /\ Go(r, "committing")
    /\ UNCHANGED <<tables, audits, open, key>>

\* OutboxRepository.enqueue with the client of the transaction.
EnqueueEvent(r) ==
    /\ at[r] = "enqueueing"
    /\ open' = [open EXCEPT ![r] = @ \cup {"event"}]
    /\ Go(r, "committing")
    /\ UNCHANGED <<tables, audits, key>>

Inserted(r, row) == IF row \in open[r] THEN {r} ELSE {}

\* The rows of the open transaction become visible.
MakeVisible(r) ==
    /\ incidents' = incidents \cup Inserted(r, "incident")
    /\ faults' = faults \cup Inserted(r, "fault")
    /\ events' = events \cup Inserted(r, "event")

\* Slip: a transaction is never ended.
CloseTransactionNever(r) == UNCHANGED open

CloseTransaction(r) == open' = [open EXCEPT ![r] = {}]

Commit(r) ==
    /\ at[r] = "committing"
    /\ MakeVisible(r)
    /\ CloseTransaction(r)
    /\ Go(r, "auditing")
    /\ UNCHANGED <<audits, key>>

Audit(r) ==
    /\ at[r] = "auditing"
    /\ audits' = audits \cup {r}
    /\ Reply(r, "created", r)
    /\ UNCHANGED <<tables, open, key>>

\* Slip: what failed is cleaned up, also what had been committed before.
FailAndDelete(r) ==
    /\ at[r] \notin {"new", "done"}
    /\ Reply(r, "error", NoIncident)
    /\ CloseTransaction(r)
    /\ incidents' = incidents \ {r} /\ faults' = faults \ {r} /\ events' = events \ {r}
    /\ UNCHANGED <<audits, key>>

\* A call rejects or the process dies: an open transaction is rolled back and
\* the client gets an error or nothing.  A commit or an audit event whose reply
\* was lost may be there all the same.
Fail(r) ==
    /\ at[r] \notin {"new", "done"}
    /\ Reply(r, "error", NoIncident)
    /\ CloseTransaction(r)
    /\ UNCHANGED tables \/ (at[r] = "committing" /\ MakeVisible(r))
    /\ UNCHANGED audits \/ (at[r] = "auditing" /\ audits' = audits \cup {r})
    /\ UNCHANGED key

Handle(r) ==
    \/ CheckKey(r) \/ FindScenario(r)
    \/ InsertIncident(r) \/ InsertFault(r) \/ EnqueueEvent(r) \/ Commit(r)
    \/ Audit(r)

Next == \E r \in Requests : Arrive(r) \/ Handle(r) \/ Fail(r)

Spec == Init /\ [][Next]_vars

\* Every call is answered in the end.  An insert that waits for a key goes on
\* once no other transaction holds it.
Fairness == \A r \in Requests : WF_vars(Handle(r))

FairSpec == Spec /\ Fairness

-----------------------------------------------------------------------------
(* Properties.                                                             *)

\* No fault and no outbox event without its incident, and no incident the
\* worker will never hear of, whichever call of the transaction rejects.
CommittedTogether == faults = incidents /\ events = incidents

\* Overlapping duplicates that have all missed the key in the first query
\* still create one incident.
OneIncidentPerKey ==
    \A i, j \in incidents : key[i] = key[j] /\ key[i] # NoKey => i = j

Told(r) == answer[r].kind \in {"created", "existing"}

\* Whoever is told of an incident under a key is told of the same one, and it
\* exists.
AnswersAgree ==
    \A r, s \in Requests :
        /\ Told(r) => answer[r].incident \in incidents
        /\ Told(r) /\ Told(s) /\ key[r] = key[s] /\ key[r] # NoKey =>
            answer[r].incident = answer[s].incident

\* A duplicate is refused only when the incident it asks for is there, so that
\* the next attempt finds it.
ConflictFindsIncident ==
    \A r \in Requests : answer[r].kind = "conflict" => Existing(r) # {}

Contract ==
    INSTANCE CreationContract WITH
        asked <- {r \in Requests : at[r] # "new"}, made <- incidents, reply <- answer

\* Queries, a transaction that others wait for and an audit event after it,
\* each of which may fail, are to the clients as if each request had been
\* served in one moment.
ImplementsCreationContract == Contract!Spec

\* No duplicate waits forever for the key another one has inserted.
EveryRequestEnds == \A r \in Requests : at[r] = "checking" ~> at[r] = "done"

\* "Append-only audit history for sensitive actions": an incident a client was
\* told of is in the audit history once the request that created it has ended.
ToldIsAudited ==
    \A r \in Requests :
        LET i == answer[r].incident IN Told(r) /\ at[i] = "done" => i \in audits

=============================================================================
