# FaultForge AI in TLA+

FaultForge AI injects a fault into a practice application, lets agents
investigate the incident, grades candidate patches in an arena, asks people to
approve one, rolls it out as a canary and publishes what was learned. This
directory holds TLA+ models of the parts that keep state, TLC configurations
that check them on small instances, and theorems about them with proofs for
TLAPS. Every definition is a translation of code; `PROJECT.json` names the lines.

## The system

| Component | State | Operations | Properties that make it correct | Module |
|---|---|---|---|---|
| Incident API, creation (`apps/api/src/routes/incidents.ts`) | incident, fault and outbox rows, audit events | POST /incidents under an idempotency key | one incident per key, its rows committed together, duplicates get one answer | `CreationContract`, `IncidentCreation` |
| Transactional outbox (`packages/database/src/outbox`, `outbox-poller.ts`) | `outbox_events`, the batch of each poll loop | enqueue, claim, add job, markPublished, markFailed | one consumer per event, no lost hand-over, exact retries, every event settles | `OutboxContract`, `Outbox` |
| Worker process (`apps/worker/src/index.ts`, `server.ts`) | whether it runs | start, SIGTERM, exit, crash | what a dying process may leave behind | `Outbox` |
| Incident job (`incident-processor.ts`, `state-machine.ts`, agent runtime) | status, evidence, hypothesis, agent runs, the job in the queue | the processor's calls, transition(), retries, stalls | a status or a finished job has its artifacts behind it, a job ends once | `JobContract`, `Investigation` |
| Arena rows, approval gate, canary, rollback | status, evaluation cases, responses, approvals | evaluate, approve, reject, deploy, roll back | nothing ships unapproved, no decision precedes an evaluation | `Remediation` |
| The incident as a whole | the shared status | the job and the requests together | each side is what the other assumes | `IncidentLifecycle` |
| Arena grading (rubric, anonymizer, evaluator) | scores, best candidate | anonymize, grade, name the winner | the best qualified candidate wins in every order | `Arena` |
| Reference library (compiler, indexer, publish route) | the entry in memory | publish, restart | what is published was approved | `Publication` |
| Commerce lab | stock, orders, the injected fault | checkout, inject, reset | the stock adds up, and the fault does only what it is meant to | `CommerceLab` |
| Payment lab | ledger, idempotency keys, snapshots, the injected fault | charge, inject, reset, save, restore | keys and ledger agree, only the fault charges twice | `PaymentLab` |
| Performance lab | the active scenario, retained buffers | hash, leak, inject, reset | | not modelled |
| List of labs behind the cache (`packages/database/src/cache.ts`, `routes/labs.ts`) | the cached list, readers in getOrSet | get, fetch, set, expire, invalidate | an old list does not stay | `Catalog` |
| Accounts (`packages/database/src/seed.ts`, `routes/auth.ts`, `routes/workspaces.ts`) | organization, workspaces, users, memberships, sessions | seed, mock login, callback, create a workspace | tables agree with each other and sessions with the tables | `Accounts` |
| Life of a session (`packages/security/src/session.ts`, `plugins/auth.ts`, `auth-context.tsx`) | session keys in Redis, the cookie, the user shown | /me, mock login, logout, rotate, write back, expire | a session keeps its end; what is shown is who is signed in | `WebSession` |
| From request to investigation | rows, outbox, job queue | create, hand over, acknowledge, run, forget | no job ahead of its incident, no job run twice, every incident investigated | `Pipeline` |
| Rendering of long lists (`packages/ui/src/virtual-list.tsx`) | rows, position, position last heard of | scroll, filter, handle the event | every row in view is rendered | `VirtualList` |
| Guards and roles, observability, configuration, pages of the web UI, scripts | see `PROJECT.json` | | | not modelled |

How they interact. The API and the workers share the PostgreSQL database. The
API creates an incident and its outbox event in one transaction; a poller of a
worker claims the event and adds a job to the BullMQ queue; a worker runs the job,
which writes the incident's status and artifacts; meanwhile requests of people
write the same status through the API. There are no messages back: the status
column is where the parts meet, and most of them read it, decide, and write it in
separate calls. Publication reads the result into a map in the memory of the API
process. The labs are servers of their own. Seeding and sign-ins fill the tables
that everything else refers to; a sign-in leaves a session in Redis and a cookie in
the browser, with which every later request finds its user.

What is hard here: several pollers and several API handlers interleave at every
database call; a call may reject, or its effect may be there and its reply lost; a
worker process may end between two calls; the queue may start a second run of a
job while the first goes on; timers give way between a read and a write. The
`hazards` of `PROJECT.json` list the main ones with their lines, the end of
"Findings" below what was seen beside them.

## Modules

`Outbox` keeps, for every row, its status, retry count and row lock, and for
every poll loop where it is (`pc`), the part of its batch still to handle and the
retry count that `markFailed` has read. Each database or queue call is an action:
`FetchSelect` and `FetchCommit` are the claiming transaction (the locking SELECT
with SKIP LOCKED, and the commit of the UPDATE), `AddJob`, `MarkPublished`,
`MarkFailedRead`, `MarkFailedWrite` follow the dispatch loop, the `...Fails` and
`...Throws` actions are the same calls rejecting, with the effect done or not
done where the code cannot know, and `Stop`, `Exit`, `Crash`, `Restart` are the
process. A claim may fail before its commit (`FetchFails`, rolled back) or after it
(`FetchCommitThrows`: the reply is lost, the rows stay in PROCESSING and no loop knows
them). The loop tests `isRunning` at the head of a turn: "fetching" is a turn that had
begun when the signal came. Events are numbered in the order of `created_at` but may be
committed in another order. BullMQ is external: a set of job ids that ignores an id it holds
(that it forgets finished jobs is in `Pipeline`). `failures` is a history variable.
`OutboxContract` says what the outbox promises without pollers or retries: which
events may be handed over, settled, reopened and given up, and that none is that was
left behind in PROCESSING (`stranded`).

`IncidentStatus` holds the status enum, the table of `state-machine.ts` and the statuses
that the worker and the API write. `Investigation` is the processor: a run is numbered
in the order it was started; `at[r]` is the call it is before; `transition()` is a read
and a write. A run that throws takes an attempt (`Fail`), one that loses its lock is
stalled (`Stall`) and goes on regardless. The early return for a job without an
incident's id is left out: the one route that enqueues an event puts the id into its
payload. `JobContract` says what remains of that for whoever added the job: it is taken
up, and ends once; between attempts it counts as active (`Stage`). `Remediation` has one
handler per request, of one of five operations. Each update of the status writes what
the handler has decided on, whatever the status is by then. A decision is stored on the
case that the handler finds latest: the request names the incident, not the case that
the person has seen. In both modules the other side of the status is free to write at
any time (`RequestWritesStatus`, `WorkerWritesStatus`). `IncidentLifecycle` instantiates
both on one incident; there each side does only its own actions.

`IncidentCreation` follows a request through the key lookup, the scenario, the
transaction (`open` are the rows inserted and not yet visible; an insert waits
while another open transaction holds the key and fails once that has committed),
the commit and the audit event. `CreationContract` is the same service in one moment
for each request: `Make` is the commit, `Answer` the reply, and an error leaves open
whether the incident was made.

`Pipeline` extends `IncidentCreation` by what happens to a committed event. The outbox
is an instance of its contract (`Outbox == INSTANCE OutboxContract`) whose recorded
events are the committed ones, with the rows that are stranded (`Strand`); the queue is
an instance of `JobContract` with a job for each event, which it forgets once it has
ended (`ForgetJob`, removeOnComplete and removeOnFail). The actions of the pipeline are
built from those of the two contracts, which `Outbox` and `Investigation` implement.

`Arena` starts with any combination of what is known of each candidate, shuffles,
grades in that order and names the winner. The dimensions of the rubric are an
operator each, with the code's points and thresholds. Latencies are whole
milliseconds; the code's are fractional and the thresholds compare the same way.

`Publication` extends `Remediation` with publishers: the status comes with the first
query, the cases with later ones, the patch is any stored response of any case, or the
built-in one when a case has no response (an incident without cases does not get past
the check of its status). `CommerceLab` has the two checkout paths on one product, the
sleep between read and write, the injection of the fault and the reset; `overslept` is
a history variable. `PaymentLab` counts, for each key, the charges of the normal path
and of the fault's. `Catalog` splits `getOrSet` at its three awaits: a list is the number of
scenarios it has, since rows are only added, and any call of Redis may reject.

`VirtualList` has the position that the component last heard of beside the
container's own, which the browser (external) keeps within the content.

`Accounts` starts from an empty database. `at` is the call each seeding and each
sign-in is before, `org`, `place` and `role` are what its handler has found. An
upsert on one unique column is one statement (PostgreSQL's ON CONFLICT); find and
create are two. An insert that meets a taken unique column throws, which is
`GiveUp` here except for the scenarios, where seeding catches it. Audit events, the
rubric and the lab are steps without rows of their own.

`WebSession` follows the calls of `AuthProvider` (mount, refresh, loginMock, logout; and
`rotateSession`, which only its test calls) from the moment the request takes the cookie
to the moment its answer is shown. `callAt` is the Redis call or the answer that comes
next. A session's key is stored with or without a time to live, or gone. A call that
fails leaves the cookie as it was (`Reject`, `Failed`) or, when its answer has the
headers of a success, changes it ("torn", `FailedTorn`): a sign-in sets its cookie
before its audit event, and the body of an answer may be lost after its headers.
`writtenLate`, `crossed` and `unfetched` are history variables that the exceptions in
the two properties speak of. Personas stand for user, role and workspace together.

A definition commented as a *slip* belongs to no specification. Each is a mistake
that the code beside it could well contain (a dropped guard, a missing await, a
swapped order); `PROJECT.json` lists which property notices it when it takes the
place of the definition that follows it.

MC modules only add what a configuration cannot say. `MCOutbox` numbers the events;
`MCIncidentLifecycle`, `MCArena` and `MCAccounts` declare requests, candidates,
seedings and sign-ins interchangeable (nothing in these modules tells them apart, and
those runs check no liveness). `MCStandalone` (two labs, the cached list, the rendered
list) and `MCAccounts` (tables, sessions) put modules side by side that share no
variable: seen from one module, every behaviour of all of them together is a behaviour
in which the others stutter, so a variable `part` picks at the beginning which one
moves. `MCPipeline` bounds the pipeline in the same way: either all three requests come
and their events are left alone, or two come and their events are followed to the end
(`following`).

## Runs

| Run | Bounds | What it shows |
|---|---|---|
| `outbox` | 2 pollers, 3 events, batch of 2, 2 retries, 2 failing calls, 1 turn cut short with rows claimed, 1 exit | safety, the contract, and two liveness properties of the outbox |
| `outbox_crash` (violation) | the same without a turn cut short | a crash strands claimed rows: finding |
| `investigation` | 3 attempts, 1 stall, hence at most 4 runs | artifacts behind every status and finished job; bounded repetition; the contract of the queue; the job ends |
| `publication` | 4 requests, 2 candidates, 1 publisher | no interleaving ships without an approval; no decision precedes an evaluation; the library shows approved incidents |
| `remediation_rollback` (violation) | 4 requests, 2 candidates | the promotion overwrites a rollback: finding |
| `lifecycle` | 3 requests, 1 attempt, 1 stall, 1 candidate | the composition implements both modules |
| `lifecycle_worker` (violation) | 2 requests, 2 attempts | `transition()` is not atomic: finding |
| `pipeline` | 3 requests and 2 keys for the creation; 2 requests whose events are followed, each job forgotten once | idempotent creation, atomic rows, the contract with the clients, nobody waits forever; jobs find their incidents, none is repeated unless forgotten, every incident is investigated unless its event is given up or stranded |
| `creation_audit` (violation) | 2 requests | an incident without audit event: finding |
| `arena` | 3 candidates, latencies at the thresholds 5, 20, 21 | the winner is the best, and monotone |
| `accounts` | 2 seedings, 2 sign-ins by 2 emails, 2 scenarios; 3 calls, 3 sessions, 2 personas | one organization, sessions that are backed, seeding that heals; sessions that end, and an application that shows who is signed in |
| `standalone` | 3 checkouts of up to 4 items, stock 3, 2 resets; 2 keys, 1 snapshot, 3 records per key; 2 readers, 2 scenarios; 12 rows | balance of stock and orders; keys and ledger; no old list stays; every row in view is rendered |

Why these bounds are enough. Two pollers and a batch smaller than the number of events
are the least at which claims overlap and a batch leaves something over; two failures
are the least at which an event is given up with two retries, and one exit and one turn
cut short (markFailed throws, or the reply of a committed claim is lost) strand a batch
each, while the events they leave must still settle. Two resets are one that finds a
checkout asleep and one that does not. Three attempts and one stall are the code's own
options, so the runs of one job are all there. An approval, a deployment, an evaluation
and one more request of any kind make four requests. Publishers meet only in the
library, where each overwrites the other, so one is enough beside restarts. Of two
seedings one may fail and the other repeat it, and of two sign-ins one may create what
the other looks for. Three requests with one key give one that wins, one that waits and
one that comes late. The second of two followed requests may be the duplicate or the
rival of the first. Three records of one key are the normal charge and both of the
fault's. Two readers are the least of which one stores an older list over the other's.
Three calls of the provider are two that overlap and one that begins after either; three
sessions are the one from before and one for each sign-in. Twelve rows of 9 in a
container of 60 (36 and 240 pixels in the war room, in units of four) can be scrolled
past the five spare rows at neither end and past them at both. The properties that were
proved hold beyond these bounds. A type invariant that is proved is not checked again by
TLC.

CHECK_DEADLOCK is off where the system really stops: all requests are served, all
events settled, the winner named. `investigation` and `publication` never stop,
because the other side of the status may always write.

Fairness. `Outbox`: each loop's own calls, the end of a stopped process and its
restart are weakly fair, since the event loop runs every continuation, a process
whose `shutdown` was called ends, and the platform restarts it. Nothing is assumed
of failing calls, which are bounded. `Investigation`: the queue starts a waiting
job and the run that holds the lock goes on; stalled runs owe nothing.
`IncidentCreation`: the calls of a handler are answered; an insert that waits is
enabled only when the key is free, which PostgreSQL grants when the other
transaction ends. `Pipeline`: of the outbox it assumes that it hands over what is not
stranded or given up (`SettlesUnlessStranded`) and of the queue that it starts and ends
jobs (`JobEnds`); acknowledgements, failures and forgetting may or may not come.
`Catalog`: the calls of a reader are answered and a time to live ends; that somebody
asks again, or invalidates, is not assumed. The other modules assume none and state
no liveness.

## Proofs

Proved with TLAPS, for every value of the constants that satisfies the module's
assumptions (numbers of pollers, events, requests, candidates, attempts, ...):

- `OutboxProofs`: types, `SingleConsumer`, `PublishedWasAdded`, `RetriesAreExact`,
  `FailedIsFinal`, `StrandedIsBounded`, that a stranded row stays stranded
  (`StrandedForGood`), and that `Outbox` implements `OutboxContract`. The invariant
  says, for each place in the loop, which rows the loop owns and in which status
  (`LoopOK`), that a row is locked by exactly the loop that is claiming it (`LockInv`),
  and how retry counts and failures agree (`RetryInv`). It is needed because
  `SingleConsumer` alone is not inductive: a claim only avoids another batch because
  rows in a batch are locked or no longer PENDING. `LeftAlone` says that no step touches
  a claimed row which is in nobody's hands; `FailedIsFinal`, `StrandedForGood` and the
  contract rest on it. `StrandedIsBounded` adds a lemma on cardinalities for each step
  that drops a batch (a crash, the end of a stopped process, a throwing markFailed, a
  claim whose reply is lost) and bounds what each loop may still strand. Of the liveness
  properties, what they rest on apart from fairness: no event is out of every loop's
  reach unless it is stranded (`EventsStayInReach`), no claim passes over an older event
  (`OldestAreClaimed`), and within a turn each call lowers `Effort`, which nothing else
  raises (`TurnsEnd`).
- `InvestigationProofs`: types, `HypothesisCitesEvidence` (no run checks it any more)
  and the other artifact properties, and that `Investigation` implements `JobContract`.
  `RunOK` says what a run has stored at each place; `QueueInv` counts the started runs
  from attempts, stalls and the state of the job. Of `JobEnds`: a job that is not at its
  end has a run with a call to make or a run to its credit (`JobIsNeverAbandoned`), and
  a run makes twelve calls at most (`RunsEnd`).
- `RemediationProofs`: types, `ShippedWasApproved`, `EvaluatedHasCompleteCase`,
  `DecidedAfterEvaluation`. The properties speak of a status that is written long after
  it was checked, so the invariant says what a handler may rely on at each place
  (`SeenEvaluated`, `Deciding`, `Counting`): it rests on rows that are never deleted,
  not on the status that was read.
- `PublicationProofs`: types and `PublishedWasApproved`. `VettedStays` says that no step
  takes back an approval or a complete case, so what a publisher has seen stays true.
- `IncidentLifecycleProofs`: the composition implements both modules (`RequestsWrite`,
  `WorkerWritesOnly`: each side writes only statuses the other allows for), hence all
  that was proved of each holds of both together (`WorkIsBackedTogether`,
  `DecisionsAreBackedTogether`, `JobContractTogether`).
- `IncidentCreationProofs`: types, `CommittedTogether`, `OneIncidentPerKey`,
  `AnswersAgree`, `ConflictFindsIncident`, from the rows a transaction has inserted at
  each place and the exclusion of open transactions with one key; that
  `IncidentCreation` implements `CreationContract` (the commit is the moment of `Make`,
  also when its reply is lost; a step that only moves a handler is a stutter). Of
  `EveryRequestEnds`: no two duplicates wait for each other (`NoDeadlock`), and a
  request makes seven calls at most (`RequestsEnd`). Of `Pipeline` types,
  `JobFindsIncident`, `SecondJobWasForgotten`, that every step is one of
  `OutboxContract` and of `JobContract` or leaves them alone (`FollowsContract`: a
  commit records an event for the first time; `UsesQueue`), and that the clients'
  contract holds of it (`PipelineServesClients`).
- `AccountsProofs`: of `Accounts` types, `MembersAreAtHome`, `SessionsAreBacked`,
  `SuccessIsComplete`, `SeedingHeals`. The invariant says that there is one organization
  at most and what each handler has found or made by the place it is at; it is stable
  because no step takes back a row or moves a user (`RowsStay`). Of `WebSession` types,
  `SessionsKeepTheirEnd` (a request about to write a key back knows that its value is
  there or has gone meanwhile) and `ShownIsSignedIn` (unless calls crossed or a sign-in
  failed with its cookie set, a fetch under way is for the cookie that is there, and
  what is shown is of this cookie or about to be replaced). `SideBySide` carries what
  holds of either module to the composition that is checked.
- `StandaloneProofs`: of `Arena` types, `WinnerIsBest`, `WinnerIsNotDominated` (the
  loop's invariant: the best so far is at least as good as every graded qualified
  candidate, and places are distinct; `RubricIsMonotone` is the lemma on scores); of
  `CommerceLab` types, `SafeOrdersAddUp`, `NothingVanishes` (a sleeping checkout asks
  for no more than it has seen, and what it has seen plus the orders placed until now
  covers the initial stock, unless it slept through the last reset); of `PaymentLab`
  types, `KeysMatchLedger`, `ChargedOnce` (what is claimed of the store is known of
  every snapshot, since any may be restored); the types of `Catalog`; of `VirtualList`
  types and `RowsInViewAreRendered`, from a lemma on the rounding of divisions.

Only model-checked: the liveness properties (`PendingIsClaimed`,
`SettlesUnlessStranded`, `JobEnds`, `EveryRequestEnds`, `FollowedAreInvestigated`,
`OldListsEnd`). TLAPS has no backend for fairness and ENABLED here; what is proved
instead, for the first four, is that somebody always has a next step and that each step
brings the end nearer.

## Findings

Four runs show a program that does not do what its documentation says: rows that
stay in PROCESSING after a crash, a rollback overwritten by the promotion of its
canary, a transition of the worker that overwrites a status it has not checked,
and an incident whose audit event is never written. `PROJECT.json` quotes the
text each one contradicts.

Seen while reading and not shown by a run: the API's handlers write statuses without
asking the state machine's table; a decision is stored on the latest case, which need
not be the one its author saw and whose responses may not be complete; a claim whose
commit took effect and whose reply is lost strands its batch with no process ended; a
later attempt of the job stores its evidence again; the arena names a disqualified
winner when nobody qualifies; the published patch is any passing response of any case; a
reset of the commerce lab does not stop the checkouts that sleep; seeding reports
success when the insert of a scenario was rejected for any reason; a session that goes
between the read and the write of `getSession` is stored anew without a time to live; an
answer of `/me` that arrives last shows the user of a session the browser has left; a
sign-in that is rejected leaves `isLoading` true; one whose audit event fails answers
500 with the new cookie, and the user of the old session stays on display until the next
fetch; the dashboard injects a fault without an idempotency key; an event that is handed
over again a day later gets a second job, which fails at its first transition unless the
incident is back in a status from which it may start; a canary whose handler stops
half-way stays DEPLOYED_CANARY; the reference library is forgotten when its process
restarts.

## Plan

1. Done: the outbox and its contract, the incident job, the requests, their composition,
   creation and the pipeline, the arena, publication, the labs, the cache, accounts,
   sessions, the rendered list.
2. Next proofs: that the outbox, the queue and the creation as a whole keep what
   `Pipeline` assumes of them step by step for several jobs, and what `OldListsEnd`
   rests on.
3. Next runs, in place of ones that are proved: the winner of an evaluation nobody
   qualifies for, and the published patch that nobody approved.

## What is left out, and why

One incident and one workspace: the tables are keyed by incident, and no code
path relates two incidents. Texts, prompts, metrics, logs and the pages of the web UI:
no state depends on them (the arena page shows fixed data). Roles and permissions:
lookups without state; a request that a guard refuses ends (`GiveUp`, `Refuse`,
`Reject`). The health route: it reads and reports. The performance lab: its handlers run to
their end, or give way and answer with a constant, and only a reset clears its state, all of
it at once. Wall-clock time (poll interval, lock
duration, canary steps, times to live) appears only as the order of steps. One browser
tab: a reload is a start with the cookie that is there.
