----------------------- MODULE IncidentCreationProofs -----------------------
(***************************************************************************)
(* The safety properties of modules IncidentCreation and Pipeline, for     *)
(* every number of requests and keys, and what they implement and use.     *)
(* That the key is unique among committed incidents is not inductive: two  *)
(* transactions that have both inserted a key would break it at the second *)
(* commit.  The invariant adds that an open transaction holds its key      *)
(* alone.                                                                  *)
(***************************************************************************)
EXTENDS Pipeline, TLAPS

\* What a transaction has inserted when its handler is at a location.
RowsSoFar(l) ==
    {row \in Rows :
        \/ row = "incident" /\ l \in {"faulting", "enqueueing", "committing"}
        \/ row = "fault" /\ l \in {"enqueueing", "committing"}
        \/ row = "event" /\ l = "committing"}

\* Rows are inserted in the order of the code, and a handler leaves the
\* transaction with its incident committed or not at all.
Transactions ==
    \A r \in Requests :
        /\ open[r] = RowsSoFar(at[r])
        /\ r \in incidents => at[r] \in {"auditing", "done"}
        /\ at[r] = "auditing" => r \in incidents

\* A key that an open transaction has inserted is in no committed incident and
\* in no other open transaction.
KeysAreFree ==
    \A r \in Requests : "incident" \in open[r] => Existing(r) = {} /\ ~KeyIsTaken(r)

\* What the clients were told is true, and stays so.
AnswersAreTrue ==
    \A r \in Requests :
        /\ answer[r].kind # "none" => at[r] = "done"
        /\ Told(r) => /\ answer[r].incident \in incidents
                      /\ key[answer[r].incident] = key[r]
        /\ answer[r].kind = "conflict" => Existing(r) # {}

IInv ==
    /\ TypeOK
    /\ Transactions
    /\ CommittedTogether
    /\ KeysAreFree
    /\ OneIncidentPerKey
    /\ AnswersAreTrue

-----------------------------------------------------------------------------

\* The initial states satisfy the invariant.
LEMMA InitInv == Init => IInv
<1> SUFFICES ASSUME Init PROVE IInv
    OBVIOUS
<1>1. TypeOK
    BY DEF Init, TypeOK, Rows, Locations, InTransaction, Answers, NoAnswer
<1>2. Transactions /\ CommittedTogether
    BY DEF Init, Transactions, RowsSoFar, Rows, CommittedTogether
<1>3. KeysAreFree /\ OneIncidentPerKey /\ AnswersAreTrue
    BY DEF Init, KeysAreFree, OneIncidentPerKey, AnswersAreTrue, Told, NoAnswer
<1> QED
    BY <1>1, <1>2, <1>3 DEF IInv

\* Every step keeps the invariant.
LEMMA StepInv == IInv /\ [Next]_vars => IInv'
<1> SUFFICES ASSUME IInv, [Next]_vars PROVE IInv'
    OBVIOUS
<1>1. ASSUME NEW r \in Requests, Arrive(r) PROVE IInv'
  <2> USE <1>1 DEF Arrive, Go, IInv, tables
  <2>1. TypeOK'
    BY NamesAssumption DEF TypeOK, Rows, Locations, InTransaction, Answers, Transactions, RowsSoFar
  <2>2. Transactions'
    BY DEF TypeOK, Transactions, RowsSoFar, Rows
  <2>3. CommittedTogether'
    BY DEF TypeOK, CommittedTogether, Transactions, RowsSoFar, Rows
  <2>4. (KeysAreFree /\ OneIncidentPerKey)'
    BY DEF TypeOK, Transactions, RowsSoFar, KeysAreFree, OneIncidentPerKey, Existing, KeyIsTaken
  <2>5. AnswersAreTrue'
    BY NamesAssumption DEF TypeOK, Transactions, RowsSoFar, AnswersAreTrue, ConflictFindsIncident, Told, Existing, NoAnswer
  <2> QED
    BY <2>1, <2>2, <2>3, <2>4, <2>5
<1>2. ASSUME NEW r \in Requests, CheckKey(r) PROVE IInv'
  <2> USE <1>2 DEF CheckKey, Go, Reply, IInv, tables
  <2>1. TypeOK'
    BY NamesAssumption DEF TypeOK, Rows, Locations, InTransaction, Answers, Transactions, RowsSoFar, Existing
  <2>2. Transactions'
    BY DEF TypeOK, Transactions, RowsSoFar, Rows
  <2>3. CommittedTogether'
    BY DEF TypeOK, CommittedTogether, Transactions, RowsSoFar, Rows
  <2>4. (KeysAreFree /\ OneIncidentPerKey)'
    BY DEF TypeOK, Transactions, RowsSoFar, KeysAreFree, OneIncidentPerKey, Existing, KeyIsTaken
  <2>5. AnswersAreTrue'
    BY NamesAssumption DEF TypeOK, Transactions, RowsSoFar, AnswersAreTrue, ConflictFindsIncident, Told, Existing, NoAnswer
  <2> QED
    BY <2>1, <2>2, <2>3, <2>4, <2>5
<1>3. ASSUME NEW r \in Requests, FindScenario(r) PROVE IInv'
  <2> USE <1>3 DEF FindScenario, Go, Reply, IInv, tables
  <2>1. TypeOK'
    BY NamesAssumption DEF TypeOK, Rows, Locations, InTransaction, Answers, Transactions, RowsSoFar
  <2>2. Transactions'
    BY DEF TypeOK, Transactions, RowsSoFar, Rows
  <2>3. CommittedTogether'
    BY DEF TypeOK, CommittedTogether, Transactions, RowsSoFar, Rows
  <2>4. (KeysAreFree /\ OneIncidentPerKey)'
    BY DEF TypeOK, Transactions, RowsSoFar, KeysAreFree, OneIncidentPerKey, Existing, KeyIsTaken
  <2>5. AnswersAreTrue'
    BY NamesAssumption DEF TypeOK, Transactions, RowsSoFar, AnswersAreTrue, ConflictFindsIncident, Told, Existing, NoAnswer
  <2> QED
    BY <2>1, <2>2, <2>3, <2>4, <2>5
<1>4. ASSUME NEW r \in Requests, InsertIncident(r) PROVE IInv'
  <2> USE <1>4 DEF InsertIncident, Go, Reply, IInv, tables
  <2>1. TypeOK'
    BY NamesAssumption DEF TypeOK, Rows, Locations, InTransaction, Answers, Transactions, RowsSoFar
  <2>2. Transactions'
    BY DEF TypeOK, Transactions, RowsSoFar, Rows
  <2>3. CommittedTogether'
    BY DEF TypeOK, CommittedTogether, Transactions, RowsSoFar, Rows
  <2>4. (KeysAreFree /\ OneIncidentPerKey)'
    BY DEF TypeOK, Transactions, RowsSoFar, KeysAreFree, OneIncidentPerKey, Existing, KeyIsTaken
  <2>5. AnswersAreTrue'
    BY NamesAssumption DEF TypeOK, Transactions, RowsSoFar, AnswersAreTrue, ConflictFindsIncident, Told, Existing, NoAnswer
  <2> QED
    BY <2>1, <2>2, <2>3, <2>4, <2>5
<1>5. ASSUME NEW r \in Requests, InsertFault(r) PROVE IInv'
  <2> USE <1>5 DEF InsertFault, Go, IInv, tables
  <2>1. TypeOK'
    BY NamesAssumption DEF TypeOK, Rows, Locations, InTransaction, Answers, Transactions, RowsSoFar
  <2>2. Transactions'
    BY DEF TypeOK, Transactions, RowsSoFar, Rows
  <2>3. CommittedTogether'
    BY DEF TypeOK, CommittedTogether, Transactions, RowsSoFar, Rows
  <2>4. (KeysAreFree /\ OneIncidentPerKey)'
    BY DEF TypeOK, Transactions, RowsSoFar, KeysAreFree, OneIncidentPerKey, Existing, KeyIsTaken
  <2>5. AnswersAreTrue'
    BY NamesAssumption DEF TypeOK, Transactions, RowsSoFar, AnswersAreTrue, ConflictFindsIncident, Told, Existing, NoAnswer
  <2> QED
    BY <2>1, <2>2, <2>3, <2>4, <2>5
<1>6. ASSUME NEW r \in Requests, EnqueueEvent(r) PROVE IInv'
  <2> USE <1>6 DEF EnqueueEvent, Go, IInv, tables
  <2>1. TypeOK'
    BY NamesAssumption DEF TypeOK, Rows, Locations, InTransaction, Answers, Transactions, RowsSoFar
  <2>2. Transactions'
    BY DEF TypeOK, Transactions, RowsSoFar, Rows
  <2>3. CommittedTogether'
    BY DEF TypeOK, CommittedTogether, Transactions, RowsSoFar, Rows
  <2>4. (KeysAreFree /\ OneIncidentPerKey)'
    BY DEF TypeOK, Transactions, RowsSoFar, KeysAreFree, OneIncidentPerKey, Existing, KeyIsTaken
  <2>5. AnswersAreTrue'
    BY NamesAssumption DEF TypeOK, Transactions, RowsSoFar, AnswersAreTrue, ConflictFindsIncident, Told, Existing, NoAnswer
  <2> QED
    BY <2>1, <2>2, <2>3, <2>4, <2>5
<1>7. ASSUME NEW r \in Requests, Commit(r) PROVE IInv'
  <2> USE <1>7 DEF Commit, MakeVisible, Inserted, CloseTransaction, Go, IInv, tables
  <2>1. TypeOK'
    BY NamesAssumption DEF TypeOK, Rows, Locations, InTransaction, Answers, Transactions, RowsSoFar
  <2>2. Transactions'
    BY DEF TypeOK, Transactions, RowsSoFar, Rows
  <2>3. CommittedTogether'
    BY DEF TypeOK, CommittedTogether, Transactions, RowsSoFar, Rows
  <2>4. (KeysAreFree /\ OneIncidentPerKey)'
    BY DEF TypeOK, Transactions, RowsSoFar, KeysAreFree, OneIncidentPerKey, Existing, KeyIsTaken
  <2>5. AnswersAreTrue'
    BY NamesAssumption DEF TypeOK, Transactions, RowsSoFar, AnswersAreTrue, ConflictFindsIncident, Told, Existing, NoAnswer
  <2> QED
    BY <2>1, <2>2, <2>3, <2>4, <2>5
<1>8. ASSUME NEW r \in Requests, Audit(r) PROVE IInv'
  <2> USE <1>8 DEF Audit, Reply, IInv, tables
  <2>1. TypeOK'
    BY NamesAssumption DEF TypeOK, Rows, Locations, InTransaction, Answers, Transactions, RowsSoFar
  <2>2. Transactions'
    BY DEF TypeOK, Transactions, RowsSoFar, Rows
  <2>3. CommittedTogether'
    BY DEF TypeOK, CommittedTogether, Transactions, RowsSoFar, Rows
  <2>4. (KeysAreFree /\ OneIncidentPerKey)'
    BY DEF TypeOK, Transactions, RowsSoFar, KeysAreFree, OneIncidentPerKey, Existing, KeyIsTaken
  <2>5. AnswersAreTrue'
    BY NamesAssumption DEF TypeOK, Transactions, RowsSoFar, AnswersAreTrue, ConflictFindsIncident, Told, Existing, NoAnswer
  <2> QED
    BY <2>1, <2>2, <2>3, <2>4, <2>5
<1>9. ASSUME NEW r \in Requests, Fail(r) PROVE IInv'
  <2> USE <1>9 DEF Fail, MakeVisible, Inserted, CloseTransaction, Reply, IInv, tables
  <2>1. TypeOK'
    BY NamesAssumption DEF TypeOK, Rows, Locations, InTransaction, Answers, Transactions, RowsSoFar
  <2>2. Transactions'
    BY DEF TypeOK, Transactions, RowsSoFar, Rows
  <2>3. CommittedTogether'
    BY DEF TypeOK, CommittedTogether, Transactions, RowsSoFar, Rows
  <2>4. (KeysAreFree /\ OneIncidentPerKey)'
    BY DEF TypeOK, Transactions, RowsSoFar, KeysAreFree, OneIncidentPerKey, Existing, KeyIsTaken
  <2>5. AnswersAreTrue'
    BY NamesAssumption DEF TypeOK, Transactions, RowsSoFar, AnswersAreTrue, ConflictFindsIncident, Told, Existing, NoAnswer
  <2> QED
    BY <2>1, <2>2, <2>3, <2>4, <2>5
<1>10. CASE UNCHANGED vars
  <2> USE <1>10 DEF vars, tables, IInv
  <2>1. (TypeOK /\ Transactions /\ CommittedTogether)'
    BY DEF TypeOK, Transactions, CommittedTogether
  <2>2. (KeysAreFree /\ OneIncidentPerKey /\ AnswersAreTrue)'
    BY DEF KeysAreFree, OneIncidentPerKey, AnswersAreTrue, Existing, KeyIsTaken, Told
  <2> QED
    BY <2>1, <2>2
<1> QED
  BY <1>1, <1>2, <1>3, <1>4, <1>5, <1>6, <1>7, <1>8, <1>9, <1>10 DEF Next, Handle

-----------------------------------------------------------------------------

\* The invariant holds in every reachable state.
LEMMA Invariance == Spec => []IInv
BY InitInv, StepInv, PTL DEF Spec

\* The variables have their types: an answer names no incident but one that a
\* request could have created.
THEOREM Typing == Spec => []TypeOK
<1>1. IInv => TypeOK
  BY DEF IInv
<1> QED
  BY <1>1, Invariance, PTL

\* The incident, its fault and its outbox event are committed together or not
\* at all: the transaction of the route loses and invents no hand-over.
THEOREM EventsComeWithIncidents == Spec => []CommittedTogether
<1>1. IInv => CommittedTogether
  BY DEF IInv
<1> QED
  BY <1>1, Invariance, PTL

\* A key creates one incident, however many duplicates overlap.
THEOREM KeysAreUnique == Spec => []OneIncidentPerKey
<1>1. IInv => OneIncidentPerKey
  BY DEF IInv
<1> QED
  BY <1>1, Invariance, PTL

\* Duplicates are told of one and the same incident, which exists.
THEOREM DuplicatesAgree == Spec => []AnswersAgree
<1>1. IInv => AnswersAgree
  BY DEF IInv, TypeOK, Answers, OneIncidentPerKey, AnswersAreTrue, AnswersAgree
<1> QED
  BY <1>1, Invariance, PTL

\* A refused duplicate finds the incident at its next attempt.
THEOREM ConflictsAreReal == Spec => []ConflictFindsIncident
<1>1. IInv => ConflictFindsIncident
  BY DEF IInv, AnswersAreTrue, ConflictFindsIncident
<1> QED
  BY <1>1, Invariance, PTL

-----------------------------------------------------------------------------
(* Creation implements its contract.  The moment at which a request is     *)
(* served is its commit, if it makes the incident, and otherwise the call  *)
(* that finds what the client is then told.                                *)

\* A handler that has not ended has told its client nothing.
LEMMA NotYetAnswered ==
    ASSUME IInv, NEW r \in Requests, at[r] \notin {"new", "done"}
    PROVE  Contract!Pending(r)
BY DEF IInv, AnswersAreTrue, Contract!Pending

\* The two names of what is told, and of the incident under a key, agree.
LEMMA TellIsReply ==
    ASSUME NEW r \in Requests, NEW kind, NEW incident, Reply(r, kind, incident)
    PROVE  Contract!Tell(r, kind, incident)
BY DEF Reply, Contract!Tell

LEMMA NamedIsExisting == ASSUME NEW r \in Requests PROVE Contract!Named(r) = Existing(r)
BY DEF Contract!Named, Existing

\* A request that is somewhere in its handler has come before and after a step.
LEMMA AskedStay ==
    ASSUME IInv, NEW r \in Requests, at[r] # "new",
           NEW l \in Locations \ {"new"}, at' = [at EXCEPT ![r] = l]
    PROVE  {s \in Requests : at'[s] # "new"} = {s \in Requests : at[s] # "new"}
BY DEF IInv, TypeOK

\* The commit makes the incident: the key is free, since the open transaction
\* has held it alone.
LEMMA CommitMakes ==
    ASSUME IInv, NEW r \in Requests, at[r] = "committing", MakeVisible(r),
           NEW l \in {"auditing", "done"}, at' = [at EXCEPT ![r] = l], UNCHANGED key,
           UNCHANGED answer \/ Contract!Tell(r, "error", NoIncident)
    PROVE  Contract!Make(r)
<1>1. "incident" \in open[r]
  BY DEF IInv, Transactions, RowsSoFar, Rows
<1>2. incidents' = incidents \cup {r} /\ r \notin incidents
  BY <1>1 DEF MakeVisible, Inserted, IInv, Transactions
<1>3. Existing(r) = {}
  BY <1>1 DEF IInv, KeysAreFree
<1>4. {s \in Requests : at'[s] # "new"} = {s \in Requests : at[s] # "new"}
  BY AskedStay DEF Locations
<1> QED
  BY <1>2, <1>3, <1>4, NotYetAnswered, NamedIsExisting DEF Contract!Make

\* Every step of a handler is a step of the contract, or none of the client's
\* business.
LEMMA ContractStep ==
    ASSUME IInv, NEW r \in Requests, Arrive(r) \/ Handle(r) \/ Fail(r)
    PROVE  Contract!Ask(r) \/ Contract!Make(r) \/ Contract!Answer(r) \/ UNCHANGED Contract!vars
<1> DEFINE Asked == {s \in Requests : at[s] # "new"}
<1>1. CASE Arrive(r)
  <2>1. Asked' = Asked \cup {r} /\ r \notin Asked
    BY <1>1 DEF Arrive, Go, IInv, TypeOK
  <2> QED
    BY <1>1, <2>1 DEF Arrive, Go, tables, Contract!Ask
<1>2. CASE CheckKey(r)
  <2>1. Asked' = Asked
    BY <1>2, AskedStay DEF CheckKey, Go, Reply, Locations
  <2>2. CASE Go(r, "finding")
    BY <1>2, <2>1, <2>2 DEF CheckKey, Go, tables, Contract!vars
  <2>3. ASSUME NEW i \in Existing(r), Reply(r, "existing", i)
        PROVE  Contract!Answer(r)
    BY <1>2, <2>1, <2>3, NotYetAnswered, TellIsReply, NamedIsExisting
    DEF CheckKey, tables, Contract!Answer
  <2> QED
    BY <1>2, <2>2, <2>3 DEF CheckKey
<1>3. CASE FindScenario(r)
  <2>1. Asked' = Asked
    BY <1>3, AskedStay DEF FindScenario, Go, Reply, Locations, InTransaction
  <2>2. CASE Go(r, "inserting")
    BY <1>3, <2>1, <2>2 DEF FindScenario, Go, tables, Contract!vars
  <2>3. CASE Reply(r, "notFound", NoIncident)
    <3>1. r \notin incidents
      BY <1>3 DEF FindScenario, IInv, Transactions
    <3> QED
      BY <1>3, <2>1, <2>3, <3>1, NotYetAnswered, TellIsReply
      DEF FindScenario, tables, Contract!Answer
  <2> QED
    BY <1>3, <2>2, <2>3 DEF FindScenario
<1>4. CASE InsertIncident(r)
  <2>1. Asked' = Asked
    BY <1>4, AskedStay DEF InsertIncident, Go, Reply, Locations, InTransaction
  <2>2. CASE Go(r, "faulting")
    BY <1>4, <2>1, <2>2 DEF InsertIncident, Go, tables, Contract!vars
  <2>3. CASE Existing(r) # {} /\ Reply(r, "conflict", NoIncident)
    <3>1. r \notin incidents
      BY <1>4 DEF InsertIncident, IInv, Transactions
    <3> QED
      BY <1>4, <2>1, <2>3, <3>1, NotYetAnswered, TellIsReply, NamedIsExisting
      DEF InsertIncident, tables, Contract!Answer
  <2> QED
    BY <1>4, <2>2, <2>3 DEF InsertIncident
<1>5. CASE InsertFault(r) \/ EnqueueEvent(r)
  <2>1. Asked' = Asked
    BY <1>5, AskedStay DEF InsertFault, EnqueueEvent, Go, Locations, InTransaction
  <2> QED
    BY <1>5, <2>1 DEF InsertFault, EnqueueEvent, Go, tables, Contract!vars
<1>6. CASE Commit(r)
  BY <1>6, CommitMakes DEF Commit, Go
<1>7. CASE Audit(r)
  <2>1. Asked' = Asked
    BY <1>7, AskedStay DEF Audit, Reply, Locations
  <2>2. r \in incidents
    BY <1>7 DEF Audit, IInv, Transactions
  <2> QED
    BY <1>7, <2>1, <2>2, NotYetAnswered, TellIsReply DEF Audit, tables, Contract!Answer
<1>8. CASE Fail(r)
  <2>1. Asked' = Asked
    BY <1>8, AskedStay DEF Fail, Reply, Locations
  <2>2. Contract!Tell(r, "error", NoIncident) /\ UNCHANGED key
    BY <1>8, TellIsReply DEF Fail
  <2>3. CASE UNCHANGED tables
    BY <1>8, <2>1, <2>2, <2>3, NotYetAnswered DEF Fail, tables, Contract!Answer
  <2>4. CASE at[r] = "committing" /\ MakeVisible(r)
    BY <1>8, <2>2, <2>4, CommitMakes DEF Fail, Reply
  <2> QED
    BY <1>8, <2>3, <2>4 DEF Fail
<1> QED
  BY <1>1, <1>2, <1>3, <1>4, <1>5, <1>6, <1>7, <1>8 DEF Handle

\* To its clients the creation of incidents is as if each request were served
\* in one moment, whatever overlaps and whatever fails.
THEOREM ImplementsContractOfCreation == Spec => ImplementsCreationContract
<1>1. Init => Contract!Init
  BY DEF Init, Contract!Init, NoAnswer, Contract!NoReply
<1>2. IInv /\ [Next]_vars => [Contract!Next]_(Contract!vars)
  <2>1. UNCHANGED vars => UNCHANGED Contract!vars
    BY DEF vars, tables, Contract!vars
  <2> QED
    BY <2>1, ContractStep DEF Next, Contract!Next
<1> QED
  BY <1>1, <1>2, Invariance, PTL DEF Spec, ImplementsCreationContract, Contract!Spec

-----------------------------------------------------------------------------
(* What EveryRequestEnds rests on, apart from fairness: who waits for a    *)
(* key waits for a handler that waits for nobody, and none goes back.      *)

\* PostgreSQL makes the insert of r wait for another transaction.
Waits(r) == at[r] = "inserting" /\ KeyIsTaken(r)

\* Whoever waits, waits for one transaction only, which has its key already
\* and does not wait itself: no two duplicates wait for each other.
NobodyWaitsInACircle ==
    \A r \in Requests : Waits(r) =>
        \E s \in Requests :
            /\ at[s] \in {"faulting", "enqueueing", "committing"} /\ ~Waits(s)
            /\ \A t \in Requests \ {r} :
                "incident" \in open[t] /\ key[t] = key[r] => t = s

\* The calls that the handler of a request has still to make.
Left(r) ==
    CASE at[r] = "new" -> 8
      [] at[r] = "checking" -> 7
      [] at[r] = "finding" -> 6
      [] at[r] = "inserting" -> 5
      [] at[r] = "faulting" -> 4
      [] at[r] = "enqueueing" -> 3
      [] at[r] = "committing" -> 2
      [] at[r] = "auditing" -> 1
      [] OTHER -> 0

\* Each call of a handler, answered or rejected, takes its request nearer to
\* the end, and no other step takes it further away.
RequestsComeToAnEnd ==
    [][\A r \in Requests :
        /\ Left(r)' <= Left(r)
        /\ Handle(r) \/ Fail(r) => Left(r)' < Left(r)]_vars

\* A wait for a key has an end: its holder has a call to make that waits for
\* nothing.
THEOREM NoDeadlock == Spec => []NobodyWaitsInACircle
<1>1. IInv => NobodyWaitsInACircle
  <2> SUFFICES ASSUME IInv, NEW r \in Requests, Waits(r)
               PROVE  \E s \in Requests :
                        /\ at[s] \in {"faulting", "enqueueing", "committing"} /\ ~Waits(s)
                        /\ \A t \in Requests \ {r} :
                            "incident" \in open[t] /\ key[t] = key[r] => t = s
    BY DEF NobodyWaitsInACircle
  <2>1. PICK s \in Requests \ {r} : "incident" \in open[s] /\ key[r] # NoKey /\ key[s] = key[r]
    BY DEF Waits, KeyIsTaken
  <2>2. at[s] \in {"faulting", "enqueueing", "committing"}
    BY <2>1 DEF IInv, Transactions, RowsSoFar
  <2>3. \A t \in Requests \ {r} : "incident" \in open[t] /\ key[t] = key[r] => t = s
    BY <2>1 DEF IInv, KeysAreFree, KeyIsTaken
  <2> QED
    BY <2>1, <2>2, <2>3 DEF Waits
<1> QED
  BY <1>1, Invariance, PTL

\* A step is one request's, and moves its handler only.
LEMMA StepsLeadOn ==
    ASSUME TypeOK, NEW r \in Requests, Arrive(r) \/ Handle(r) \/ Fail(r)
    PROVE  /\ Left(r)' < Left(r)
           /\ \A q \in Requests : q # r => at'[q] = at[q]
<1>1. PICK l \in Locations :
        /\ at' = [at EXCEPT ![r] = l]
        /\ <<at[r], l>> \in {<<"new", "checking">>, <<"checking", "finding">>,
              <<"finding", "inserting">>, <<"inserting", "faulting">>,
              <<"faulting", "enqueueing">>, <<"enqueueing", "committing">>,
              <<"committing", "auditing">>}
           \/ (at[r] \notin {"new", "done"} /\ l = "done")
  <2> USE DEF Go, Reply, Locations, InTransaction
  <2>1. CASE Arrive(r)
    BY <2>1 DEF Arrive
  <2>2. CASE CheckKey(r) \/ FindScenario(r)
    BY <2>2 DEF CheckKey, FindScenario
  <2>3. CASE InsertIncident(r) \/ InsertFault(r) \/ EnqueueEvent(r)
    BY <2>3 DEF InsertIncident, InsertFault, EnqueueEvent
  <2>4. CASE Commit(r) \/ Audit(r) \/ Fail(r)
    BY <2>4 DEF Commit, Audit, Fail
  <2> QED
    BY <2>1, <2>2, <2>3, <2>4 DEF Handle
<1>2. at[r] \in Locations /\ at'[r] = l /\ \A q \in Requests : q # r => at'[q] = at[q]
  BY <1>1 DEF TypeOK
<1> QED
  BY <1>1, <1>2 DEF Left, Locations, InTransaction

\* A request makes seven calls at most, whichever of them fail and whatever the
\* others do meanwhile.
THEOREM RequestsEnd == Spec => RequestsComeToAnEnd
<1>1. ASSUME TypeOK, [Next]_vars, NEW r \in Requests
      PROVE  /\ Left(r)' <= Left(r)
             /\ Handle(r) \/ Fail(r) => Left(r)' < Left(r)
  <2>1. Left(r) \in 0..8
    BY DEF Left
  <2>2. Left(r)' \in 0..8
    BY DEF Left
  <2>3. at'[r] = at[r] => Left(r)' = Left(r)
    BY DEF Left
  <2>4. Handle(r) \/ Fail(r) => Left(r)' < Left(r)
    BY <1>1, StepsLeadOn
  <2>5. Left(r)' <= Left(r)
    <3>1. CASE UNCHANGED vars
      BY <2>1, <2>3, <3>1 DEF vars
    <3>2. ASSUME NEW q \in Requests, Arrive(q) \/ Handle(q) \/ Fail(q) PROVE Left(r)' <= Left(r)
      <4>1. Left(q)' < Left(q) /\ (q # r => at'[r] = at[r])
        BY <1>1, <3>2, StepsLeadOn
      <4> QED
        BY <2>1, <2>2, <2>3, <4>1
    <3> QED
      BY <1>1, <3>1, <3>2 DEF Next
  <2> QED
    BY <2>4, <2>5
<1>2. TypeOK /\ [Next]_vars =>
        [\A r \in Requests : /\ Left(r)' <= Left(r)
                             /\ Handle(r) \/ Fail(r) => Left(r)' < Left(r)]_vars
  BY <1>1
<1> QED
  BY <1>2, Typing, PTL DEF Spec, RequestsComeToAnEnd

-----------------------------------------------------------------------------
(* Pipeline.  What the outbox and the queue know of an event follows from  *)
(* its having been committed, and rows are never taken back.               *)

\* The jobs made for an event whose job the queue has not forgotten.
JobsMade ==
    \A r \in Requests \ forgotten : jobs[r] = IF job[r] = "none" THEN 0 ELSE 1

PipelineInv ==
    /\ IInv
    /\ PipelineTypeOK
    /\ stranded \cap (settled \cup abandoned) = {}
    /\ \A r \in Requests : job[r] # "none" => r \in handed
    /\ JobsMade

LEMMA PipelineInitInv == PipelineInit => PipelineInv
<1> SUFFICES ASSUME PipelineInit PROVE PipelineInv
    OBVIOUS
<1>1. IInv
    BY InitInv DEF PipelineInit
<1>2. PipelineTypeOK
    BY <1>1 DEF PipelineInit, PipelineTypeOK, IInv
<1>3. JobsMade
    BY DEF PipelineInit, JobsMade
<1> QED
    BY <1>1, <1>2, <1>3 DEF PipelineInv, PipelineInit

\* Rows are only added: the tables of a request never lose one.
LEMMA EventsStay == IInv /\ [Next]_vars => events \subseteq events'
<1> SUFFICES ASSUME IInv, [Next]_vars PROVE events \subseteq events'
    OBVIOUS
<1>1. ASSUME NEW r \in Requests, Arrive(r) \/ Handle(r) \/ Fail(r) PROVE events \subseteq events'
    BY <1>1 DEF Arrive, Handle, Fail, CheckKey, FindScenario, InsertIncident, InsertFault,
        EnqueueEvent, CloseTransaction, Commit, MakeVisible, Audit, tables
<1>2. CASE UNCHANGED vars
    BY <1>2 DEF vars, tables
<1> QED
    BY <1>1, <1>2 DEF Next

\* A step of creation leaves outbox and queue as they are.
LEMMA CreationStep == PipelineInv /\ CreationNext => PipelineInv'
<1> SUFFICES ASSUME PipelineInv, CreationNext PROVE PipelineInv'
    OBVIOUS
<1>1. IInv' /\ events \subseteq events'
    BY StepInv, EventsStay DEF PipelineInv, CreationNext
<1>2. TypeOK'
    BY <1>1 DEF IInv
<1> QED
    BY <1>1, <1>2 DEF PipelineInv, PipelineTypeOK, JobsMade, CreationNext, outboxVars, queueVars

\* A step of the delivery keeps the invariant of creation.
LEMMA DeliveryLeavesRows ==
    ASSUME PipelineInv, NEW r \in Requests, DeliveryNext(r)
    PROVE IInv' /\ UNCHANGED vars
<1>1. UNCHANGED vars
    BY DEF DeliveryNext, Deliver, Acknowledge, Strand, StartJob, EndJob, ForgetJob, Untouched,
        Outbox!Hand, Outbox!Settle, Outbox!Reopen, Outbox!Abandon, vars, tables
<1> QED
    BY <1>1, StepInv DEF PipelineInv

LEMMA DeliveryStep ==
    ASSUME PipelineInv, NEW r \in Requests, DeliveryNext(r)
    PROVE PipelineInv'
<1>1. IInv' /\ TypeOK' /\ events' = events
    BY DeliveryLeavesRows DEF vars, tables, IInv
<1>2. CASE Deliver(r)
  <2> USE <1>2 DEF Deliver, Outbox!Hand, Outbox!Owed
  <2>1. r \in events /\ handed' = handed \cup {r}
    OBVIOUS
  <2>2. CASE job[r] = "none"
    BY <1>1, <2>1, <2>2
    DEF AddIncidentJob, Queue!Add, Queue!Move, PipelineInv, PipelineTypeOK, JobsMade
  <2>3. CASE job[r] # "none"
    BY <1>1, <2>1, <2>3 DEF AddIncidentJob, PipelineInv, PipelineTypeOK, JobsMade
  <2> QED
    BY <2>2, <2>3
<1>3. CASE Acknowledge(r)
  BY <1>1, <1>3 DEF Acknowledge, Outbox!Settle, Outbox!Reopen, Outbox!Abandon, Outbox!Owed,
      queueVars, PipelineInv, PipelineTypeOK, JobsMade
<1>4. CASE Strand(r)
  BY <1>1, <1>4 DEF Strand, Outbox!Owed, queueVars, vars, tables, PipelineInv, PipelineTypeOK, JobsMade
<1>5. CASE StartJob(r) \/ EndJob(r)
  BY <1>1, <1>5
  DEF StartJob, EndJob, Queue!Start, Queue!Finish, Queue!Move, Queue!Ended, JobEnded, outboxVars,
      PipelineInv, PipelineTypeOK, JobsMade
<1>6. CASE ForgetJob(r)
  BY <1>1, <1>6
  DEF ForgetJob, Queue!Forget, Queue!Move, Queue!Ended, JobEnded, outboxVars,
      PipelineInv, PipelineTypeOK, JobsMade
<1> QED
  BY <1>2, <1>3, <1>4, <1>5, <1>6 DEF DeliveryNext

LEMMA PipelineStepInv == PipelineInv /\ [PipelineNext]_pipelineVars => PipelineInv'
<1>1. ASSUME PipelineInv, UNCHANGED pipelineVars PROVE PipelineInv'
  <2>1. IInv' /\ TypeOK'
    BY <1>1, StepInv DEF PipelineInv, pipelineVars, IInv
  <2> QED
    BY <1>1, <2>1 DEF PipelineInv, PipelineTypeOK, JobsMade, pipelineVars, vars, tables,
        outboxVars, queueVars
<1> QED
  BY <1>1, CreationStep, DeliveryStep DEF PipelineNext

LEMMA PipelineInvariance == PipelineSpec => []PipelineInv
BY PipelineInitInv, PipelineStepInv, PTL DEF PipelineSpec

\* What the outbox and the queue hold has its type; what is settled was handed
\* over and what was handed over was committed.
THEOREM PipelineTyping == PipelineSpec => []PipelineTypeOK
<1>1. PipelineInv => PipelineTypeOK
  BY DEF PipelineInv
<1> QED
  BY <1>1, PipelineInvariance, PTL

\* No job runs ahead of its incident, for any number of requests, retries and
\* processes that end.
THEOREM JobsHaveIncidents == PipelineSpec => []JobFindsIncident
<1>1. PipelineInv => JobFindsIncident
  BY DEF PipelineInv, PipelineTypeOK, IInv, CommittedTogether, JobFindsIncident
<1> QED
  BY <1>1, PipelineInvariance, PTL

\* Handing an event over again makes no second job while the queue remembers.
THEOREM SecondJobsWereForgotten == PipelineSpec => []SecondJobWasForgotten
<1>1. PipelineInv => SecondJobWasForgotten
  BY DEF PipelineInv, JobsMade, SecondJobWasForgotten
<1> QED
  BY <1>1, PipelineInvariance, PTL

\* Creation records an event once, in its commit, and touches nothing else the
\* contract speaks of.
LEMMA CreationRecords == IInv /\ [Next]_vars => UNCHANGED events \/ \E r \in Requests \ events : events' = events \cup {r}
<1> SUFFICES ASSUME IInv, [Next]_vars
             PROVE  UNCHANGED events \/ \E r \in Requests \ events : events' = events \cup {r}
    OBVIOUS
<1>1. ASSUME NEW r \in Requests, at[r] = "committing", MakeVisible(r)
      PROVE  r \notin events /\ (UNCHANGED events \/ events' = events \cup {r})
  <2>1. r \notin events
    BY <1>1 DEF IInv, Transactions, CommittedTogether
  <2> QED
    BY <1>1, <2>1 DEF MakeVisible, Inserted
<1>2. ASSUME NEW r \in Requests, Commit(r)
      PROVE  UNCHANGED events \/ \E s \in Requests \ events : events' = events \cup {s}
  <2>1. at[r] = "committing" /\ MakeVisible(r)
    BY <1>2 DEF Commit
  <2> QED
    BY <1>1, <2>1
<1>3. ASSUME NEW r \in Requests, Fail(r)
      PROVE  UNCHANGED events \/ \E s \in Requests \ events : events' = events \cup {s}
  <2>1. UNCHANGED events \/ (at[r] = "committing" /\ MakeVisible(r))
    BY <1>3 DEF Fail, tables
  <2> QED
    BY <1>1, <2>1
<1>4. ASSUME NEW r \in Requests, Arrive(r) \/ CheckKey(r) \/ FindScenario(r) \/ InsertIncident(r)
                               \/ InsertFault(r) \/ EnqueueEvent(r) \/ Audit(r)
      PROVE  UNCHANGED events
  BY <1>4 DEF Arrive, CheckKey, FindScenario, InsertIncident, InsertFault, EnqueueEvent, Audit, tables
<1>5. CASE UNCHANGED vars
  BY <1>5 DEF vars, tables
<1> QED
  BY <1>2, <1>3, <1>4, <1>5 DEF Next, Handle

\* The pipeline uses the outbox as its contract says: a commit records an event
\* for the first time, and all else are steps of the contract or none of its
\* business.
THEOREM FollowsContract == PipelineSpec => Outbox!Spec
<1>1. PipelineInit => Outbox!Init
  BY DEF PipelineInit, Init, Outbox!Init
<1>2. PipelineInv /\ [PipelineNext]_pipelineVars => [Outbox!Next]_(Outbox!vars)
  <2> SUFFICES ASSUME PipelineInv, [PipelineNext]_pipelineVars  PROVE [Outbox!Next]_(Outbox!vars)
      OBVIOUS
  <2>0. PipelineInv' /\ events \subseteq events'
    BY PipelineStepInv, EventsStay, DeliveryLeavesRows
    DEF PipelineInv, PipelineNext, CreationNext, pipelineVars, vars, tables
  <2>1. CASE CreationNext
    <3>1. UNCHANGED events \/ \E r \in Requests \ events : events' = events \cup {r}
      BY <2>1, CreationRecords DEF CreationNext, PipelineInv
    <3>2. UNCHANGED <<handed, settled, abandoned, stranded>>
      BY <2>1 DEF CreationNext, outboxVars
    <3>3. Outbox!LeaveBehind
      BY <2>0, <3>2 DEF Outbox!LeaveBehind, PipelineInv, PipelineTypeOK
    <3> QED
      BY <3>1, <3>2, <3>3 DEF Outbox!Next, Outbox!Record
  <2>2. ASSUME NEW r \in Requests, Deliver(r) \/ Acknowledge(r)  PROVE Outbox!Next
    <3>1. stranded' = stranded
      BY <2>2 DEF Deliver, Acknowledge
    <3>2. Outbox!LeaveBehind
      BY <2>0, <3>1 DEF Outbox!LeaveBehind, PipelineInv, PipelineTypeOK
    <3> QED
      BY <2>2, <3>2 DEF Deliver, Acknowledge, Outbox!Next
  <2>3. ASSUME NEW r \in Requests, Strand(r)  PROVE Outbox!Next
    <3>1. stranded' = stranded \cup {r} /\ UNCHANGED <<events, handed, settled, abandoned>>
      BY <2>3 DEF Strand, vars, tables
    <3>2. Outbox!LeaveBehind
      BY <2>0, <3>1 DEF Outbox!LeaveBehind, PipelineInv, PipelineTypeOK
    <3> QED
      BY <3>1, <3>2 DEF Outbox!Next
  <2>4. ASSUME NEW r \in Requests, StartJob(r) \/ EndJob(r) \/ ForgetJob(r)
        PROVE  UNCHANGED Outbox!vars
    BY <2>4 DEF StartJob, EndJob, ForgetJob, outboxVars, vars, tables, Outbox!vars
  <2>5. CASE UNCHANGED pipelineVars
    BY <2>5 DEF pipelineVars, outboxVars, vars, tables, Outbox!vars
  <2> QED
    BY <2>1, <2>2, <2>3, <2>4, <2>5 DEF PipelineNext, DeliveryNext
<1> QED
  BY <1>1, <1>2, PipelineInvariance, PTL DEF PipelineSpec, Outbox!Spec

\* And it uses the queue as its contract says: an event handed over once more
\* touches no job that is there.
THEOREM UsesQueue == PipelineSpec => Queue!Spec
<1>1. PipelineInit => Queue!Init
  BY DEF PipelineInit, Queue!Init
<1>2. [PipelineNext]_pipelineVars => [Queue!Next]_job
  <2>1. ASSUME NEW r \in Requests, DeliveryNext(r)  PROVE Queue!Next \/ UNCHANGED job
    BY <2>1 DEF DeliveryNext, Deliver, AddIncidentJob, Acknowledge, Strand, StartJob, EndJob,
        ForgetJob, queueVars, Queue!Next
  <2>2. CreationNext \/ UNCHANGED pipelineVars => UNCHANGED job
    BY DEF CreationNext, pipelineVars, queueVars
  <2> QED
    BY <2>1, <2>2 DEF PipelineNext
<1> QED
  BY <1>1, <1>2, PTL DEF PipelineSpec, Queue!Spec

\* Delivery and jobs leave the rows and handlers of creation alone, so what was
\* proved of creation by itself holds of the pipeline.
LEMMA PipelineCreates == PipelineSpec => Spec
<1>1. PipelineInit => Init
  BY DEF PipelineInit
<1>2. PipelineInv /\ [PipelineNext]_pipelineVars => [Next]_vars
  BY DeliveryLeavesRows DEF PipelineNext, CreationNext, pipelineVars
<1> QED
  BY <1>1, <1>2, PipelineInvariance, PTL DEF PipelineSpec, Spec

\* With the outbox and the worker taking the events up meanwhile, clients still
\* see the contract of creation.
THEOREM PipelineServesClients == PipelineSpec => ImplementsCreationContract
BY PipelineCreates, ImplementsContractOfCreation, PTL

=============================================================================
