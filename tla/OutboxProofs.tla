---------------------------- MODULE OutboxProofs ----------------------------
(***************************************************************************)
(* Proofs about module Outbox, for every set of events and pollers and     *)
(* every limit and bound: its types, that no event is ever in the hands of *)
(* two pollers, that published events were handed over, that retries are   *)
(* counted exactly, that a lost process or a lost reply strands one batch  *)
(* at most, that a failed event stays failed, and that the pollers         *)
(* implement the contract of the outbox.                                   *)
(***************************************************************************)
EXTENDS Outbox, FiniteSetTheorems, WellFoundedInduction, TLAPS

(***************************************************************************)
(* Facts about finite sets of numbers.                                     *)
(***************************************************************************)

\* The element whose set of smaller elements is minimal is the least one.
LEMMA LeastElement ==
    ASSUME NEW S, S \subseteq Nat, IsFiniteSet(S), S # {}
    PROVE  \E x \in S : \A y \in S : x <= y
<1> DEFINE Below(x) == {f \in S : f < x}
           T == {Below(x) : x \in S}
<1>1. IsWellFoundedOn(StrictSubsetOrdering(S), SUBSET S)
  BY FS_StrictSubsetOrderingWellFounded, FS_FiniteSubsetsOfFinite
<1>2. T \subseteq SUBSET S /\ T # {}
  OBVIOUS
<1>3. PICK B \in T : \A C \in T : <<C, B>> \notin StrictSubsetOrdering(S)
  <2> HIDE DEF T
  <2> QED
    BY <1>1, <1>2, WFMin
<1>4. PICK x \in S : B = Below(x)
  BY <1>3
<1>5. ASSUME NEW y \in S, y < x
      PROVE  FALSE
  <2>a. x \in Nat /\ y \in Nat /\ \A f \in S : f \in Nat
    OBVIOUS
  <2>b. \A f \in S : f < y => f < x
    BY <1>5, <2>a
  <2>c. y \in Below(x) /\ y \notin Below(y)
    BY <1>5, <2>a
  <2>1. Below(y) \subseteq Below(x) /\ Below(y) # Below(x)
    BY <2>b, <2>c
  <2>2. <<Below(y), Below(x)>> \in StrictSubsetOrdering(S)
    BY <2>1 DEF StrictSubsetOrdering
  <2> QED
    BY <1>3, <1>4, <2>2
<1> QED
  BY <1>5

\* Likewise for the greatest one.
LEMMA GreatestElement ==
    ASSUME NEW S, S \subseteq Nat, IsFiniteSet(S), S # {}
    PROVE  \E x \in S : \A y \in S : y <= x
<1> DEFINE Above(x) == {f \in S : x < f}
           T == {Above(x) : x \in S}
<1>1. IsWellFoundedOn(StrictSubsetOrdering(S), SUBSET S)
  BY FS_StrictSubsetOrderingWellFounded, FS_FiniteSubsetsOfFinite
<1>2. T \subseteq SUBSET S /\ T # {}
  OBVIOUS
<1>3. PICK B \in T : \A C \in T : <<C, B>> \notin StrictSubsetOrdering(S)
  <2> HIDE DEF T
  <2> QED
    BY <1>1, <1>2, WFMin
<1>4. PICK x \in S : B = Above(x)
  BY <1>3
<1>5. ASSUME NEW y \in S, x < y
      PROVE  FALSE
  <2>a. x \in Nat /\ y \in Nat /\ \A f \in S : f \in Nat
    OBVIOUS
  <2>b. \A f \in S : y < f => x < f
    BY <1>5, <2>a
  <2>c. y \in Above(x) /\ y \notin Above(y)
    BY <1>5, <2>a
  <2>1. Above(y) \subseteq Above(x) /\ Above(y) # Above(x)
    BY <2>b, <2>c
  <2>2. <<Above(y), Above(x)>> \in StrictSubsetOrdering(S)
    BY <2>1 DEF StrictSubsetOrdering
  <2> QED
    BY <1>3, <1>4, <2>2
<1> QED
  BY <1>5

\* The claiming SELECT returns some row whenever there is one.
LEMMA OldestNonempty ==
    ASSUME NEW S, S \subseteq Nat, IsFiniteSet(S), S # {}, NEW n \in Nat \ {0}
    PROVE  Oldest(S, n) # {}
<1>1. PICK x \in S : \A y \in S : x <= y
  BY LeastElement
<1>2. \A f \in S : ~ (f < x)
  BY <1>1
<1>3. {f \in S : f < x} = {}
  BY <1>2, Zenon
<1> QED
  BY <1>3, FS_EmptySet DEF Oldest

\* LIMIT n: the claiming SELECT returns n rows at most.
LEMMA OldestBounded ==
    ASSUME NEW S, S \subseteq Nat, IsFiniteSet(S), NEW n \in Nat \ {0}
    PROVE  IsFiniteSet(Oldest(S, n)) /\ Cardinality(Oldest(S, n)) <= n
<1> DEFINE O == Oldest(S, n)
<1>1. O \subseteq S /\ IsFiniteSet(O) /\ Cardinality(O) \in Nat
  BY FS_Subset, FS_CardinalityType DEF Oldest
<1>0. \A y \in O : y \in S /\ y \in Nat
  BY <1>1, Zenon
<1>2. CASE O = {}
  BY <1>1, <1>2, FS_EmptySet
<1>3. CASE O # {}
  <2>1. PICK m \in O : \A y \in O : y <= m
    BY <1>1, <1>3, GreatestElement
  <2> DEFINE Below == {f \in S : f < m}
  <2>2. Cardinality(Below) < n
    BY <2>1 DEF Oldest
  <2>3. IsFiniteSet(Below) /\ Cardinality(Below) \in Nat
    BY FS_Subset, FS_CardinalityType
  <2>4. O \subseteq Below \cup {m}
    <3> HIDE DEF O
    <3>1. \A y \in O : y < m \/ y = m
      BY <1>0, <2>1
    <3> QED
      BY <1>0, <3>1
  <2>5. m \notin Below
    <3>1. ~ (m < m)
      <4> HIDE DEF O
      <4> QED
        BY <1>0
    <3> QED
      BY <3>1, Zenon
  <2>6. IsFiniteSet(Below \cup {m}) /\ Cardinality(Below \cup {m}) = Cardinality(Below) + 1
    BY <2>3, <2>5, FS_AddElement
  <2>7. Cardinality(O) <= Cardinality(Below \cup {m})
    BY <2>4, <2>6, FS_Subset
  <2> QED
    BY <1>1, <2>2, <2>3, <2>6, <2>7
<1> QED
  BY <1>2, <1>3

(***************************************************************************)
(* The inductive invariant.                                                *)
(***************************************************************************)

Busy(p) == pc[p] \in {"looping", "added", "caught", "counted"}

\* p charges a failed attempt to its current event.
Charging(p) == pc[p] \in {"caught", "counted"}

\* What poll loop p knows of the events in its hands.
LoopOK(p) ==
    /\ pc[p] \in {"idle", "fetching", "down"} <=> batch[p] = {}
    /\ pc[p] = "claiming" => \A e \in batch[p] : status[e] = "PENDING"
    /\ Busy(p) => \A e \in batch[p] :
         \/ status[e] = "PROCESSING"
         \/ status[e] = "PUBLISHED" /\ Charging(p) /\ e = Current(p)
    /\ pc[p] = "added" => Current(p) \in jobs
    /\ pc[p] = "counted" => seenRetries[p] = retryCount[Current(p)]
    /\ \A e \in batch[p] :
         failures[e] = IF Charging(p) /\ e = Current(p)
                       THEN retryCount[e] + 1 ELSE retryCount[e]

LoopInv == \A p \in Pollers : LoopOK(p)

\* A row is locked by the loop that is claiming it, and by no other.
LockInv ==
    \A p \in Pollers, e \in Events :
        rowLock[e] = p <=> pc[p] = "claiming" /\ e \in batch[p]

\* The retry count stays below the limit until the event is given up.
RetryInv ==
    \A e \in Events :
        /\ status[e] \in {"ABSENT", "PENDING"} => retryCount[e] = failures[e]
        /\ status[e] = "FAILED" => failures[e] = MaxRetries
        /\ status[e] # "FAILED" => retryCount[e] < MaxRetries

IInv ==
    /\ TypeOK
    /\ LoopInv
    /\ LockInv
    /\ RetryInv
    /\ SingleConsumer
    /\ PublishedWasAdded

LEMMA InitInv == Init => IInv
<1> SUFFICES ASSUME Init PROVE IInv
  OBVIOUS
<1> USE LimitsAssumption, BoundsAssumption, PollersAssumption
<1>1. TypeOK
  BY DEF Init, TypeOK, Statuses, Locations
<1>2. LoopInv
  BY DEF Init, LoopInv, LoopOK, Busy
<1>3. LockInv
  BY DEF Init, LockInv
<1>4. RetryInv
  BY DEF Init, RetryInv
<1>5. SingleConsumer /\ PublishedWasAdded
  BY DEF Init, SingleConsumer, PublishedWasAdded
<1> QED
  BY <1>1, <1>2, <1>3, <1>4, <1>5 DEF IInv

\* The event a loop is at is one of those in its hands.
LEMMA CurrentInBatch ==
    ASSUME TypeOK, NEW p \in Pollers, batch[p] # {}
    PROVE  Current(p) \in batch[p] /\ Current(p) \in Events
<1>1. batch[p] \subseteq Events
  BY DEF TypeOK
<1>2. batch[p] \subseteq Nat /\ IsFiniteSet(batch[p])
  BY <1>1, EventsAssumption, FS_Subset
<1>3. \E e \in batch[p] : \A f \in batch[p] : e <= f
  BY <1>2, LeastElement
<1>4. Current(p) \in batch[p]
  BY <1>3 DEF Current
<1> QED
  BY <1>1, <1>4

\* A step that touches neither a loop nor the events in its hands.
LEMMA LoopFrame ==
    ASSUME NEW q \in Pollers, LoopOK(q),
           pc'[q] = pc[q], batch'[q] = batch[q], seenRetries'[q] = seenRetries[q],
           jobs \subseteq jobs',
           batch[q] # {} => Current(q) \in batch[q],
           \A e \in batch[q] : /\ status'[e] = status[e]
                               /\ retryCount'[e] = retryCount[e]
                               /\ failures'[e] = failures[e]
    PROVE  LoopOK(q)'
<1>1. Current(q)' = Current(q)
  BY DEF Current
<1>2. Busy(q)' = Busy(q) /\ Charging(q)' = Charging(q)
  BY DEF Busy, Charging
<1>3. pc[q] \in {"added", "counted"} => Current(q) \in batch[q]
  BY DEF LoopOK
<1> QED
  BY <1>1, <1>2, <1>3 DEF LoopOK

LEMMA EnqueueInv ==
    ASSUME IInv, NEW x \in Events, Enqueue(x)
    PROVE  IInv'
<1> USE DEF IInv
<1>1. TypeOK'
  BY DEF Enqueue, TypeOK, Statuses, loop, bounds
<1>2. ASSUME NEW q \in Pollers PROVE LoopOK(q)'
  <2>1. \A e \in batch[q] : e # x
    BY DEF LoopInv, LoopOK, Enqueue, Busy, TypeOK, Locations
  <2>2. batch[q] \subseteq Events
    BY DEF TypeOK
  <2> QED
    BY <2>1, <2>2, LoopFrame, CurrentInBatch DEF LoopInv, Enqueue, TypeOK, loop
<1>3. LockInv'
  BY DEF Enqueue, LockInv, loop
<1>4. RetryInv'
  BY DEF Enqueue, RetryInv, TypeOK
<1>5. SingleConsumer' /\ PublishedWasAdded'
  BY DEF Enqueue, SingleConsumer, PublishedWasAdded, TypeOK, loop
<1> QED
  BY <1>1, <1>2, <1>3, <1>4, <1>5 DEF LoopInv

LEMMA FetchSelectInv ==
    ASSUME IInv, NEW p \in Pollers, FetchSelect(p)
    PROVE  IInv'
<1> USE DEF IInv
<1> DEFINE claimed == Oldest(Claimable, BatchLimit)
<1>1. /\ Claimable \subseteq Events /\ claimed \subseteq Claimable
      /\ claimed # {}
  <2>1. Claimable \subseteq Events
    BY DEF Claimable
  <2>2. Claimable \subseteq Nat /\ IsFiniteSet(Claimable) /\ Claimable # {}
    BY <2>1, EventsAssumption, FS_Subset DEF FetchSelect
  <2> QED
    BY <2>1, <2>2, OldestNonempty, LimitsAssumption DEF Oldest
<1> HIDE DEF claimed
<1>2. /\ batch' = [batch EXCEPT ![p] = claimed]
      /\ rowLock' = [e \in Events |-> IF e \in claimed THEN p ELSE rowLock[e]]
      /\ pc' = [pc EXCEPT ![p] = "claiming"]
      /\ pc[p] \in {"idle", "fetching"}
      /\ UNCHANGED <<status, retryCount, jobs, seenRetries, running, failures, faults, aborts, exits>>
  BY DEF FetchSelect, claimed, bounds
<1>3. \A e \in claimed : e \in Events /\ status[e] = "PENDING" /\ rowLock[e] = NoPoller
  BY <1>1 DEF Claimable
<1>4. \A q \in Pollers : batch[q] \cap claimed = {}
  <2> SUFFICES ASSUME NEW q \in Pollers, NEW e \in batch[q], e \in claimed PROVE FALSE
    OBVIOUS
  <2>1. pc[q] # "claiming"
    BY <1>3, PollersAssumption DEF LockInv
  <2>2. Busy(q)
    BY <2>1 DEF LoopInv, LoopOK, TypeOK, Locations, Busy
  <2> QED
    BY <1>3, <2>2 DEF LoopInv, LoopOK
<1>5. TypeOK'
  BY <1>1, <1>2, <1>3 DEF TypeOK, Locations
<1>6. ASSUME NEW q \in Pollers, q # p PROVE LoopOK(q)'
  BY <1>2, <1>6, LoopFrame, CurrentInBatch DEF LoopInv, TypeOK
<1>7. LoopOK(p)'
  <2>1. batch'[p] = claimed /\ pc'[p] = "claiming"
    BY <1>2 DEF TypeOK
  <2>2. \A e \in claimed : failures[e] = retryCount[e]
    BY <1>3 DEF RetryInv
  <2> QED
    BY <1>1, <1>2, <1>3, <2>1, <2>2 DEF LoopOK, Busy, Charging
<1>8. LockInv'
  <2> SUFFICES ASSUME NEW q \in Pollers, NEW e \in Events
               PROVE  (rowLock[e] = q <=> pc[q] = "claiming" /\ e \in batch[q])'
    BY DEF LockInv
  <2>1. CASE q = p
    <3>1. batch'[p] = claimed /\ pc'[p] = "claiming"
      BY <1>2 DEF TypeOK
    <3>2. e \notin claimed => rowLock[e] # p
      BY <1>2 DEF LockInv
    <3> QED
      BY <1>2, <2>1, <3>1, <3>2
  <2>2. CASE q # p
    <3>1. batch'[q] = batch[q] /\ pc'[q] = pc[q]
      BY <1>2, <2>2 DEF TypeOK
    <3>2. rowLock[e] = q <=> pc[q] = "claiming" /\ e \in batch[q]
      BY DEF LockInv
    <3>3. CASE e \in claimed
      BY <1>2, <1>4, <2>2, <3>1, <3>3
    <3>4. CASE e \notin claimed
      BY <1>2, <3>1, <3>2, <3>4
    <3> QED
      BY <3>3, <3>4
  <2> QED
    BY <2>1, <2>2
<1>9. SingleConsumer'
  BY <1>2, <1>4 DEF SingleConsumer, TypeOK
<1>10. RetryInv' /\ PublishedWasAdded'
  BY <1>2 DEF RetryInv, PublishedWasAdded
<1> QED
  BY <1>5, <1>6, <1>7, <1>8, <1>9, <1>10 DEF LoopInv

LEMMA FetchCommitInv ==
    ASSUME IInv, NEW p \in Pollers, FetchCommit(p)
    PROVE  IInv'
<1> USE DEF IInv
<1>1. /\ pc[p] = "claiming" /\ batch[p] \subseteq Events
      /\ \A e \in batch[p] : status[e] = "PENDING"
      /\ pc'[p] = "looping"
      /\ \A e \in Events : status'[e] = IF e \in batch[p] THEN "PROCESSING" ELSE status[e]
      /\ UNCHANGED <<retryCount, jobs, batch, seenRetries, failures>>
  BY DEF FetchCommit, LoopInv, LoopOK, TypeOK
<1>2. TypeOK'
  BY DEF FetchCommit, TypeOK, Statuses, Locations, Unlocked, bounds
<1>3. ASSUME NEW q \in Pollers, q # p PROVE LoopOK(q)'
  <2>1. \A e \in batch[q] : e \notin batch[p] /\ e \in Events
    BY <1>3 DEF SingleConsumer, TypeOK
  <2> QED
    BY <1>1, <1>3, <2>1, LoopFrame, CurrentInBatch DEF LoopInv, TypeOK, FetchCommit
<1>4. LoopOK(p)'
  <2>1. \A e \in batch[p] : failures[e] = retryCount[e]
    BY <1>1 DEF LoopInv, LoopOK, Charging
  <2>2. batch[p] # {}
    BY <1>1 DEF LoopInv, LoopOK
  <2> QED
    BY <1>1, <2>1, <2>2 DEF LoopOK, Busy, Charging
<1>5. LockInv'
  <2> SUFFICES ASSUME NEW q \in Pollers, NEW e \in Events
               PROVE  (rowLock[e] = q <=> pc[q] = "claiming" /\ e \in batch[q])'
    BY DEF LockInv
  <2>1. rowLock'[e] = IF rowLock[e] = p THEN NoPoller ELSE rowLock[e]
    BY DEF FetchCommit, Unlocked
  <2>2. q # p => pc'[q] = pc[q]
    BY DEF FetchCommit, TypeOK
  <2> QED
    BY <1>1, <2>1, <2>2, PollersAssumption DEF LockInv
<1>6. RetryInv'
  BY <1>1 DEF RetryInv
<1>7. SingleConsumer' /\ PublishedWasAdded'
  BY <1>1 DEF SingleConsumer, PublishedWasAdded
<1> QED
  BY <1>2, <1>3, <1>4, <1>5, <1>6, <1>7 DEF LoopInv

\* Exit, Crash and a failing fetch drop what the loop holds.
LEMMA DropInv ==
    ASSUME IInv, NEW p \in Pollers, NEW l \in {"idle", "down"},
           batch' = [batch EXCEPT ![p] = {}],
           pc' = [pc EXCEPT ![p] = l],
           rowLock' = Unlocked(p),
           \A q \in Pollers : q # p => seenRetries'[q] = seenRetries[q],
           UNCHANGED <<status, retryCount, jobs, failures>>
    PROVE  LoopInv' /\ LockInv' /\ RetryInv' /\ SingleConsumer' /\ PublishedWasAdded'
<1> USE DEF IInv
<1>1. ASSUME NEW q \in Pollers, q # p PROVE LoopOK(q)'
  BY <1>1, LoopFrame, CurrentInBatch DEF LoopInv, TypeOK
<1>2. LoopOK(p)'
  BY DEF LoopOK, Busy, TypeOK
<1>3. LockInv'
  <2> SUFFICES ASSUME NEW q \in Pollers, NEW e \in Events
               PROVE  (rowLock[e] = q <=> pc[q] = "claiming" /\ e \in batch[q])'
    BY DEF LockInv
  <2>1. rowLock'[e] = IF rowLock[e] = p THEN NoPoller ELSE rowLock[e]
    BY DEF Unlocked
  <2>2. q # p => pc'[q] = pc[q] /\ batch'[q] = batch[q]
    BY DEF TypeOK
  <2>3. batch'[p] = {}
    BY DEF TypeOK
  <2> QED
    BY <2>1, <2>2, <2>3, PollersAssumption DEF LockInv
<1>4. RetryInv' /\ SingleConsumer' /\ PublishedWasAdded'
  BY DEF RetryInv, SingleConsumer, PublishedWasAdded, TypeOK
<1> QED
  BY <1>1, <1>2, <1>3, <1>4 DEF LoopInv

LEMMA FetchFailsInv ==
    ASSUME IInv, NEW p \in Pollers, FetchFails(p)
    PROVE  IInv'
<1>1. TypeOK'
  BY BoundsAssumption DEF IInv, FetchFails, TypeOK, Locations, Unlocked
<1> QED
  BY <1>1, DropInv DEF IInv, FetchFails

\* The lost reply of a commit: the rows are claimed and in nobody's hands.
LEMMA FetchCommitThrowsInv ==
    ASSUME IInv, NEW p \in Pollers, FetchCommitThrows(p)
    PROVE  IInv'
<1> USE DEF IInv
<1>1. /\ pc[p] = "claiming" /\ batch[p] \subseteq Events
      /\ \A e \in batch[p] : status[e] = "PENDING"
      /\ pc'[p] = "idle" /\ batch'[p] = {}
      /\ \A q \in Pollers : q # p => pc'[q] = pc[q] /\ batch'[q] = batch[q]
      /\ \A e \in Events : status'[e] = IF e \in batch[p] THEN "PROCESSING" ELSE status[e]
      /\ UNCHANGED <<retryCount, jobs, seenRetries, failures>>
  BY DEF FetchCommitThrows, LoopInv, LoopOK, TypeOK
<1>2. TypeOK'
  BY BoundsAssumption DEF FetchCommitThrows, TypeOK, Statuses, Locations, Unlocked
<1>3. ASSUME NEW q \in Pollers, q # p PROVE LoopOK(q)'
  <2>1. \A e \in batch[q] : e \notin batch[p] /\ e \in Events
    BY <1>3 DEF SingleConsumer, TypeOK
  <2> QED
    BY <1>1, <1>3, <2>1, LoopFrame, CurrentInBatch DEF LoopInv
<1>4. LoopOK(p)'
  BY <1>1 DEF LoopOK, Busy
<1>5. LockInv'
  <2> SUFFICES ASSUME NEW q \in Pollers, NEW e \in Events
               PROVE  (rowLock[e] = q <=> pc[q] = "claiming" /\ e \in batch[q])'
    BY DEF LockInv
  <2>1. rowLock'[e] = IF rowLock[e] = p THEN NoPoller ELSE rowLock[e]
    BY DEF FetchCommitThrows, Unlocked
  <2> QED
    BY <1>1, <2>1, PollersAssumption DEF LockInv
<1>6. RetryInv' /\ PublishedWasAdded'
  BY <1>1 DEF RetryInv, PublishedWasAdded
<1>7. SingleConsumer'
  BY <1>1 DEF SingleConsumer
<1> QED
  BY <1>2, <1>3, <1>4, <1>5, <1>6, <1>7 DEF LoopInv

LEMMA HaltInv ==
    ASSUME IInv, NEW p \in Pollers, Halt(p), exits' \in 0..MaxExits,
           UNCHANGED <<status, retryCount, jobs, failures, faults, aborts>>
    PROVE  IInv'
<1>1. TypeOK'
  BY LimitsAssumption DEF IInv, Halt, TypeOK, Locations, Unlocked
<1>2. \A q \in Pollers : q # p => seenRetries'[q] = seenRetries[q]
  BY DEF IInv, Halt, TypeOK
<1> QED
  BY <1>1, <1>2, DropInv DEF IInv, Halt

LEMMA AddJobInv ==
    ASSUME IInv, NEW p \in Pollers, AddJob(p)
    PROVE  IInv'
<1> USE DEF IInv
<1>1. batch[p] # {} /\ pc[p] = "looping"
  BY DEF AddJob, LoopInv, LoopOK
<1>2. Current(p) \in batch[p] /\ Current(p) \in Events
  BY <1>1, CurrentInBatch
<1>3. TypeOK'
  BY <1>2 DEF AddJob, TypeOK, Locations, rows, bounds
<1>4. ASSUME NEW q \in Pollers, q # p PROVE LoopOK(q)'
  BY <1>4, LoopFrame, CurrentInBatch DEF LoopInv, TypeOK, AddJob, rows
<1>5. LoopOK(p)'
  <2>1. pc'[p] = "added" /\ batch' = batch /\ Current(p)' = Current(p)
    BY DEF AddJob, TypeOK, Current
  <2>2. Current(p) \in jobs' /\ UNCHANGED <<status, retryCount, failures>>
    BY DEF AddJob, rows
  <2> QED
    BY <1>1, <2>1, <2>2 DEF LoopInv, LoopOK, Busy, Charging
<1>6. LockInv'
  BY <1>1 DEF LockInv, AddJob, rows, TypeOK
<1>7. RetryInv' /\ SingleConsumer' /\ PublishedWasAdded'
  BY DEF AddJob, rows, RetryInv, SingleConsumer, PublishedWasAdded
<1> QED
  BY <1>3, <1>4, <1>5, <1>6, <1>7 DEF LoopInv

LEMMA AddJobFailsInv ==
    ASSUME IInv, NEW p \in Pollers, AddJobFails(p)
    PROVE  IInv'
<1> USE DEF IInv
<1> DEFINE c == Current(p)
<1>1. batch[p] # {} /\ pc[p] = "looping"
  BY DEF AddJobFails, LoopInv, LoopOK
<1>2. c \in batch[p] /\ c \in Events
  BY <1>1, CurrentInBatch
<1> HIDE DEF c
<1>3. /\ pc' = [pc EXCEPT ![p] = "caught"]
      /\ failures' = [failures EXCEPT ![c] = @ + 1]
      /\ jobs \subseteq jobs' /\ jobs' \subseteq Events
      /\ faults' \in 0..MaxFaults
      /\ UNCHANGED <<status, retryCount, rowLock, batch, seenRetries, running, aborts, exits>>
  BY <1>2, BoundsAssumption DEF AddJobFails, rows, c, TypeOK
<1>4. TypeOK'
  BY <1>2, <1>3 DEF TypeOK, Locations
<1>5. ASSUME NEW q \in Pollers, q # p PROVE LoopOK(q)'
  <2>1. \A e \in batch[q] : e # c /\ e \in Events
    BY <1>2, <1>5 DEF SingleConsumer, TypeOK
  <2> QED
    BY <1>3, <1>5, <2>1, LoopFrame, CurrentInBatch DEF LoopInv, TypeOK
<1>6. LoopOK(p)'
  <2>1. pc'[p] = "caught" /\ Current(p)' = c
    BY <1>3 DEF TypeOK, Current, c
  <2>2. \A e \in batch[p] : status[e] = "PROCESSING" /\ failures[e] = retryCount[e]
    BY <1>1 DEF LoopInv, LoopOK, Busy, Charging
  <2>3. \A e \in batch[p] :
          failures'[e] = IF e = c THEN retryCount[e] + 1 ELSE retryCount[e]
    BY <1>2, <1>3, <2>2 DEF TypeOK
  <2> QED
    BY <1>1, <1>3, <2>1, <2>2, <2>3 DEF LoopOK, Busy, Charging
<1>7. LockInv'
  BY <1>1, <1>3 DEF LockInv, TypeOK
<1>8. RetryInv'
  <2>1. status[c] = "PROCESSING"
    BY <1>1, <1>2 DEF LoopInv, LoopOK, Busy, Charging
  <2> QED
    BY <1>2, <1>3, <2>1 DEF RetryInv, TypeOK
<1>9. SingleConsumer' /\ PublishedWasAdded'
  BY <1>3 DEF SingleConsumer, PublishedWasAdded
<1> QED
  BY <1>4, <1>5, <1>6, <1>7, <1>8, <1>9 DEF LoopInv

LEMMA MarkPublishedFailsInv ==
    ASSUME IInv, NEW p \in Pollers, MarkPublishedFails(p)
    PROVE  IInv'
<1> USE DEF IInv
<1> DEFINE c == Current(p)
<1>1. batch[p] # {} /\ pc[p] = "added"
  BY DEF MarkPublishedFails, LoopInv, LoopOK
<1>2. c \in batch[p] /\ c \in Events /\ c \in jobs
  BY <1>1, CurrentInBatch DEF LoopInv, LoopOK
<1> HIDE DEF c
<1>3. /\ pc' = [pc EXCEPT ![p] = "caught"]
      /\ failures' = [failures EXCEPT ![c] = @ + 1]
      /\ status' \in {status, [status EXCEPT ![c] = "PUBLISHED"]}
      /\ faults' \in 0..MaxFaults
      /\ UNCHANGED <<retryCount, rowLock, jobs, batch, seenRetries, running, aborts, exits>>
  BY BoundsAssumption DEF MarkPublishedFails, c, TypeOK
<1>4. TypeOK'
  BY <1>2, <1>3 DEF TypeOK, Locations, Statuses
<1>5. ASSUME NEW q \in Pollers, q # p PROVE LoopOK(q)'
  <2>1. \A e \in batch[q] : e # c /\ e \in Events
    BY <1>2, <1>5 DEF SingleConsumer, TypeOK
  <2> QED
    BY <1>3, <1>5, <2>1, LoopFrame, CurrentInBatch DEF LoopInv, TypeOK
<1>6. \A e \in batch[p] : status[e] = "PROCESSING" /\ failures[e] = retryCount[e] /\ e \in Events
  BY <1>1 DEF LoopInv, LoopOK, Busy, Charging, TypeOK
<1>7. LoopOK(p)'
  <2>1. pc'[p] = "caught" /\ Current(p)' = c
    BY <1>3 DEF TypeOK, Current, c
  <2>2. \A e \in batch[p] :
          /\ failures'[e] = IF e = c THEN retryCount[e] + 1 ELSE retryCount[e]
          /\ status'[e] = "PROCESSING" \/ (status'[e] = "PUBLISHED" /\ e = c)
    BY <1>2, <1>3, <1>6 DEF TypeOK
  <2> QED
    BY <1>1, <1>3, <2>1, <2>2 DEF LoopOK, Busy, Charging
<1>8. LockInv'
  BY <1>1, <1>3 DEF LockInv, TypeOK
<1>9. RetryInv'
  BY <1>2, <1>3, <1>6 DEF RetryInv, TypeOK
<1>10. SingleConsumer' /\ PublishedWasAdded'
  BY <1>2, <1>3 DEF SingleConsumer, PublishedWasAdded, TypeOK
<1> QED
  BY <1>4, <1>5, <1>7, <1>8, <1>9, <1>10 DEF LoopInv

LEMMA MarkFailedReadInv ==
    ASSUME IInv, NEW p \in Pollers, MarkFailedRead(p)
    PROVE  IInv'
<1> USE DEF IInv
<1>1. batch[p] # {} /\ pc[p] = "caught"
  BY DEF MarkFailedRead, LoopInv, LoopOK
<1>2. Current(p) \in batch[p] /\ Current(p) \in Events
  BY <1>1, CurrentInBatch
<1>3. TypeOK'
  BY <1>2 DEF MarkFailedRead, TypeOK, Locations, rows, bounds
<1>4. ASSUME NEW q \in Pollers, q # p PROVE LoopOK(q)'
  BY <1>4, LoopFrame, CurrentInBatch DEF LoopInv, TypeOK, MarkFailedRead, rows
<1>5. LoopOK(p)'
  <2>1. /\ pc'[p] = "counted" /\ batch' = batch /\ Current(p)' = Current(p)
        /\ seenRetries'[p] = retryCount[Current(p)]
    BY DEF MarkFailedRead, TypeOK, Current
  <2>2. UNCHANGED <<status, retryCount, failures, jobs>>
    BY DEF MarkFailedRead, rows
  <2> QED
    BY <1>1, <2>1, <2>2 DEF LoopInv, LoopOK, Busy, Charging
<1>6. LockInv'
  BY <1>1 DEF LockInv, MarkFailedRead, rows, TypeOK
<1>7. RetryInv' /\ SingleConsumer' /\ PublishedWasAdded'
  BY DEF MarkFailedRead, rows, RetryInv, SingleConsumer, PublishedWasAdded
<1> QED
  BY <1>3, <1>4, <1>5, <1>6, <1>7 DEF LoopInv

\* What the update of markFailed writes agrees with the failures so far.
LEMMA WriteFailureFacts ==
    ASSUME IInv, NEW p \in Pollers, pc[p] = "counted", WriteFailure(p)
    PROVE  LET c == Current(p) IN
           /\ c \in batch[p] /\ c \in Events
           /\ status[c] # "FAILED"
           /\ status' = [status EXCEPT ![c] =
                IF failures[c] >= MaxRetries THEN "FAILED" ELSE "PENDING"]
           /\ retryCount' = [retryCount EXCEPT ![c] = failures[c]]
           /\ failures[c] \in 0..MaxRetries
<1> USE DEF IInv
<1> DEFINE c == Current(p)
<1>1. c \in batch[p] /\ c \in Events
  BY CurrentInBatch DEF LoopInv, LoopOK
<1>2. seenRetries[p] = retryCount[c] /\ failures[c] = retryCount[c] + 1
  BY <1>1 DEF LoopInv, LoopOK, Charging
<1>3. status[c] \in {"PROCESSING", "PUBLISHED"}
  BY <1>1 DEF LoopInv, LoopOK, Busy
<1>4. retryCount[c] < MaxRetries /\ retryCount[c] \in Nat
  BY <1>1, <1>3, LimitsAssumption DEF RetryInv, TypeOK
<1>5. /\ status' = [status EXCEPT ![c] =
            IF failures[c] >= MaxRetries THEN "FAILED" ELSE "PENDING"]
      /\ retryCount' = [retryCount EXCEPT ![c] = failures[c]]
  BY <1>2 DEF WriteFailure
<1> QED
  BY <1>1, <1>2, <1>3, <1>4, <1>5, LimitsAssumption

\* An update of the row of the current event, after which p lets go of that
\* event, keeps the other loops and the row's own invariants.
LEMMA SettleInv ==
    ASSUME IInv, NEW p \in Pollers, NEW c \in batch[p],
           Busy(p),
           NEW s \in {"PUBLISHED", "FAILED", "PENDING"}, NEW r \in 0..MaxRetries,
           status' = [status EXCEPT ![c] = s],
           retryCount' = [retryCount EXCEPT ![c] = r],
           s = "PENDING" => r = failures[c] /\ r < MaxRetries,
           s = "FAILED" => failures[c] = MaxRetries,
           s = "PUBLISHED" => r < MaxRetries /\ c \in jobs,
           NEW l \in {"idle", "looping"}, NEW B, B \subseteq batch[p], c \notin B,
           batch' = [batch EXCEPT ![p] = B],
           pc' = [pc EXCEPT ![p] = l],
           l = "idle" <=> B = {},
           \A e \in batch[p] : e # c => e \in Events /\ status[e] = "PROCESSING"
                                          /\ failures[e] = retryCount[e],
           \A q \in Pollers : q # p => seenRetries'[q] = seenRetries[q],
           UNCHANGED <<rowLock, jobs, failures>>
    PROVE  LoopInv' /\ LockInv' /\ RetryInv' /\ SingleConsumer' /\ PublishedWasAdded'
<1> USE DEF IInv
<1>1. c \in Events
  BY DEF TypeOK
<1>2. ASSUME NEW q \in Pollers, q # p PROVE LoopOK(q)'
  <2>1. \A e \in batch[q] : e # c /\ e \in Events
    BY <1>2 DEF SingleConsumer, TypeOK
  <2> QED
    BY <1>1, <1>2, <2>1, LoopFrame, CurrentInBatch DEF LoopInv, TypeOK
<1>3. LoopOK(p)'
  <2>1. pc'[p] = l /\ batch'[p] = B
    BY DEF TypeOK
  <2>2. \A e \in B : status'[e] = "PROCESSING" /\ failures'[e] = retryCount'[e]
    BY <1>1 DEF TypeOK
  <2> QED
    BY <2>1, <2>2 DEF LoopOK, Busy, Charging
<1>4. LockInv'
  BY DEF LockInv, TypeOK, Busy
<1>5. RetryInv'
  BY <1>1 DEF RetryInv, TypeOK
<1>6. SingleConsumer'
  BY DEF SingleConsumer, TypeOK
<1>7. PublishedWasAdded'
  BY <1>1 DEF PublishedWasAdded, TypeOK
<1> QED
  BY <1>2, <1>3, <1>4, <1>5, <1>6, <1>7 DEF LoopInv

LEMMA MarkPublishedInv ==
    ASSUME IInv, NEW p \in Pollers, MarkPublished(p)
    PROVE  IInv'
<1> USE DEF IInv
<1> DEFINE c == Current(p)
           B == batch[p] \ {c}
<1>1. batch[p] # {} /\ pc[p] = "added"
  BY DEF MarkPublished, LoopInv, LoopOK
<1>2. c \in batch[p] /\ c \in Events /\ c \in jobs
  BY <1>1, CurrentInBatch DEF LoopInv, LoopOK
<1> HIDE DEF c
<1>3. \A e \in batch[p] : status[e] = "PROCESSING" /\ failures[e] = retryCount[e] /\ e \in Events
  BY <1>1 DEF LoopInv, LoopOK, Busy, Charging, TypeOK
<1>4. PICK l \in {"idle", "looping"} :
        /\ pc' = [pc EXCEPT ![p] = l]
        /\ l = "idle" <=> B = {}
  BY <1>2 DEF MarkPublished, Advance, c
<1>5. /\ status' = [status EXCEPT ![c] = "PUBLISHED"]
      /\ retryCount' = [retryCount EXCEPT ![c] = retryCount[c]]
      /\ batch' = [batch EXCEPT ![p] = B]
      /\ UNCHANGED <<rowLock, jobs, seenRetries, failures>>
  BY <1>2 DEF MarkPublished, Advance, c, TypeOK
<1>6. retryCount[c] < MaxRetries /\ retryCount[c] \in 0..MaxRetries
  BY <1>2, <1>3 DEF RetryInv, TypeOK
<1>7. TypeOK'
  BY <1>2, <1>4, <1>5 DEF MarkPublished, TypeOK, Locations, Statuses, bounds
<1>8. B \subseteq batch[p] /\ c \notin B /\ Busy(p)
  BY <1>1 DEF Busy
<1> HIDE DEF B
<1>9. LoopInv' /\ LockInv' /\ RetryInv' /\ SingleConsumer' /\ PublishedWasAdded'
  BY <1>2, <1>3, <1>4, <1>5, <1>6, <1>8, SettleInv
<1> QED
  BY <1>7, <1>9

LEMMA MarkFailedWriteInv ==
    ASSUME IInv, NEW p \in Pollers, MarkFailedWrite(p)
    PROVE  IInv'
<1> USE DEF IInv
<1> DEFINE c == Current(p)
           B == batch[p] \ {c}
           s == IF failures[c] >= MaxRetries THEN "FAILED" ELSE "PENDING"
<1>1. pc[p] = "counted" /\ WriteFailure(p)
  BY DEF MarkFailedWrite
<1>2. /\ c \in batch[p] /\ c \in Events
      /\ status' = [status EXCEPT ![c] = s]
      /\ retryCount' = [retryCount EXCEPT ![c] = failures[c]]
      /\ failures[c] \in 0..MaxRetries
  BY <1>1, WriteFailureFacts
<1>3. \A e \in batch[p] : e # c => /\ e \in Events /\ status[e] = "PROCESSING"
                                   /\ failures[e] = retryCount[e]
  BY <1>1 DEF LoopInv, LoopOK, Busy, Charging, TypeOK
<1>4. PICK l \in {"idle", "looping"} :
        /\ pc' = [pc EXCEPT ![p] = l]
        /\ l = "idle" <=> B = {}
  BY <1>2 DEF MarkFailedWrite, Advance
<1>5. /\ batch' = [batch EXCEPT ![p] = B] /\ UNCHANGED <<rowLock, jobs, failures>>
      /\ seenRetries' = [seenRetries EXCEPT ![p] = 0]
      /\ \A q \in Pollers : q # p => seenRetries'[q] = seenRetries[q]
  BY DEF MarkFailedWrite, Advance, TypeOK
<1>6. /\ s \in {"PUBLISHED", "FAILED", "PENDING"} /\ s # "PUBLISHED"
      /\ s = "PENDING" => failures[c] < MaxRetries
      /\ s = "FAILED" => failures[c] = MaxRetries
  BY <1>2, LimitsAssumption
<1>7. TypeOK'
  BY <1>2, <1>4, <1>5, <1>6, LimitsAssumption DEF MarkFailedWrite, TypeOK, Locations, Statuses, bounds
<1>8. B \subseteq batch[p] /\ c \notin B /\ Busy(p)
  BY <1>1 DEF Busy
<1> HIDE DEF c, s, B
<1>9. LoopInv' /\ LockInv' /\ RetryInv' /\ SingleConsumer' /\ PublishedWasAdded'
  BY <1>2, <1>3, <1>4, <1>5, <1>6, <1>8, SettleInv
<1> QED
  BY <1>7, <1>9

LEMMA MarkFailedThrowsInv ==
    ASSUME IInv, NEW p \in Pollers, MarkFailedThrows(p)
    PROVE  IInv'
<1> USE DEF IInv
<1> DEFINE c == Current(p)
           s == IF failures[c] >= MaxRetries THEN "FAILED" ELSE "PENDING"
<1>1. /\ pc[p] \in {"caught", "counted"}
      /\ batch' = [batch EXCEPT ![p] = {}]
      /\ pc' = [pc EXCEPT ![p] = "idle"]
      /\ UNCHANGED <<rowLock, jobs, running, failures, faults, exits>>
      /\ seenRetries' = [seenRetries EXCEPT ![p] = 0]
      /\ \A q \in Pollers : q # p => seenRetries'[q] = seenRetries[q]
      /\ aborts' \in 0..MaxAborts
  BY BoundsAssumption DEF MarkFailedThrows, TypeOK
<1>2. CASE UNCHANGED <<status, retryCount>>
  <2>1. rowLock' = Unlocked(p)
    BY <1>1 DEF Unlocked, TypeOK, LockInv
  <2>2. LoopInv' /\ LockInv' /\ RetryInv' /\ SingleConsumer' /\ PublishedWasAdded'
    BY <1>1, <1>2, <2>1, DropInv
  <2>3. TypeOK'
    BY <1>1, <1>2, LimitsAssumption DEF TypeOK, Locations
  <2> QED
    BY <2>2, <2>3
<1>3. CASE pc[p] = "counted" /\ WriteFailure(p)
  <2>1. /\ c \in batch[p] /\ c \in Events
        /\ status' = [status EXCEPT ![c] = s]
        /\ retryCount' = [retryCount EXCEPT ![c] = failures[c]]
        /\ failures[c] \in 0..MaxRetries
    BY <1>3, WriteFailureFacts
  <2>2. \A e \in batch[p] : e # c => /\ e \in Events /\ status[e] = "PROCESSING"
                                     /\ failures[e] = retryCount[e]
    BY <1>3 DEF LoopInv, LoopOK, Busy, Charging, TypeOK
  <2>3. /\ s \in {"PUBLISHED", "FAILED", "PENDING"} /\ s # "PUBLISHED"
        /\ s = "PENDING" => failures[c] < MaxRetries
        /\ s = "FAILED" => failures[c] = MaxRetries
    BY <2>1, LimitsAssumption
  <2>4. TypeOK'
    BY <1>1, <2>1, <2>3, LimitsAssumption DEF TypeOK, Locations, Statuses
  <2> DEFINE B == {}
             l == "idle"
  <2>5. /\ Busy(p) /\ B \subseteq batch[p] /\ c \notin B
        /\ l \in {"idle", "looping"} /\ (l = "idle" <=> B = {})
        /\ batch' = [batch EXCEPT ![p] = B]
        /\ pc' = [pc EXCEPT ![p] = l]
        /\ \A q \in Pollers : q # p => seenRetries'[q] = seenRetries[q]
        /\ UNCHANGED <<rowLock, jobs, failures>>
    BY <1>1 DEF Busy
  <2> HIDE DEF c, s, B, l
  <2>6. LoopInv' /\ LockInv' /\ RetryInv' /\ SingleConsumer' /\ PublishedWasAdded'
    BY <2>1, <2>2, <2>3, <2>5, SettleInv
  <2> QED
    BY <2>4, <2>6
<1> QED
  BY <1>2, <1>3 DEF MarkFailedThrows

LEMMA StopInv ==
    ASSUME IInv, NEW p \in Pollers, Stop(p)
    PROVE  IInv'
<1> USE DEF IInv
<1>1. /\ UNCHANGED <<rows, jobs, batch, seenRetries, failures>>
      /\ \/ pc' = pc
         \/ pc[p] = "idle" /\ pc' = [pc EXCEPT ![p] = "fetching"]
  BY DEF Stop
<1>2. TypeOK'
  BY <1>1, BoundsAssumption DEF Stop, TypeOK, Locations, rows
<1>3. ASSUME NEW q \in Pollers, pc'[q] = pc[q] PROVE LoopOK(q)'
  BY <1>1, <1>3, LoopFrame, CurrentInBatch DEF LoopInv, rows
<1>4. ASSUME pc[p] = "idle", pc'[p] = "fetching" PROVE LoopOK(p)'
  BY <1>1, <1>4 DEF LoopInv, LoopOK, Busy
<1>5. \A q \in Pollers : pc'[q] = pc[q] \/ (q = p /\ pc[p] = "idle" /\ pc'[p] = "fetching")
  BY <1>1 DEF TypeOK
<1>6. LockInv'
  BY <1>1, <1>5 DEF LockInv, rows
<1> QED
  BY <1>1, <1>2, <1>3, <1>4, <1>5, <1>6
  DEF LoopInv, RetryInv, SingleConsumer, PublishedWasAdded, rows

LEMMA RestartInv ==
    ASSUME IInv, NEW p \in Pollers, Restart(p)
    PROVE  IInv'
<1> USE DEF IInv
<1>1. /\ pc[p] = "down" /\ pc' = [pc EXCEPT ![p] = "idle"]
      /\ UNCHANGED <<status, retryCount, rowLock, jobs, batch, seenRetries, failures>>
  BY DEF Restart, rows
<1>2. TypeOK'
  BY DEF Restart, TypeOK, Locations, rows, bounds
<1>3. ASSUME NEW q \in Pollers, q # p PROVE LoopOK(q)'
  BY <1>1, <1>3, LoopFrame, CurrentInBatch DEF LoopInv, TypeOK
<1>4. LoopOK(p)'
  BY <1>1 DEF LoopInv, LoopOK, Busy, TypeOK
<1>5. LockInv'
  BY <1>1 DEF LockInv, TypeOK
<1> QED
  BY <1>1, <1>2, <1>3, <1>4, <1>5 DEF LoopInv, RetryInv, SingleConsumer, PublishedWasAdded

LEMMA StutterInv ==
    ASSUME IInv, UNCHANGED vars
    PROVE  IInv'
<1> USE DEF IInv, vars, rows, loop, bounds
<1>1. TypeOK'
  BY DEF TypeOK
<1>2. ASSUME NEW q \in Pollers PROVE LoopOK(q)'
  BY LoopFrame, CurrentInBatch DEF LoopInv
<1> QED
  BY <1>1, <1>2 DEF LoopInv, LockInv, RetryInv, SingleConsumer, PublishedWasAdded

\* Every step of the pollers and of the worker processes keeps the invariant.
THEOREM Inductive == IInv /\ [Next]_vars => IInv'
<1> SUFFICES ASSUME IInv, [Next]_vars PROVE IInv'
  OBVIOUS
<1>1. CASE \E e \in Events : Enqueue(e)
  BY <1>1, EnqueueInv
<1>2. ASSUME NEW p \in Pollers, Progress(p) PROVE IInv'
  BY <1>2, FetchSelectInv, FetchCommitInv, AddJobInv, MarkPublishedInv,
     MarkFailedReadInv, MarkFailedWriteInv DEF Progress
<1>3. ASSUME NEW p \in Pollers, Exit(p) PROVE IInv'
  <2>1. exits' \in 0..MaxExits
    BY <1>3 DEF Exit, bounds, IInv, TypeOK
  <2> QED
    BY <1>3, <2>1, HaltInv DEF Exit, bounds
<1>4. ASSUME NEW p \in Pollers, Crash(p) PROVE IInv'
  <2>1. exits' \in 0..MaxExits
    BY <1>4, BoundsAssumption DEF Crash, IInv, TypeOK
  <2> QED
    BY <1>4, <2>1, HaltInv DEF Crash
<1>5. ASSUME NEW p \in Pollers, Disturbance(p) PROVE IInv'
  BY <1>4, <1>5, FetchFailsInv, FetchCommitThrowsInv, AddJobFailsInv, MarkPublishedFailsInv,
     MarkFailedThrowsInv, StopInv DEF Disturbance
<1>6. ASSUME NEW p \in Pollers, Restart(p) PROVE IInv'
  BY <1>6, RestartInv
<1>7. CASE UNCHANGED vars
  BY <1>7, StutterInv
<1> QED
  BY <1>1, <1>2, <1>3, <1>5, <1>6, <1>7 DEF Next

LEMMA Invariance == Spec => []IInv
<1>1. Init => IInv
  BY InitInv
<1>2. IInv /\ [Next]_vars => IInv'
  BY Inductive
<1> QED
  BY <1>1, <1>2, PTL DEF Spec

(***************************************************************************)
(* The theorems.                                                           *)
(***************************************************************************)

\* The columns, the loops and the counters keep their types; in particular
\* retry_count never passes the limit.
THEOREM Typing == Spec => []TypeOK
<1>1. IInv => TypeOK
  BY DEF IInv
<1> QED
  BY <1>1, Invariance, PTL

\* fetchPendingBatch: an event is in the hands of one poller at most.
THEOREM NoSharedEvent == Spec => []SingleConsumer
<1>1. IInv => SingleConsumer
  BY DEF IInv
<1> QED
  BY <1>1, Invariance, PTL

\* An event recorded as published has its job in the queue.
THEOREM PublishedIsHanded == Spec => []PublishedWasAdded
<1>1. IInv => PublishedWasAdded
  BY DEF IInv
<1> QED
  BY <1>1, Invariance, PTL

\* The two calls of markFailed neither lose nor double a failed attempt.
THEOREM ExactRetries == Spec => []RetriesAreExact
<1>1. IInv => RetriesAreExact
  BY DEF IInv, RetryInv, RetriesAreExact
<1> QED
  BY <1>1, Invariance, PTL

\* No step of any loop, process or transaction touches a row that was claimed
\* once and is in nobody's hands.
LEMMA LeftAlone ==
    ASSUME IInv, [Next]_vars, NEW e \in Events, e \notin Held,
           status[e] \in {"PROCESSING", "PUBLISHED", "FAILED"}
    PROVE  status'[e] = status[e] /\ (e \in jobs' <=> e \in jobs) /\ e \notin Held'
<1> USE DEF IInv, Held
<1>1. \A p \in Pollers : e \notin batch[p]
  OBVIOUS
<1>2. ASSUME NEW p \in Pollers, Busy(p)
      PROVE  Current(p) # e
  BY <1>1, <1>2, CurrentInBatch DEF LoopInv, LoopOK, Busy
<1>3. e \notin Oldest(Claimable, BatchLimit)
  BY DEF Oldest, Claimable
<1>4. ASSUME NEW p \in Pollers, Progress(p)
      PROVE  /\ status'[e] = status[e] /\ (e \in jobs' <=> e \in jobs)
             /\ \A q \in Pollers : e \notin batch'[q]
  BY <1>1, <1>2, <1>3, <1>4
  DEF Progress, FetchSelect, FetchCommit, AddJob, MarkPublished, MarkFailedRead,
      MarkFailedWrite, WriteFailure, Advance, rows, Busy, TypeOK
<1>5. ASSUME NEW p \in Pollers, Disturbance(p)
      PROVE  /\ status'[e] = status[e] /\ (e \in jobs' <=> e \in jobs)
             /\ \A q \in Pollers : e \notin batch'[q]
  BY <1>1, <1>2, <1>5
  DEF Disturbance, FetchFails, FetchCommitThrows, AddJobFails, MarkPublishedFails,
      MarkFailedThrows, WriteFailure, Stop, Crash, Halt, rows, loop, Busy, TypeOK
<1>6. CASE UNCHANGED vars
  BY <1>1, <1>6 DEF vars, rows, loop
<1>7. ASSUME NEW p \in Pollers, Exit(p) \/ Restart(p)
      PROVE  /\ status'[e] = status[e] /\ (e \in jobs' <=> e \in jobs)
             /\ \A q \in Pollers : e \notin batch'[q]
  BY <1>1, <1>7 DEF Exit, Restart, Halt, rows, TypeOK
<1>8. ASSUME NEW f \in Events, Enqueue(f)
      PROVE  /\ status'[e] = status[e] /\ (e \in jobs' <=> e \in jobs)
             /\ \A q \in Pollers : e \notin batch'[q]
  BY <1>1, <1>8 DEF Enqueue, loop, TypeOK
<1> QED
  BY <1>4, <1>5, <1>6, <1>7, <1>8 DEF Next

\* No step publishes, reopens or hands over an event that was given up.
THEOREM FailedStaysFailed == Spec => FailedIsFinal
<1>1. ASSUME IInv, [Next]_vars, NEW e \in Events, status[e] = "FAILED"
      PROVE  status'[e] = "FAILED" /\ (e \in jobs' <=> e \in jobs)
  <2>1. e \notin Held
    BY <1>1 DEF IInv, LoopInv, LoopOK, Busy, TypeOK, Locations, Held
  <2> QED
    BY <1>1, <2>1, LeftAlone
<1>2. IInv /\ [Next]_vars =>
        [\A e \in Events : status[e] = "FAILED" =>
            status'[e] = "FAILED" /\ (e \in jobs' <=> e \in jobs)]_vars
  BY <1>1
<1> QED
  BY <1>2, Invariance, PTL DEF Spec, FailedIsFinal

\* No step takes up a stranded row again.
LEMMA StrandedStay == IInv /\ [Next]_vars => Stranded \subseteq Stranded'
<1> SUFFICES ASSUME IInv, [Next]_vars, NEW e \in Stranded PROVE e \in Stranded'
  OBVIOUS
<1>1. e \in Events /\ status[e] = "PROCESSING" /\ e \notin Held
  BY DEF Stranded
<1>2. status'[e] = "PROCESSING" /\ e \notin Held'
  BY <1>1, LeftAlone
<1> QED
  BY <1>1, <1>2 DEF Stranded

\* What a process that ended, a markFailed that threw or a claim that lost its
\* reply has left in PROCESSING stays there for good: no poller and no restart
\* gets it back.
THEOREM StrandedForGood == Spec => [][Stranded \subseteq Stranded']_vars
<1>1. IInv /\ [Next]_vars => [Stranded \subseteq Stranded']_vars
  BY StrandedStay
<1> QED
  BY <1>1, Invariance, PTL DEF Spec

(***************************************************************************)
(* The pollers implement the contract of the outbox.                       *)
(***************************************************************************)

\* What the contract says of the events, apart from those left behind.
ContractEvents ==
    \/ \E e \in Events :
            Contract!Record(e) \/ Contract!Hand(e) \/ Contract!Settle(e)
                \/ Contract!Reopen(e) \/ Contract!Abandon(e)
    \/ UNCHANGED <<{e \in Events : status[e] # "ABSENT"}, jobs,
                   {e \in Events : status[e] = "PUBLISHED"},
                   {e \in Events : status[e] = "FAILED"}>>

\* A step that changes no row and no job is none of the contract's business.
LEMMA ContractStutter ==
    ASSUME UNCHANGED <<status, jobs>>
    PROVE  ContractEvents
BY DEF ContractEvents

\* Adding the job of an event in the hands of a loop hands it over.
LEMMA ContractHand ==
    ASSUME NEW c \in Events, status[c] = "PROCESSING", c \in Held,
           jobs' = jobs \cup {c}, UNCHANGED status
    PROVE  ContractEvents
<1>1. Contract!Hand(c)
  BY DEF Contract!Hand, Contract!Owed, Stranded
<1> QED
  BY <1>1 DEF ContractEvents

\* The updates of one row by markPublished and markFailed.
LEMMA ContractSettle ==
    ASSUME NEW c \in Events, status \in [Events -> Statuses \cup {"ABSENT"}],
           status[c] \in {"PROCESSING", "PUBLISHED"}, c \in Held,
           NEW s \in {"PENDING", "PUBLISHED", "FAILED"},
           s = "PUBLISHED" => c \in jobs /\ status[c] = "PROCESSING",
           status' = [status EXCEPT ![c] = s], UNCHANGED jobs
    PROVE  ContractEvents
<1>1. CASE s = "PENDING" /\ status[c] = "PROCESSING"
  BY <1>1 DEF ContractEvents, Statuses
<1>2. CASE s = "PENDING" /\ status[c] = "PUBLISHED"
  <2>1. Contract!Reopen(c)
    BY <1>2 DEF Contract!Reopen
  <2> QED
    BY <2>1 DEF ContractEvents
<1>3. CASE s = "PUBLISHED"
  <2>1. Contract!Settle(c)
    BY <1>3 DEF Contract!Settle, Contract!Owed, Stranded
  <2> QED
    BY <2>1 DEF ContractEvents
<1>4. CASE s = "FAILED"
  <2>1. Contract!Abandon(c)
    BY <1>4 DEF Contract!Abandon, Contract!Owed, Stranded
  <2> QED
    BY <2>1 DEF ContractEvents
<1> QED
  BY <1>1, <1>2, <1>3, <1>4

\* Claiming rows concerns nobody but the pollers.
LEMMA ContractClaim ==
    ASSUME IInv, NEW p \in Pollers, FetchCommit(p) \/ FetchCommitThrows(p)
    PROVE  ContractEvents
<1>1. \A e \in batch[p] : status[e] = "PENDING"
  BY DEF IInv, LoopInv, LoopOK, FetchCommit, FetchCommitThrows
<1>2. \A e \in Events : /\ status'[e] = "ABSENT" <=> status[e] = "ABSENT"
                        /\ status'[e] = "PUBLISHED" <=> status[e] = "PUBLISHED"
                        /\ status'[e] = "FAILED" <=> status[e] = "FAILED"
  BY <1>1 DEF FetchCommit, FetchCommitThrows
<1> QED
  BY <1>2 DEF ContractEvents, FetchCommit, FetchCommitThrows

\* Rows left behind were claimed, and are neither published nor given up.
LEMMA ContractLeave == IInv /\ [Next]_vars => Contract!LeaveBehind
BY StrandedStay DEF Contract!LeaveBehind, Stranded

\* The outbox implements its contract: every step of a poller, of a worker
\* process and of the environment is a step of the contract or a stutter.
THEOREM Implements == Spec => ImplementsContract
<1>1. Init => Contract!Init
  BY DEF Init, Contract!Init, Stranded
<1>2. ASSUME IInv, [Next]_vars
      PROVE  ContractEvents
  <2> USE DEF IInv
  <2>1. status \in [Events -> Statuses \cup {"ABSENT"}]
    BY <1>2 DEF TypeOK
  <2>2. ASSUME NEW p \in Pollers, Busy(p)
        PROVE  /\ Current(p) \in Events /\ Current(p) \in Held
               /\ status[Current(p)] \in {"PROCESSING", "PUBLISHED"}
               /\ ~Charging(p) => status[Current(p)] = "PROCESSING"
               /\ pc[p] = "added" => Current(p) \in jobs
    <3>1. Current(p) \in batch[p] /\ Current(p) \in Events
      BY <1>2, <2>2, CurrentInBatch DEF LoopInv, LoopOK, Busy
    <3> QED
      BY <1>2, <2>2, <3>1 DEF LoopInv, LoopOK, Held
  <2>3. ASSUME NEW e \in Events, Enqueue(e) PROVE ContractEvents
    <3>1. Contract!Record(e)
      BY <2>1, <2>3 DEF Enqueue, Contract!Record
    <3> QED
      BY <3>1 DEF ContractEvents
  <2>4. ASSUME NEW p \in Pollers, AddJob(p) PROVE ContractEvents
    BY <2>2, <2>4, ContractHand DEF AddJob, rows, Busy, Charging
  <2>5. ASSUME NEW p \in Pollers, AddJobFails(p)
        PROVE  ContractEvents
    <3>1. CASE jobs' = jobs
      BY <2>5, <3>1, ContractStutter DEF AddJobFails, rows
    <3>2. CASE jobs' = jobs \cup {Current(p)}
      BY <2>2, <2>5, <3>2, ContractHand DEF AddJobFails, rows, Busy, Charging
    <3> QED
      BY <2>5, <3>1, <3>2 DEF AddJobFails
  <2>6. ASSUME NEW p \in Pollers, MarkPublished(p)
        PROVE  ContractEvents
    BY <2>1, <2>2, <2>6, ContractSettle DEF MarkPublished, Busy, Charging
  <2>7. ASSUME NEW p \in Pollers, MarkPublishedFails(p)
        PROVE  ContractEvents
    <3>1. CASE UNCHANGED status
      BY <2>7, <3>1, ContractStutter DEF MarkPublishedFails
    <3>2. CASE status' = [status EXCEPT ![Current(p)] = "PUBLISHED"]
      BY <2>1, <2>2, <2>7, <3>2, ContractSettle DEF MarkPublishedFails, Busy, Charging
    <3> QED
      BY <2>7, <3>1, <3>2 DEF MarkPublishedFails
  <2>8. ASSUME NEW p \in Pollers, pc[p] = "counted", WriteFailure(p), UNCHANGED jobs
        PROVE  ContractEvents
    <3>1. PICK s \in {"PENDING", "PUBLISHED", "FAILED"} :
            s # "PUBLISHED" /\ status' = [status EXCEPT ![Current(p)] = s]
      BY <2>8 DEF WriteFailure
    <3> QED
      BY <2>1, <2>2, <2>8, <3>1, ContractSettle DEF Busy
  <2>9. ASSUME NEW p \in Pollers, FetchSelect(p) \/ FetchFails(p) \/ MarkFailedRead(p)
                                  \/ Stop(p) \/ Crash(p) \/ Exit(p) \/ Restart(p)
        PROVE  ContractEvents
    BY <2>9, ContractStutter
    DEF FetchSelect, FetchFails, MarkFailedRead, Stop, Crash, Exit, Restart, rows
  <2>10. ASSUME NEW p \in Pollers, MarkFailedThrows(p)
         PROVE  ContractEvents
    BY <2>8, <2>10, ContractStutter DEF MarkFailedThrows
  <2>11. ASSUME NEW p \in Pollers, MarkFailedWrite(p)
         PROVE  ContractEvents
    BY <2>8, <2>11 DEF MarkFailedWrite
  <2>12. CASE UNCHANGED vars
    BY <2>12, ContractStutter DEF vars, rows
  <2> QED
    BY <1>2, <2>3, <2>4, <2>5, <2>6, <2>7, <2>9, <2>10, <2>11, <2>12, ContractClaim
    DEF Next, Progress, Disturbance
<1>3. IInv /\ [Next]_vars => [Contract!Next]_Contract!vars
  BY <1>2, ContractLeave DEF Contract!Next, ContractEvents
<1> QED
  BY <1>1, <1>3, Invariance, PTL DEF Spec, ImplementsContract, Contract!Spec

(***************************************************************************)
(* Stranded rows.                                                          *)
(***************************************************************************)

\* Rows that are stranded, or will be once the stopped processes have ended.
AtRisk == Stranded \cup {e \in Events : \E p \in Pollers : ~running[p] /\ e \in batch[p]}

\* Loops that were stopped in a turn and may still claim a batch in it.
Fetching == {p \in Pollers : pc[p] = "fetching"}

RiskInv ==
    /\ \A p \in Pollers : Cardinality(batch[p]) <= BatchLimit
    /\ IsFiniteSet(Fetching)
    /\ Cardinality(AtRisk) + BatchLimit * Cardinality(Fetching)
         <= BatchLimit * (exits + aborts)

LEMMA Products ==
    ASSUME NEW a \in Nat, NEW b \in Nat
    PROVE  /\ a * b \in Nat
           /\ a * (b + 1) = a * b + a
           /\ \A c \in Nat : b <= c => a * b <= a * c
<1>1. a * b \in Nat /\ a * (b + 1) = a * b + a
  OBVIOUS
<1>2. ASSUME NEW c \in Nat, b <= c PROVE a * b <= a * c
  <2>1. PICK d \in Nat : c = b + d
    BY <1>2
  <2>2. a * c = a * b + a * d /\ a * d \in Nat
    BY <2>1
  <2> QED
    BY <1>1, <2>2
<1> QED
  BY <1>1, <1>2

\* Sets of events are finite and their size is monotone.
LEMMA EventSets ==
    ASSUME NEW S \in SUBSET Events, NEW T \in SUBSET Events
    PROVE  /\ IsFiniteSet(S) /\ Cardinality(S) \in Nat
           /\ S \subseteq T => Cardinality(S) <= Cardinality(T)
           /\ Cardinality(S \cup T) <= Cardinality(S) + Cardinality(T)
<1>1. /\ IsFiniteSet(S) /\ IsFiniteSet(T)
      /\ Cardinality(S) \in Nat /\ Cardinality(T) \in Nat
  BY EventsAssumption, FS_Subset, FS_CardinalityType
<1>2. Cardinality(S \cup T) = Cardinality(S) + Cardinality(T) - Cardinality(S \cap T)
  BY <1>1, FS_Union
<1>3. Cardinality(S \cap T) \in Nat
  BY <1>1, FS_Intersection, FS_CardinalityType
<1>4. S \subseteq T => Cardinality(S) <= Cardinality(T)
  BY <1>1, FS_Subset
<1> QED
  BY <1>1, <1>2, <1>3, <1>4

\* A step after which no more loops can claim a batch late.
LEMMA FewerFetching ==
    ASSUME RiskInv, Fetching' \subseteq Fetching
    PROVE  /\ IsFiniteSet(Fetching')
           /\ BatchLimit * Cardinality(Fetching') \in Nat
           /\ BatchLimit * Cardinality(Fetching) \in Nat
           /\ BatchLimit * Cardinality(Fetching') <= BatchLimit * Cardinality(Fetching)
<1>1. /\ IsFiniteSet(Fetching') /\ Cardinality(Fetching') <= Cardinality(Fetching)
      /\ Cardinality(Fetching') \in Nat /\ Cardinality(Fetching) \in Nat
  BY FS_Subset, FS_CardinalityType DEF RiskInv
<1> QED
  BY <1>1, Products, LimitsAssumption

\* A step that adds nothing to the rows at risk.
LEMMA RiskShrinks ==
    ASSUME TypeOK, TypeOK', RiskInv,
           \A p \in Pollers : Cardinality(batch'[p]) <= BatchLimit,
           Fetching' \subseteq Fetching,
           AtRisk' \subseteq AtRisk, exits' = exits, aborts' = aborts
    PROVE  RiskInv'
<1>1. AtRisk \in SUBSET Events /\ AtRisk' \in SUBSET Events
  BY DEF AtRisk, Stranded
<1>2. Cardinality(AtRisk') <= Cardinality(AtRisk)
  BY <1>1, EventSets
<1>3. Cardinality(AtRisk') \in Nat /\ Cardinality(AtRisk) \in Nat
  BY <1>1, EventSets
<1>4. BatchLimit * (exits + aborts) \in Nat
  BY LimitsAssumption DEF TypeOK
<1> QED
  BY <1>2, <1>3, <1>4, FewerFetching DEF RiskInv

\* A step that counts one more exit or abort may put one batch at risk.
LEMMA RiskGrows ==
    ASSUME TypeOK, TypeOK', RiskInv, NEW p \in Pollers,
           \A q \in Pollers : Cardinality(batch'[q]) <= BatchLimit,
           Fetching' \subseteq Fetching,
           AtRisk' \subseteq AtRisk \cup batch[p],
           exits' + aborts' = exits + aborts + 1
    PROVE  RiskInv'
<1>1. /\ AtRisk \in SUBSET Events /\ AtRisk' \in SUBSET Events
      /\ batch[p] \in SUBSET Events /\ AtRisk \cup batch[p] \in SUBSET Events
  BY DEF AtRisk, Stranded, TypeOK
<1>2. Cardinality(AtRisk') <= Cardinality(AtRisk \cup batch[p])
  BY <1>1, EventSets
<1>3. Cardinality(AtRisk \cup batch[p]) <= Cardinality(AtRisk) + Cardinality(batch[p])
  BY <1>1, EventSets
<1>4. /\ Cardinality(AtRisk') \in Nat /\ Cardinality(AtRisk) \in Nat
      /\ Cardinality(batch[p]) \in Nat /\ Cardinality(AtRisk \cup batch[p]) \in Nat
  BY <1>1, EventSets
<1>5. BatchLimit * (exits' + aborts') = BatchLimit * (exits + aborts) + BatchLimit
  <2>1. exits + aborts \in Nat /\ BatchLimit \in Nat
    BY LimitsAssumption DEF TypeOK
  <2>2. BatchLimit * ((exits + aborts) + 1) = BatchLimit * (exits + aborts) + BatchLimit
    BY <2>1, Products
  <2> QED
    BY <2>1, <2>2
<1>6. BatchLimit * (exits + aborts) \in Nat /\ BatchLimit \in Nat
  BY LimitsAssumption DEF TypeOK
<1> QED
  BY <1>2, <1>3, <1>4, <1>5, <1>6, FewerFetching DEF RiskInv

\* The batch that a loop stopped in its turn may still claim is reserved ...
LEMMA RiskReserved ==
    ASSUME TypeOK, TypeOK', RiskInv, NEW p \in Pollers,
           \A q \in Pollers : Cardinality(batch'[q]) <= BatchLimit,
           p \notin Fetching, Fetching' = Fetching \cup {p},
           AtRisk' = AtRisk,
           exits' + aborts' = exits + aborts + 1
    PROVE  RiskInv'
<1>1. AtRisk \in SUBSET Events
  BY DEF AtRisk, Stranded
<1>2. Cardinality(AtRisk') = Cardinality(AtRisk) /\ Cardinality(AtRisk) \in Nat
  BY <1>1, EventSets
<1>3. /\ IsFiniteSet(Fetching') /\ Cardinality(Fetching') = Cardinality(Fetching) + 1
      /\ Cardinality(Fetching) \in Nat
  BY FS_AddElement, FS_CardinalityType DEF RiskInv
<1>4. /\ BatchLimit * Cardinality(Fetching') = BatchLimit * Cardinality(Fetching) + BatchLimit
      /\ BatchLimit * Cardinality(Fetching) \in Nat
  BY <1>3, Products, LimitsAssumption
<1>5. BatchLimit * (exits' + aborts') = BatchLimit * (exits + aborts) + BatchLimit
  <2>1. exits + aborts \in Nat /\ BatchLimit \in Nat
    BY LimitsAssumption DEF TypeOK
  <2>2. BatchLimit * ((exits + aborts) + 1) = BatchLimit * (exits + aborts) + BatchLimit
    BY <2>1, Products
  <2> QED
    BY <2>1, <2>2
<1>6. BatchLimit * (exits + aborts) \in Nat /\ BatchLimit \in Nat
  BY LimitsAssumption DEF TypeOK
<1> QED
  BY <1>2, <1>3, <1>4, <1>5, <1>6 DEF RiskInv

\* ... and spent when it claims it.
LEMMA RiskSpent ==
    ASSUME TypeOK, TypeOK', RiskInv, NEW p \in Pollers,
           \A q \in Pollers : Cardinality(batch'[q]) <= BatchLimit,
           p \in Fetching, Fetching' = Fetching \ {p},
           AtRisk' \subseteq AtRisk \cup batch'[p],
           exits' = exits, aborts' = aborts
    PROVE  RiskInv'
<1>1. /\ AtRisk \in SUBSET Events /\ AtRisk' \in SUBSET Events
      /\ batch'[p] \in SUBSET Events /\ AtRisk \cup batch'[p] \in SUBSET Events
  BY DEF AtRisk, Stranded, TypeOK
<1>2. Cardinality(AtRisk') <= Cardinality(AtRisk \cup batch'[p])
  BY <1>1, EventSets
<1>3. Cardinality(AtRisk \cup batch'[p]) <= Cardinality(AtRisk) + Cardinality(batch'[p])
  BY <1>1, EventSets
<1>4. /\ Cardinality(AtRisk') \in Nat /\ Cardinality(AtRisk) \in Nat
      /\ Cardinality(batch'[p]) \in Nat /\ Cardinality(AtRisk \cup batch'[p]) \in Nat
  BY <1>1, EventSets
<1>5. /\ IsFiniteSet(Fetching') /\ Cardinality(Fetching) = Cardinality(Fetching') + 1
      /\ Cardinality(Fetching') \in Nat
  <2>1. /\ IsFiniteSet(Fetching') /\ Cardinality(Fetching') = Cardinality(Fetching) - 1
        /\ Cardinality(Fetching) \in Nat
    BY FS_RemoveElement, FS_CardinalityType DEF RiskInv
  <2> QED
    BY <2>1, FS_CardinalityType
<1>6. /\ BatchLimit * Cardinality(Fetching) = BatchLimit * Cardinality(Fetching') + BatchLimit
      /\ BatchLimit * Cardinality(Fetching') \in Nat
  BY <1>5, Products, LimitsAssumption
<1>7. BatchLimit * (exits + aborts) \in Nat /\ BatchLimit \in Nat
  BY LimitsAssumption DEF TypeOK
<1> QED
  BY <1>2, <1>3, <1>4, <1>5, <1>6, <1>7 DEF RiskInv

\* The SELECT takes BatchLimit rows at most; no other step lengthens a batch.
LEMMA BatchesAreBounded ==
    ASSUME IInv, IInv', [Next]_vars, RiskInv
    PROVE  \A q \in Pollers : Cardinality(batch'[q]) <= BatchLimit
<1> SUFFICES ASSUME NEW q \in Pollers
             PROVE  Cardinality(batch'[q]) <= BatchLimit
  OBVIOUS
<1> USE DEF IInv
<1>1. /\ batch[q] \in SUBSET Events /\ batch'[q] \in SUBSET Events
      /\ Cardinality(batch[q]) <= BatchLimit
      /\ BatchLimit \in Nat \ {0}
  BY LimitsAssumption DEF TypeOK, RiskInv
<1>2. CASE batch'[q] \subseteq batch[q]
  <2>1. Cardinality(batch'[q]) <= Cardinality(batch[q])
    BY <1>1, <1>2, EventSets
  <2>2. Cardinality(batch'[q]) \in Nat /\ Cardinality(batch[q]) \in Nat
    BY <1>1, EventSets
  <2> QED
    BY <1>1, <2>1, <2>2
<1>3. CASE FetchSelect(q)
  <2>1. Claimable \subseteq Nat /\ IsFiniteSet(Claimable)
    BY EventsAssumption, FS_Subset DEF Claimable
  <2>2. batch'[q] = Oldest(Claimable, BatchLimit)
    BY <1>3 DEF FetchSelect, TypeOK
  <2> QED
    BY <1>1, <2>1, <2>2, OldestBounded
<1>4. ASSUME NEW p \in Pollers, Progress(p), ~ FetchSelect(q)
      PROVE  batch'[q] \subseteq batch[q]
  BY <1>4 DEF Progress, FetchSelect, FetchCommit, AddJob, MarkPublished,
              MarkFailedRead, MarkFailedWrite, Advance, TypeOK
<1>5. ASSUME NEW p \in Pollers, Disturbance(p) \/ Exit(p) \/ Restart(p)
      PROVE  batch'[q] \subseteq batch[q]
  BY <1>5 DEF Disturbance, FetchFails, FetchCommitThrows, AddJobFails,
              MarkPublishedFails, MarkFailedThrows, Stop, Crash, Exit, Halt, Restart, loop, TypeOK
<1>6. ASSUME NEW e \in Events, Enqueue(e) PROVE batch'[q] \subseteq batch[q]
  BY <1>6 DEF Enqueue, loop
<1>7. ASSUME UNCHANGED vars PROVE batch'[q] \subseteq batch[q]
  BY <1>7 DEF vars, loop
<1> QED
  BY <1>2, <1>3, <1>4, <1>5, <1>6, <1>7 DEF Next

\* A step of a loop that meets no end adds nothing to the rows at risk: a row
\* leaves its hands only with another status than PROCESSING.
LEMMA ProgressRisk ==
    ASSUME IInv, NEW p \in Pollers, Progress(p), pc[p] # "fetching"
    PROVE  AtRisk' \subseteq AtRisk
<1> USE DEF IInv
<1> DEFINE Risky(e) == \/ status[e] = "PROCESSING" /\ \A q \in Pollers : e \notin batch[q]
                       \/ \E q \in Pollers : ~running[q] /\ e \in batch[q]
<1>1. \A e \in Events : e \in AtRisk <=> Risky(e)
  BY DEF AtRisk, Stranded, Held
<1>2. \A e \in Events : (e \in AtRisk)' <=> Risky(e)'
  BY DEF AtRisk, Stranded, Held
<1>3. AtRisk \subseteq Events /\ AtRisk' \subseteq Events
  BY DEF AtRisk, Stranded
<1>4. batch[p] # {} => Current(p) \in batch[p] /\ Current(p) \in Events
  BY CurrentInBatch
<1> SUFFICES ASSUME NEW e \in Events, Risky(e)' PROVE Risky(e)
  BY <1>1, <1>2, <1>3
<1>5. running' = running
  BY DEF Progress, FetchSelect, FetchCommit, AddJob, MarkPublished, MarkFailedRead,
         MarkFailedWrite
<1>6. CASE FetchSelect(p)
  BY <1>5, <1>6 DEF FetchSelect, TypeOK, LoopInv, LoopOK
<1>7. CASE FetchCommit(p)
  BY <1>5, <1>7 DEF FetchCommit, TypeOK
<1>8. CASE AddJob(p) \/ MarkFailedRead(p)
  BY <1>5, <1>8 DEF AddJob, MarkFailedRead, rows
<1>9. CASE MarkPublished(p) \/ MarkFailedWrite(p)
  <2>1. batch[p] # {}
    BY <1>9 DEF MarkPublished, MarkFailedWrite, LoopInv, LoopOK
  <2>2. \A q \in Pollers : batch'[q] = IF q = p THEN batch[p] \ {Current(p)} ELSE batch[q]
    BY <1>9 DEF MarkPublished, MarkFailedWrite, Advance, TypeOK
  <2>3. status'[Current(p)] # "PROCESSING"
        /\ \A f \in Events : f # Current(p) => status'[f] = status[f]
    BY <1>4, <1>9, <2>1 DEF MarkPublished, MarkFailedWrite, WriteFailure, TypeOK
  <2>4. CASE \E q \in Pollers : ~running'[q] /\ e \in batch'[q]
    BY <1>5, <2>2, <2>4
  <2>5. CASE status'[e] = "PROCESSING" /\ \A q \in Pollers : e \notin batch'[q]
    <3>1. e # Current(p) /\ status[e] = "PROCESSING"
      BY <2>3, <2>5
    <3>2. \A q \in Pollers : e \notin batch[q]
      BY <2>2, <2>5, <3>1
    <3> QED
      BY <3>1, <3>2
  <2> QED
    BY <2>4, <2>5
<1> QED
  BY <1>6, <1>7, <1>8, <1>9 DEF Progress

\* A stopped loop that claims in its last turn puts that batch at risk.
LEMMA LateClaimRisk ==
    ASSUME IInv, NEW p \in Pollers, FetchSelect(p)
    PROVE  AtRisk' \subseteq AtRisk \cup batch'[p]
<1>1. /\ UNCHANGED <<status, running>> /\ batch[p] = {}
      /\ \A q \in Pollers : q # p => batch'[q] = batch[q]
  BY DEF FetchSelect, IInv, TypeOK, LoopInv, LoopOK
<1> SUFFICES ASSUME NEW e \in AtRisk', e \notin batch'[p] PROVE e \in AtRisk
  OBVIOUS
<1>2. e \in Events
  BY DEF AtRisk, Stranded
<1>3. CASE status'[e] = "PROCESSING" /\ \A q \in Pollers : e \notin batch'[q]
  BY <1>1, <1>2, <1>3 DEF AtRisk, Stranded, Held
<1>4. CASE \E q \in Pollers : ~running'[q] /\ e \in batch'[q]
  BY <1>1, <1>2, <1>4 DEF AtRisk
<1> QED
  BY <1>3, <1>4 DEF AtRisk, Stranded, Held

\* A step that ends or aborts loop p at worst puts the rows it holds at risk.
LEMMA DropRisk ==
    ASSUME IInv, NEW p \in Pollers,
           \A q \in Pollers : batch'[q] = batch[q] \/ (q = p /\ batch'[q] = {}),
           \A q \in Pollers : q # p => running'[q] = running[q],
           \A e \in Events \ batch[p] :
             status'[e] = "PROCESSING" => status[e] = "PROCESSING"
    PROVE  AtRisk' \subseteq AtRisk \cup batch[p]
<1> DEFINE Risky(e) == \/ status[e] = "PROCESSING" /\ \A q \in Pollers : e \notin batch[q]
                       \/ \E q \in Pollers : ~running[q] /\ e \in batch[q]
<1>1. \A e \in Events : e \in AtRisk <=> Risky(e)
  BY DEF AtRisk, Stranded, Held
<1>2. \A e \in Events : (e \in AtRisk)' <=> Risky(e)'
  BY DEF AtRisk, Stranded, Held
<1>3. AtRisk' \subseteq Events
  BY DEF AtRisk, Stranded
<1> SUFFICES ASSUME NEW e \in Events, Risky(e)', e \notin batch[p] PROVE Risky(e)
  BY <1>1, <1>2, <1>3
<1> QED
  OBVIOUS

\* The other steps: enqueueing, failing calls that are caught, a restart.
LEMMA QuietRisk ==
    ASSUME IInv, UNCHANGED running \/ (\E p \in Pollers : Restart(p)),
           \A q \in Pollers : batch'[q] = batch[q]
                              \/ (pc[q] = "claiming" /\ batch'[q] = {}),
           \A e \in Events : status'[e] = "PROCESSING" => status[e] = "PROCESSING"
    PROVE  AtRisk' \subseteq AtRisk
<1> USE DEF IInv
<1> DEFINE Risky(e) == \/ status[e] = "PROCESSING" /\ \A q \in Pollers : e \notin batch[q]
                       \/ \E q \in Pollers : ~running[q] /\ e \in batch[q]
<1>1. \A e \in Events : e \in AtRisk <=> Risky(e)
  BY DEF AtRisk, Stranded, Held
<1>2. \A e \in Events : (e \in AtRisk)' <=> Risky(e)'
  BY DEF AtRisk, Stranded, Held
<1>3. AtRisk' \subseteq Events
  BY DEF AtRisk, Stranded
<1>4. \A q \in Pollers, e \in Events :
        pc[q] = "claiming" /\ e \in batch[q] => status[e] = "PENDING"
  BY DEF LoopInv, LoopOK
<1>5. \A q \in Pollers : ~running'[q] => ~running[q]
  BY DEF Restart, TypeOK
<1> SUFFICES ASSUME NEW e \in Events, Risky(e)' PROVE Risky(e)
  BY <1>1, <1>2, <1>3
<1> QED
  BY <1>4, <1>5

LEMMA RiskStep ==
    ASSUME IInv, IInv', [Next]_vars, RiskInv
    PROVE  RiskInv'
<1> USE DEF IInv
<1>1. \A q \in Pollers : Cardinality(batch'[q]) <= BatchLimit
  BY BatchesAreBounded
<1>2. ASSUME NEW p \in Pollers, Progress(p) PROVE RiskInv'
  <2>1. exits' = exits /\ aborts' = aborts
    BY <1>2 DEF Progress, FetchSelect, FetchCommit, AddJob, MarkPublished,
                MarkFailedRead, MarkFailedWrite, bounds
  <2>2. \A q \in Pollers : pc'[q] = IF q = p THEN pc'[p] ELSE pc[q]
    BY <1>2 DEF Progress, FetchSelect, FetchCommit, AddJob, MarkPublished,
                MarkFailedRead, MarkFailedWrite, Advance, TypeOK
  <2>3. pc'[p] # "fetching"
    BY <1>2 DEF Progress, FetchSelect, FetchCommit, AddJob, MarkPublished,
                MarkFailedRead, MarkFailedWrite, Advance, TypeOK
  <2>4. CASE pc[p] = "fetching"
    <3>1. FetchSelect(p)
      BY <1>2, <2>4 DEF Progress, FetchCommit, AddJob, MarkPublished,
                        MarkFailedRead, MarkFailedWrite
    <3>2. p \in Fetching /\ Fetching' = Fetching \ {p}
      BY <2>2, <2>3, <2>4 DEF Fetching
    <3> QED
      BY <1>1, <2>1, <3>1, <3>2, LateClaimRisk, RiskSpent
  <2>5. CASE pc[p] # "fetching"
    <3>1. Fetching' \subseteq Fetching
      BY <2>2, <2>3 DEF Fetching
    <3> QED
      BY <1>1, <1>2, <2>1, <2>5, <3>1, ProgressRisk, RiskShrinks
  <2> QED
    BY <2>4, <2>5
<1>3. ASSUME NEW p \in Pollers, FetchCommitThrows(p) \/ MarkFailedThrows(p)
                              \/ (Stop(p) /\ pc' = pc) \/ Crash(p)
      PROVE  RiskInv'
  <2>1. exits' + aborts' = exits + aborts + 1
    <3>1. exits \in Nat /\ aborts \in Nat
      BY BoundsAssumption DEF TypeOK
    <3>2. \/ exits' = exits /\ aborts' = aborts + 1
          \/ exits' = exits + 1 /\ aborts' = aborts
      BY <1>3 DEF FetchCommitThrows, MarkFailedThrows, Stop, Crash
    <3> QED
      BY <3>1, <3>2
  <2>2. AtRisk' \subseteq AtRisk \cup batch[p]
    <3>1. \A q \in Pollers : batch'[q] = batch[q] \/ (q = p /\ batch'[q] = {})
      BY <1>3 DEF FetchCommitThrows, MarkFailedThrows, Stop, Crash, Halt, TypeOK
    <3>2. \A q \in Pollers : q # p => running'[q] = running[q]
      BY <1>3 DEF FetchCommitThrows, MarkFailedThrows, Stop, Crash, Halt, TypeOK
    <3>3. \A e \in Events \ batch[p] :
            status'[e] = "PROCESSING" => status[e] = "PROCESSING"
      BY <1>3 DEF FetchCommitThrows, MarkFailedThrows, WriteFailure, Stop, Crash, rows, TypeOK
    <3> QED
      BY <3>1, <3>2, <3>3, DropRisk
  <2>3. Fetching' \subseteq Fetching
    BY <1>3 DEF FetchCommitThrows, MarkFailedThrows, Stop, Crash, Halt, TypeOK, Fetching
  <2> QED
    BY <1>1, <2>1, <2>2, <2>3, RiskGrows
<1>4. ASSUME NEW p \in Pollers, Exit(p) PROVE RiskInv'
  <2>1. batch[p] \subseteq AtRisk
    BY <1>4 DEF Exit, AtRisk, TypeOK
  <2>2. AtRisk' \subseteq AtRisk \cup batch[p]
    BY <1>4, DropRisk DEF Exit, Halt, TypeOK
  <2>3. Fetching' \subseteq Fetching
    BY <1>4 DEF Exit, Halt, TypeOK, Fetching
  <2> QED
    BY <1>1, <1>4, <2>1, <2>2, <2>3, RiskShrinks DEF Exit, bounds
<1>5. ASSUME NEW p \in Pollers,
             FetchFails(p) \/ AddJobFails(p) \/ MarkPublishedFails(p) \/ Restart(p)
      PROVE  RiskInv'
  <2>1. exits' = exits /\ aborts' = aborts
    BY <1>5 DEF FetchFails, AddJobFails, MarkPublishedFails, Restart, bounds
  <2>2. UNCHANGED running \/ (\E q \in Pollers : Restart(q))
    BY <1>5 DEF FetchFails, AddJobFails, MarkPublishedFails
  <2>3. \A q \in Pollers : batch'[q] = batch[q] \/ (pc[q] = "claiming" /\ batch'[q] = {})
    BY <1>5 DEF FetchFails, AddJobFails, MarkPublishedFails, Restart, TypeOK
  <2>4. \A e \in Events : status'[e] = "PROCESSING" => status[e] = "PROCESSING"
    BY <1>5 DEF FetchFails, AddJobFails, MarkPublishedFails, Restart, rows, TypeOK
  <2>5. Fetching' \subseteq Fetching
    BY <1>5 DEF FetchFails, AddJobFails, MarkPublishedFails, Restart, TypeOK, Fetching
  <2> QED
    BY <1>1, <2>1, <2>2, <2>3, <2>4, <2>5, QuietRisk, RiskShrinks
<1>6. ASSUME (\E e \in Events : Enqueue(e)) \/ UNCHANGED vars PROVE RiskInv'
  <2>1. UNCHANGED <<running, batch, exits, aborts>>
    BY <1>6 DEF Enqueue, vars, loop, bounds
  <2>2. \A e \in Events : status'[e] = "PROCESSING" => status[e] = "PROCESSING"
    BY <1>6 DEF Enqueue, vars, rows, TypeOK
  <2>3. Fetching' = Fetching
    BY <1>6 DEF Enqueue, vars, loop, Fetching
  <2> QED
    BY <1>1, <2>1, <2>2, <2>3, QuietRisk, RiskShrinks
<1>7. ASSUME NEW p \in Pollers, Stop(p), pc[p] = "idle", pc' = [pc EXCEPT ![p] = "fetching"]
      PROVE  RiskInv'
  <2>1. exits' + aborts' = exits + aborts + 1
    BY <1>7, BoundsAssumption DEF Stop, TypeOK
  <2>2. p \notin Fetching /\ Fetching' = Fetching \cup {p}
    BY <1>7 DEF Fetching, TypeOK
  <2>3. AtRisk' = AtRisk
    <3>1. batch[p] = {} /\ UNCHANGED <<status, batch>>
      BY <1>7 DEF Stop, LoopInv, LoopOK, rows
    <3>2. \A q \in Pollers : q # p => running'[q] = running[q]
      BY <1>7 DEF Stop, TypeOK
    <3>3. \A e : (\E q \in Pollers : ~running'[q] /\ e \in batch[q])
                   <=> \E q \in Pollers : ~running[q] /\ e \in batch[q]
      BY <3>1, <3>2
    <3> QED
      BY <3>1, <3>3 DEF AtRisk, Stranded, Held
  <2> QED
    BY <1>1, <2>1, <2>2, <2>3, RiskReserved
<1>8. ASSUME NEW p \in Pollers, Stop(p) PROVE RiskInv'
  BY <1>3, <1>7, <1>8 DEF Stop
<1> QED
  BY <1>2, <1>3, <1>4, <1>5, <1>6, <1>8 DEF Next, Disturbance

\* A process that ends, a markFailed that throws and a claim whose reply is lost
\* strand one batch of rows each at most, and nothing else strands any.
THEOREM StrandedRowsAreBounded == Spec => []StrandedIsBounded
<1>1. Init => RiskInv
  <2> SUFFICES ASSUME Init PROVE RiskInv
    OBVIOUS
  <2>1. AtRisk = {} /\ Fetching = {}
    BY DEF Init, AtRisk, Stranded, Fetching
  <2> QED
    BY <2>1, FS_EmptySet, LimitsAssumption DEF Init, RiskInv
<1>2. IInv /\ IInv' /\ [Next]_vars /\ RiskInv => RiskInv'
  BY RiskStep
<1>3. IInv /\ RiskInv => StrandedIsBounded
  <2> SUFFICES ASSUME IInv, RiskInv PROVE StrandedIsBounded
    OBVIOUS
  <2>1. /\ Stranded \in SUBSET Events /\ AtRisk \in SUBSET Events
        /\ Stranded \subseteq AtRisk
    BY DEF AtRisk, Stranded
  <2>2. /\ Cardinality(Stranded) <= Cardinality(AtRisk)
        /\ Cardinality(Stranded) \in Nat /\ Cardinality(AtRisk) \in Nat
    BY <2>1, EventSets
  <2>3. BatchLimit * (exits + aborts) \in Nat
    BY LimitsAssumption DEF IInv, TypeOK
  <2>4. BatchLimit * Cardinality(Fetching) \in Nat
    BY FS_CardinalityType, Products, LimitsAssumption DEF RiskInv
  <2> QED
    BY <2>2, <2>3, <2>4 DEF RiskInv, StrandedIsBounded
<1> QED
  BY <1>1, <1>2, <1>3, Invariance, PTL DEF Spec

(***************************************************************************)
(* What PendingIsClaimed and SettlesUnlessStranded rest on, apart from     *)
(* fairness: an event that is not at its end is within a loop's reach, a   *)
(* claim passes over no older event, and each turn of a loop has an end.   *)
(***************************************************************************)

\* A pending event may be claimed or is being claimed, and one that was claimed
\* is in the hands of a loop that goes on, unless it is stranded.
NothingIsOutOfReach ==
    \A e \in Events :
        /\ status[e] = "PENDING" =>
             e \in Claimable \/ \E p \in Pollers : pc[p] = "claiming" /\ e \in batch[p]
        /\ status[e] = "PROCESSING" =>
             e \in Stranded \/ \E p \in Pollers : Busy(p) /\ e \in batch[p]

\* A claim is never empty, and takes the older of two rows it could take.
ClaimsTakeTheOldest ==
    [][\A p \in Pollers : pc[p] # "claiming" /\ pc'[p] = "claiming" =>
        /\ batch'[p] # {}
        /\ \A e \in batch'[p], f \in Claimable : f < e => f \in batch'[p]]_vars

\* The calls that are before a loop until its turn ends, five for an event.
StillToDo(l) ==
    CASE l = "claiming" -> 5
      [] l = "looping" -> 4
      [] l = "added" -> 3
      [] l = "caught" -> 2
      [] l = "counted" -> 1
      [] OTHER -> 0

Effort(p) == 5 * Cardinality(batch[p]) + StillToDo(pc[p])

\* Within a turn each call takes the loop nearer to its end, and nothing that
\* others do, no failure and no signal takes it further away.
TurnsComeToAnEnd ==
    [][\A p \in Pollers : pc[p] \notin {"idle", "fetching", "down"} =>
        /\ Effort(p)' <= Effort(p)
        /\ Progress(p) => Effort(p)' < Effort(p)]_vars

\* Whatever failed, crashed or was released: no event is left where no loop
\* would come to it, but for the stranded ones.
THEOREM EventsStayInReach == Spec => []NothingIsOutOfReach
<1>1. IInv => NothingIsOutOfReach
  <2> SUFFICES ASSUME IInv, NEW e \in Events
               PROVE  /\ status[e] = "PENDING" =>
                           e \in Claimable
                           \/ \E p \in Pollers : pc[p] = "claiming" /\ e \in batch[p]
                      /\ status[e] = "PROCESSING" =>
                           e \in Stranded \/ \E p \in Pollers : Busy(p) /\ e \in batch[p]
    BY DEF NothingIsOutOfReach
  <2>1. rowLock[e] \in Pollers => pc[rowLock[e]] = "claiming" /\ e \in batch[rowLock[e]]
    BY DEF IInv, LockInv
  <2>2. status[e] = "PENDING" =>
          e \in Claimable \/ \E p \in Pollers : pc[p] = "claiming" /\ e \in batch[p]
    BY <2>1 DEF IInv, TypeOK, Claimable
  <2>3. ASSUME status[e] = "PROCESSING", NEW p \in Pollers, e \in batch[p]
        PROVE  Busy(p)
    BY <2>3 DEF IInv, TypeOK, Locations, LoopInv, LoopOK, Busy
  <2> QED
    BY <2>2, <2>3 DEF Stranded, Held
<1> QED
  BY <1>1, Invariance, PTL

\* ORDER BY created_at ASC LIMIT n leaves no older row for a younger one.
LEMMA OldestFirst ==
    ASSUME NEW S, S \subseteq Nat, IsFiniteSet(S), NEW n \in Nat,
           NEW e \in Oldest(S, n), NEW f \in S, f < e
    PROVE  f \in Oldest(S, n)
<1> DEFINE Below(x) == {g \in S : g < x}
<1>1. Below(f) \subseteq Below(e)
  <2>1. e \in Nat /\ f \in Nat /\ \A g \in S : g \in Nat
    BY DEF Oldest
  <2>2. \A g \in S : g < f => g < e
    BY <2>1
  <2> QED
    BY <2>2
<1>2. IsFiniteSet(Below(e))
  BY FS_Subset
<1>3. /\ Cardinality(Below(f)) <= Cardinality(Below(e))
      /\ Cardinality(Below(f)) \in Nat /\ Cardinality(Below(e)) \in Nat
  BY <1>1, <1>2, FS_Subset, FS_CardinalityType
<1>4. Cardinality(Below(e)) < n
  BY DEF Oldest
<1> QED
  BY <1>3, <1>4 DEF Oldest

\* No pending event is passed over for a younger one, although other loops hold
\* locks on rows before and after it.
THEOREM OldestAreClaimed == Spec => ClaimsTakeTheOldest
<1>1. ASSUME IInv, [Next]_vars, NEW p \in Pollers, pc[p] # "claiming", pc'[p] = "claiming"
      PROVE  /\ batch'[p] # {}
             /\ \A e \in batch'[p], f \in Claimable : f < e => f \in batch'[p]
  <2>1. FetchSelect(p)
    <3>1. ASSUME NEW q \in Pollers, Progress(q) PROVE FetchSelect(p)
      BY <1>1, <3>1 DEF Progress, FetchSelect, FetchCommit, AddJob, MarkPublished,
         MarkFailedRead, MarkFailedWrite, Advance, IInv, TypeOK
    <3>2. ASSUME NEW q \in Pollers, Disturbance(q) \/ Exit(q) \/ Restart(q) PROVE FALSE
      BY <1>1, <3>2 DEF Disturbance, FetchFails, FetchCommitThrows, AddJobFails,
         MarkPublishedFails, MarkFailedThrows, Stop, Crash, Exit, Halt, Restart, loop, IInv, TypeOK
    <3>3. ASSUME (\E e \in Events : Enqueue(e)) \/ UNCHANGED vars PROVE FALSE
      BY <1>1, <3>3 DEF Enqueue, vars, loop
    <3> QED
      BY <1>1, <3>1, <3>2, <3>3 DEF Next
  <2>2. batch'[p] = Oldest(Claimable, BatchLimit) /\ Claimable # {}
    BY <1>1, <2>1 DEF FetchSelect, IInv, TypeOK
  <2>3. Claimable \subseteq Nat /\ IsFiniteSet(Claimable)
    BY EventsAssumption, FS_Subset DEF Claimable
  <2>4. batch'[p] # {}
    BY <2>2, <2>3, OldestNonempty, LimitsAssumption
  <2>5. \A e \in batch'[p], f \in Claimable : f < e => f \in batch'[p]
    BY <2>2, <2>3, OldestFirst, LimitsAssumption
  <2> QED
    BY <2>4, <2>5
<1>2. IInv /\ [Next]_vars =>
        [\A p \in Pollers : pc[p] # "claiming" /\ pc'[p] = "claiming" =>
            /\ batch'[p] # {}
            /\ \A e \in batch'[p], f \in Claimable : f < e => f \in batch'[p]]_vars
  BY <1>1
<1> QED
  BY <1>2, Invariance, PTL DEF Spec, ClaimsTakeTheOldest

\* A loop that goes on with its event, is through with it, or drops its batch.
LEMMA EffortFalls ==
    ASSUME IInv, NEW p \in Pollers, pc[p] \notin {"idle", "fetching", "down"},
           \/ /\ batch'[p] = batch[p] /\ pc'[p] \in Locations
              /\ StillToDo(pc'[p]) < StillToDo(pc[p])
           \/ /\ batch'[p] = batch[p] \ {Current(p)} /\ pc'[p] \in {"idle", "looping"}
           \/ batch'[p] = {} /\ pc'[p] \in {"idle", "down"}
    PROVE  Effort(p)' < Effort(p)
<1>1. /\ pc[p] \in Locations \ {"idle", "fetching", "down"} /\ batch[p] \in SUBSET Events
      /\ batch[p] # {}
  BY DEF IInv, TypeOK, LoopInv, LoopOK
<1>2. IsFiniteSet(batch[p]) /\ Cardinality(batch[p]) \in Nat
  BY <1>1, EventSets
<1>3. StillToDo(pc[p]) \in 1..5
  BY <1>1 DEF StillToDo, Locations
<1>4. Effort(p)' = 5 * Cardinality(batch'[p]) + StillToDo(pc'[p])
  BY DEF Effort, StillToDo
<1>5. CASE batch'[p] = batch[p] /\ pc'[p] \in Locations /\ StillToDo(pc'[p]) < StillToDo(pc[p])
  <2>1. StillToDo(pc'[p]) \in 0..5
    BY <1>5 DEF StillToDo, Locations
  <2> HIDE DEF StillToDo
  <2> QED
    BY <1>2, <1>3, <1>4, <1>5, <2>1 DEF Effort
<1>6. CASE batch'[p] = batch[p] \ {Current(p)} /\ pc'[p] \in {"idle", "looping"}
  <2>1. Current(p) \in batch[p]
    BY <1>1, CurrentInBatch DEF IInv
  <2>2. Cardinality(batch'[p]) = Cardinality(batch[p]) - 1
    BY <1>2, <1>6, <2>1, FS_RemoveElement
  <2>3. StillToDo(pc'[p]) \in 0..4
    BY <1>6 DEF StillToDo
  <2> QED
    BY <1>2, <1>3, <1>4, <2>2, <2>3 DEF Effort
<1>7. CASE batch'[p] = {} /\ pc'[p] \in {"idle", "down"}
  <2>1. Cardinality(batch'[p]) = 0 /\ StillToDo(pc'[p]) = 0
    BY <1>7, FS_EmptySet DEF StillToDo
  <2> QED
    BY <1>2, <1>3, <1>4, <2>1 DEF Effort
<1> QED
  BY <1>5, <1>6, <1>7

LEMMA EffortType ==
    ASSUME IInv, [Next]_vars PROVE \A p \in Pollers : Effort(p)' \in Nat
<1> SUFFICES ASSUME NEW p \in Pollers PROVE Effort(p)' \in Nat
  OBVIOUS
<1>1. batch'[p] \in SUBSET Events
  BY Inductive DEF IInv, TypeOK
<1>2. Cardinality(batch'[p]) \in Nat
  BY <1>1, EventSets
<1>3. StillToDo(pc'[p]) \in 0..5
  BY DEF StillToDo
<1>4. Effort(p)' = 5 * Cardinality(batch'[p]) + StillToDo(pc'[p])
  BY DEF Effort, StillToDo
<1> QED
  BY <1>2, <1>3, <1>4

\* A turn makes five calls for each event of its batch at most.
THEOREM TurnsEnd == Spec => TurnsComeToAnEnd
<1>1. ASSUME IInv, [Next]_vars, NEW p \in Pollers, pc[p] \notin {"idle", "fetching", "down"}
      PROVE  /\ Effort(p)' <= Effort(p)
             /\ Progress(p) => Effort(p)' < Effort(p)
  <2>1. Effort(p) \in Nat
    <3>1. batch[p] \in SUBSET Events /\ pc[p] \in Locations
      BY <1>1 DEF IInv, TypeOK
    <3>2. Cardinality(batch[p]) \in Nat
      BY <3>1, EventSets
    <3>3. StillToDo(pc[p]) \in 0..5
      BY DEF StillToDo
    <3> QED
      BY <3>2, <3>3 DEF Effort
  <2>2. pc'[p] = pc[p] /\ batch'[p] = batch[p] => Effort(p)' = Effort(p)
    BY DEF Effort, StillToDo
  <2>3. ASSUME Progress(p) PROVE Effort(p)' < Effort(p)
    <3>1. CASE FetchCommit(p) \/ AddJob(p) \/ MarkFailedRead(p)
      <4>1. batch'[p] = batch[p] /\ pc'[p] \in Locations
            /\ StillToDo(pc'[p]) < StillToDo(pc[p])
        BY <1>1, <3>1 DEF FetchCommit, AddJob, MarkFailedRead, StillToDo, Locations,
           IInv, TypeOK
      <4> QED
        BY <1>1, <4>1, EffortFalls
    <3>2. CASE MarkPublished(p) \/ MarkFailedWrite(p)
      <4>1. batch'[p] = batch[p] \ {Current(p)} /\ pc'[p] \in {"idle", "looping"}
        BY <1>1, <3>2 DEF MarkPublished, MarkFailedWrite, Advance, IInv, TypeOK
      <4> QED
        BY <1>1, <4>1, EffortFalls
    <3> QED
      BY <1>1, <2>3, <3>1, <3>2 DEF Progress, FetchSelect
  <2>4. ASSUME Disturbance(p) \/ Exit(p) PROVE Effort(p)' <= Effort(p)
    <3>1. CASE AddJobFails(p) \/ MarkPublishedFails(p)
      <4>1. batch'[p] = batch[p] /\ pc'[p] \in Locations
            /\ StillToDo(pc'[p]) < StillToDo(pc[p])
        BY <1>1, <3>1 DEF AddJobFails, MarkPublishedFails, StillToDo, Locations,
           IInv, TypeOK
      <4> QED
        BY <1>1, <2>1, <4>1, EffortFalls, EffortType
    <3>2. CASE FetchFails(p) \/ FetchCommitThrows(p) \/ MarkFailedThrows(p) \/ Crash(p) \/ Exit(p)
      <4>1. batch'[p] = {} /\ pc'[p] \in {"idle", "down"}
        BY <1>1, <3>2 DEF FetchFails, FetchCommitThrows, MarkFailedThrows, Crash, Exit, Halt, IInv, TypeOK
      <4> QED
        BY <1>1, <2>1, <4>1, EffortFalls, EffortType
    <3>3. CASE Stop(p)
      <4>1. pc'[p] = pc[p] /\ batch'[p] = batch[p]
        BY <1>1, <3>3 DEF Stop
      <4> QED
        BY <2>1, <2>2, <4>1
    <3> QED
      BY <2>4, <3>1, <3>2, <3>3 DEF Disturbance
  <2>5. ASSUME NEW q \in Pollers \ {p}, Progress(q) \/ Disturbance(q) \/ Exit(q) \/ Restart(q)
        PROVE  pc'[p] = pc[p] /\ batch'[p] = batch[p]
    <3>1. CASE Progress(q)
      BY <1>1, <3>1 DEF Progress, FetchSelect, FetchCommit, AddJob, MarkPublished,
         MarkFailedRead, MarkFailedWrite, Advance, IInv, TypeOK
    <3>2. CASE Disturbance(q) \/ Exit(q) \/ Restart(q)
      BY <1>1, <3>2 DEF Disturbance, FetchFails, FetchCommitThrows, AddJobFails,
         MarkPublishedFails, MarkFailedThrows, Stop, Crash, Exit, Halt, Restart, loop, IInv, TypeOK
    <3> QED
      BY <2>5, <3>1, <3>2
  <2>6. ASSUME (\E e \in Events : Enqueue(e)) \/ UNCHANGED vars
        PROVE  pc'[p] = pc[p] /\ batch'[p] = batch[p]
    BY <2>6 DEF Enqueue, vars, loop
  <2>7. ~Restart(p)
    BY <1>1 DEF Restart
  <2>8. Effort(p)' <= Effort(p)
    BY <1>1, <2>1, <2>2, <2>3, <2>4, <2>5, <2>6, <2>7, EffortType DEF Next
  <2> QED
    BY <2>3, <2>8
<1>2. IInv /\ [Next]_vars =>
        [\A p \in Pollers : pc[p] \notin {"idle", "fetching", "down"} =>
            /\ Effort(p)' <= Effort(p)
            /\ Progress(p) => Effort(p)' < Effort(p)]_vars
  BY <1>1
<1> QED
  BY <1>2, Invariance, PTL DEF Spec, TurnsComeToAnEnd

=============================================================================
