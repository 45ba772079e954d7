-------------------------- MODULE StandaloneProofs --------------------------
(***************************************************************************)
(* Theorems about the modules that stand alone: the arena, two labs, the   *)
(* cache and the list, for every value of their constants.                 *)
(*                                                                         *)
(* CommerceLab.  A checkout that sleeps will overwrite the stock with what *)
(* it makes of a stock read long ago.  What can be said of that write must *)
(* therefore be known of every sleeping checkout: it asks for no more than *)
(* it has seen, and what it has seen, together with all orders in the      *)
(* store, is still the whole stock, unless it slept through the reset that *)
(* emptied the store.                                                      *)
(*                                                                         *)
(* PaymentLab.  A snapshot may be restored at any time, so that what is    *)
(* claimed of the store must be known of every snapshot.                   *)
(*                                                                         *)
(* Arena.  ArenaInv says what the grading loop knows half-way: the best    *)
(* candidate so far is at least as good as every qualified one with a      *)
(* place among those that were graded.  It needs the places to be          *)
(* distinct, or one of two candidates with the same place would never be   *)
(* graded.                                                                 *)
(***************************************************************************)
EXTENDS CommerceLab, PaymentLab, Catalog, VirtualList, Arena, FiniteSetTheorems, TLAPS

Sleeping ==
    \A c \in Checkouts :
        at[c] = "delayed" => quantity[c] \in 1..currentStock[c]

SeenAddsUp ==
    ~overslept =>
        \A c \in Checkouts :
            at[c] = "delayed" => currentStock[c] + sold + raced >= InitialStock

IInv == TypeOK /\ Sleeping /\ SeenAddsUp /\ SafeOrdersAddUp /\ NothingVanishes

LEMMA Initially == Init => IInv
  <1> SUFFICES ASSUME Init  PROVE IInv
    OBVIOUS
  <1>1. /\ stock = InitialStock /\ sold = 0 /\ raced = 0
        /\ \A c \in Checkouts : at[c] = "new"
    BY DEF Init, Pristine
  <1>2. TypeOK
    <2>1. stock \in 0..InitialStock /\ sold \in Nat /\ raced \in Nat /\ resets \in 0..MaxResets
      BY <1>1, StockAssumption, ResetsAssumption DEF Init
    <2>2. /\ at \in [Checkouts -> {"new", "delayed", "done"}]
          /\ quantity \in [Checkouts -> Quantities \cup {0}]
          /\ currentStock \in [Checkouts -> 0..InitialStock]
      BY StockAssumption DEF Init
    <2> QED  BY <2>1, <2>2 DEF Init, TypeOK
  <1>3. Sleeping /\ SeenAddsUp
    BY <1>1 DEF Sleeping, SeenAddsUp
  <1>4. SafeOrdersAddUp /\ NothingVanishes
    BY <1>1, StockAssumption DEF SafeOrdersAddUp, NothingVanishes
  <1> QED  BY <1>2, <1>3, <1>4 DEF IInv

\* A safe checkout takes from the stock what it adds to the orders.
LEMMA SafePreserves ==
    ASSUME IInv, NEW c \in Checkouts, NEW q \in Quantities, CheckoutSafely(c, q)
    PROVE IInv'
  <1> USE StockAssumption, ResetsAssumption DEF IInv, CheckoutSafely, Arrive, resetVars
  <1>1. TypeOK'  BY DEF TypeOK, Quantities
  <1>2. Sleeping'  BY DEF TypeOK, Sleeping
  <1>3. SeenAddsUp'  BY DEF TypeOK, SeenAddsUp, Quantities
  <1>4. SafeOrdersAddUp' /\ NothingVanishes'
    BY DEF TypeOK, SafeOrdersAddUp, NothingVanishes, Quantities
  <1> QED  BY <1>1, <1>2, <1>3, <1>4

LEMMA ReadPreserves ==
    ASSUME IInv, NEW c \in Checkouts, NEW q \in Quantities, ReadStock(c, q)
    PROVE IInv'
  <1> USE StockAssumption, ResetsAssumption DEF IInv, ReadStock, Arrive, store, resetVars
  <1>1. TypeOK'  BY DEF TypeOK, Quantities
  <1>2. Sleeping'  BY DEF TypeOK, Sleeping, Quantities
  <1>3. SeenAddsUp'  BY DEF TypeOK, SeenAddsUp, NothingVanishes
  <1>4. SafeOrdersAddUp' /\ NothingVanishes'
    BY DEF SafeOrdersAddUp, NothingVanishes
  <1> QED  BY <1>1, <1>2, <1>3, <1>4

\* The late write puts the stock back to what was seen, less the new order.
LEMMA WritePreserves ==
    ASSUME IInv, NEW c \in Checkouts, WriteStock(c)
    PROVE IInv'
  <1> USE StockAssumption, ResetsAssumption DEF IInv, WriteStock, resetVars
  <1>1. quantity[c] \in 1..currentStock[c] /\ currentStock[c] \in 0..InitialStock
    BY DEF Sleeping, TypeOK
  <1>2. TypeOK'  BY <1>1 DEF TypeOK
  <1>3. Sleeping'  BY DEF TypeOK, Sleeping
  <1>4. SeenAddsUp'  BY <1>1 DEF TypeOK, SeenAddsUp
  <1>5. SafeOrdersAddUp'  BY <1>1 DEF TypeOK, SafeOrdersAddUp
  <1>6. NothingVanishes'  BY <1>1 DEF TypeOK, NothingVanishes, SeenAddsUp
  <1> QED  BY <1>2, <1>3, <1>4, <1>5, <1>6

\* The stock and the orders stay in their types, and what is known of the
\* sleeping checkouts is never lost.
THEOREM Inductive == IInv /\ [Next]_vars => IInv'
  <1> SUFFICES ASSUME IInv, [Next]_vars  PROVE IInv'
    OBVIOUS
  <1> USE StockAssumption, ResetsAssumption
  <1>1. ASSUME NEW c \in Checkouts, NEW q \in Quantities, CheckoutSafely(c, q)
        PROVE IInv'
    BY <1>1, SafePreserves
  <1>2. ASSUME NEW c \in Checkouts, NEW q \in Quantities, ReadStock(c, q)  PROVE IInv'
    BY <1>2, ReadPreserves
  <1>3. ASSUME NEW c \in Checkouts, WriteStock(c)  PROVE IInv'
    BY <1>3, WritePreserves
  <1>4. CASE Inject
    BY <1>4 DEF Inject, IInv, TypeOK, Sleeping, SeenAddsUp, SafeOrdersAddUp,
                NothingVanishes, store, requests, resetVars
  <1>5. CASE Reset
    <2> USE <1>5 DEF Reset, IInv
    <2>1. stock' = InitialStock /\ sold' = 0 /\ raced' = 0 /\ resets' = resets + 1
      BY DEF Pristine
    <2>2. TypeOK'
      <3>1. stock' \in 0..InitialStock /\ sold' \in Nat /\ raced' \in Nat
        BY <2>1
      <3>2. resets' \in 0..MaxResets
        BY <2>1 DEF TypeOK
      <3> QED  BY <3>1, <3>2 DEF TypeOK, requests
    <2>3. Sleeping'  BY DEF Sleeping, requests
    <2>4. (SeenAddsUp /\ SafeOrdersAddUp /\ NothingVanishes)'
      BY <2>1 DEF TypeOK, SeenAddsUp, SafeOrdersAddUp, NothingVanishes, requests
    <2> QED  BY <2>2, <2>3, <2>4
  <1>6. CASE UNCHANGED vars
    BY <1>6 DEF vars, IInv, TypeOK, Sleeping, SeenAddsUp, SafeOrdersAddUp,
                NothingVanishes, store, requests, resetVars
  <1> QED  BY <1>1, <1>2, <1>3, <1>4, <1>5, <1>6 DEF Next

LEMMA Invariance == Spec => []IInv
  BY Initially, Inductive, PTL DEF Spec

\* No late write makes the stock negative or larger than it began.
THEOREM Typing == Spec => []TypeOK
  BY Invariance, PTL DEF IInv

\* Any number of overlapping safe checkouts keep stock and orders in balance;
\* only an order of the vulnerable path can disturb it.
THEOREM SafeCheckoutsBalance == Spec => []SafeOrdersAddUp
  BY Invariance, PTL DEF IInv

\* The injected race can sell too much, never too little, unless a checkout has
\* slept through the last reset.
THEOREM RaceOnlyOversells == Spec => []NothingVanishes
  BY Invariance, PTL DEF IInv

-----------------------------------------------------------------------------
(* PaymentLab                                                              *)

\* What is claimed of the store, of any ledger and any set of keys.
Sound(l, ks) ==
    /\ l \in Ledgers /\ ks \subseteq Keys
    /\ \A k \in Keys : k \in ks <=> l[k].normal + l[k].redelivered > 0
    /\ \A k \in Keys : l[k].normal <= 1

PaymentInv ==
    /\ PaymentTypeOK
    /\ Sound(ledger, idempotencyKeys)
    /\ \A h \in Hashes :
        snapshots[h] # NoSnapshot => Sound(snapshots[h].ledger, snapshots[h].keys)

LEMMA PaymentInitially == PaymentInit => PaymentInv
  <1> SUFFICES ASSUME PaymentInit  PROVE PaymentInv
    OBVIOUS
  <1>1. PaymentTypeOK
    BY DEF PaymentInit, PaymentTypeOK, Ledgers
  <1>2. Sound(ledger, idempotencyKeys)
    BY DEF PaymentInit, Sound, Ledgers
  <1>3. \A h \in Hashes : snapshots[h] = NoSnapshot
    BY DEF PaymentInit
  <1> QED  BY <1>1, <1>2, <1>3 DEF PaymentInv

\* A step that leaves the snapshots alone preserves the invariant if it leaves
\* the store sound.
LEMMA StoreSteps ==
    ASSUME PaymentInv, Sound(ledger', idempotencyKeys'), UNCHANGED snapshots,
           duplicateRedelivery' \in BOOLEAN
    PROVE PaymentInv'
  BY DEF PaymentInv, PaymentTypeOK, Sound

LEMMA RedeliverPreserves ==
    ASSUME PaymentInv, NEW k \in Keys \cup {NoKey}, Redeliver(k)
    PROVE PaymentInv'
  <1>1. ledger \in Ledgers /\ ledger' = [ledger EXCEPT ![k].redelivered = @ + 2]
    BY DEF PaymentInv, Sound, Redeliver
  <1>2. /\ ledger' \in Ledgers
        /\ \A j \in Keys : /\ ledger'[j].normal = ledger[j].normal
                           /\ j # k => ledger'[j].redelivered = ledger[j].redelivered
                           /\ j = k => ledger'[j].redelivered > 0
    BY <1>1 DEF Ledgers
  <1>3. \A j \in Keys : ledger[j].normal \in Nat /\ ledger[j].redelivered \in Nat
    BY <1>1 DEF Ledgers
  <1>4. idempotencyKeys' = idempotencyKeys \cup ({k} \cap Keys)
    BY DEF Redeliver, RememberKey
  <1>5. \A j \in Keys : /\ j \in idempotencyKeys' <=> ledger'[j].normal + ledger'[j].redelivered > 0
                        /\ ledger'[j].normal <= 1
    <2> TAKE j \in Keys
    <2>1. /\ j \in idempotencyKeys <=> ledger[j].normal + ledger[j].redelivered > 0
          /\ ledger[j].normal <= 1
      BY DEF PaymentInv, Sound
    <2>2. ledger[j].normal \in Nat /\ ledger'[j].redelivered \in Nat
      BY <1>2, <1>3 DEF Ledgers
    <2>3. j \in idempotencyKeys' <=> j \in idempotencyKeys \/ j = k
      BY <1>4
    <2>4. /\ ledger'[j].normal = ledger[j].normal
          /\ j # k => ledger'[j].redelivered = ledger[j].redelivered
          /\ j = k => ledger'[j].redelivered > 0
      BY <1>2
    <2> QED  BY <2>1, <2>2, <2>3, <2>4
  <1>6. Sound(ledger', idempotencyKeys')
    BY <1>2, <1>4, <1>5 DEF PaymentInv, Sound
  <1> QED  BY <1>6, StoreSteps DEF Redeliver, PaymentInv, PaymentTypeOK

LEMMA ChargePreserves ==
    ASSUME PaymentInv, NEW k \in Keys \cup {NoKey}, Charge(k)
    PROVE PaymentInv'
  <1>1. ledger \in Ledgers /\ ledger' = [ledger EXCEPT ![k].normal = @ + 1]
    BY DEF PaymentInv, Sound, Charge
  <1>2. \A j \in Keys : ledger[j].normal \in Nat /\ ledger[j].redelivered \in Nat
    BY <1>1 DEF Ledgers
  <1>3. /\ ledger' \in Ledgers
        /\ \A j \in Keys : /\ ledger'[j].redelivered = ledger[j].redelivered
                           /\ j # k => ledger'[j].normal = ledger[j].normal
                           /\ j = k => ledger'[j].normal = ledger[j].normal + 1
    BY <1>1 DEF Ledgers
  <1>4. k \in Keys => ledger[k].normal = 0 /\ ledger[k].redelivered = 0
    BY <1>2 DEF PaymentInv, Sound, Charge
  <1>5. idempotencyKeys' = idempotencyKeys \cup ({k} \cap Keys)
    BY DEF Charge, RememberKey
  <1>6. \A j \in Keys : /\ j \in idempotencyKeys' <=> ledger'[j].normal + ledger'[j].redelivered > 0
                        /\ ledger'[j].normal <= 1
    <2> TAKE j \in Keys
    <2>1. /\ j \in idempotencyKeys <=> ledger[j].normal + ledger[j].redelivered > 0
          /\ ledger[j].normal <= 1
      BY DEF PaymentInv, Sound
    <2>2. j \in idempotencyKeys' <=> j \in idempotencyKeys \/ j = k
      BY <1>5
    <2>3. /\ ledger'[j].redelivered = ledger[j].redelivered
          /\ j # k => ledger'[j].normal = ledger[j].normal
          /\ j = k => ledger'[j].normal = 1 /\ ledger[j].redelivered = 0
      BY <1>3, <1>4
    <2> QED  BY <2>1, <2>2, <2>3
  <1>7. Sound(ledger', idempotencyKeys')
    BY <1>3, <1>5, <1>6 DEF PaymentInv, Sound
  <1> QED  BY <1>7, StoreSteps DEF Charge, PaymentInv, PaymentTypeOK

LEMMA SavePreserves ==
    ASSUME PaymentInv, NEW h \in Hashes, SaveSnapshot(h)
    PROVE PaymentInv'
  <1> DEFINE new == [ledger |-> ledger, keys |-> idempotencyKeys]
  <1>1. snapshots' = [snapshots EXCEPT ![h] = new] /\ snapshots \in [Hashes -> Stores \cup {NoSnapshot}]
    BY DEF SaveSnapshot, PaymentInv, PaymentTypeOK
  <1>2. new \in Stores /\ Sound(new.ledger, new.keys)
    BY DEF PaymentInv, Sound, Stores
  <1>3. snapshots' \in [Hashes -> Stores \cup {NoSnapshot}]
    BY <1>1, <1>2
  <1>4. \A g \in Hashes : snapshots'[g] = IF g = h THEN new ELSE snapshots[g]
    BY <1>1
  <1>5. \A g \in Hashes :
          snapshots'[g] # NoSnapshot => Sound(snapshots'[g].ledger, snapshots'[g].keys)
    BY <1>2, <1>4 DEF PaymentInv
  <1>6. PaymentTypeOK' /\ Sound(ledger, idempotencyKeys)'
    BY <1>3 DEF SaveSnapshot, PaymentInv, PaymentTypeOK, Sound
  <1> QED  BY <1>5, <1>6 DEF PaymentInv

\* No key is charged twice by the normal path, and keys and ledger agree, in
\* the store and in every snapshot of it.
THEOREM PaymentInductive == PaymentInv /\ [PaymentNext]_paymentVars => PaymentInv'
  <1> SUFFICES ASSUME PaymentInv, [PaymentNext]_paymentVars  PROVE PaymentInv'
    OBVIOUS
  <1>1. ASSUME NEW k \in Keys \cup {NoKey}, Redeliver(k)  PROVE PaymentInv'
    BY <1>1, RedeliverPreserves
  <1>2. ASSUME NEW k \in Keys \cup {NoKey}, Charge(k)  PROVE PaymentInv'
    BY <1>2, ChargePreserves
  <1>3. CASE InjectDuplication
    BY <1>3, StoreSteps DEF InjectDuplication, PaymentInv, Sound
  <1>4. CASE ResetDuplication
    BY <1>4, StoreSteps DEF ResetDuplication, PaymentInv, Sound
  <1>5. ASSUME NEW h \in Hashes, SaveSnapshot(h)  PROVE PaymentInv'
    BY <1>5, SavePreserves
  <1>6. ASSUME NEW h \in Hashes, RestoreSnapshot(h)  PROVE PaymentInv'
    <2>1. Sound(ledger', idempotencyKeys') /\ UNCHANGED <<snapshots, duplicateRedelivery>>
      BY <1>6 DEF RestoreSnapshot, PaymentInv
    <2> QED  BY <2>1, StoreSteps DEF PaymentInv, PaymentTypeOK
  <1>7. CASE UNCHANGED paymentVars
    BY <1>7, StoreSteps DEF paymentVars, PaymentInv, PaymentTypeOK, Sound
  <1> QED  BY <1>1, <1>2, <1>3, <1>4, <1>5, <1>6, <1>7 DEF PaymentNext

LEMMA PaymentInvariance == PaymentSpec => []PaymentInv
  BY PaymentInitially, PaymentInductive, PTL DEF PaymentSpec

\* The store and its snapshots stay in their types.
THEOREM PaymentTyping == PaymentSpec => []PaymentTypeOK
  BY PaymentInvariance, PTL DEF PaymentInv

\* Keys and ledger agree after any sequence of charges, faults and snapshots.
THEOREM KeysShowPayments == PaymentSpec => []KeysMatchLedger
  <1>1. PaymentInv => KeysMatchLedger
    BY DEF PaymentInv, Sound, KeysMatchLedger, Records
  <1> QED  BY <1>1, PaymentInvariance, PTL

\* Only the fault charges a key again, for any number of keys and snapshots.
THEOREM NormalPathChargesOnce == PaymentSpec => []ChargedOnce
  <1>1. PaymentInv => ChargedOnce
    BY DEF PaymentInv, Sound, ChargedOnce
  <1> QED  BY <1>1, PaymentInvariance, PTL

-----------------------------------------------------------------------------
(* Catalog and VirtualList                                                 *)

\* Whatever readers, seeding, expiry and invalidation do to each other, a list
\* that is cached, fetched or answered is one the database has had.
THEOREM CatalogTyping == CatalogSpec => []CatalogTypeOK
  <1>1. CatalogInit => CatalogTypeOK
    <2> SUFFICES ASSUME CatalogInit  PROVE CatalogTypeOK
      OBVIOUS
    <2>1. catalog \in Lists /\ cached \in Lists \cup {NoList}
      BY CatalogAssumption DEF CatalogInit, Lists
    <2>2. /\ reading \in [Readers -> {"idle", "get", "fetch", "set"}]
          /\ list \in [Readers -> Lists \cup {NoList}]
          /\ answered \in [Readers -> Lists \cup {NoList}]
      BY DEF CatalogInit
    <2> QED  BY <2>1, <2>2 DEF CatalogInit, CatalogTypeOK
  <1>2. CatalogTypeOK /\ [CatalogNext]_catalogVars => CatalogTypeOK'
    <2> SUFFICES ASSUME CatalogTypeOK, [CatalogNext]_catalogVars  PROVE CatalogTypeOK'
      OBVIOUS
    <2> USE CatalogAssumption DEF CatalogTypeOK, Lists, readers
    <2>1. ASSUME NEW r \in Readers, Request(r)  PROVE CatalogTypeOK'
      BY <2>1 DEF Request, ReaderMoves
    <2>2. ASSUME NEW r \in Readers, GetHit(r) \/ GetMiss(r)  PROVE CatalogTypeOK'
      BY <2>2 DEF GetHit, GetMiss, ReaderMoves
    <2>3. ASSUME NEW r \in Readers, Fetch(r) \/ FetchFails(r)  PROVE CatalogTypeOK'
      BY <2>3 DEF Fetch, FetchFails, ReaderMoves
    <2>4. ASSUME NEW r \in Readers, SetList(r)  PROVE CatalogTypeOK'
      BY <2>4 DEF SetList, ReaderMoves
    <2>5. CASE Expire \/ FindKeys \/ DeleteKeys
      BY <2>5 DEF Expire, FindKeys, DeleteKeys
    <2>6. CASE AddScenario
      BY <2>6 DEF AddScenario
    <2>7. CASE UNCHANGED catalogVars
      BY <2>7 DEF catalogVars
    <2> QED  BY <2>1, <2>2, <2>3, <2>4, <2>5, <2>6, <2>7 DEF CatalogNext, ReaderNext
  <1> QED  BY <1>1, <1>2, PTL DEF CatalogSpec

\* Positions are never negative, however many rows the filter removes.
THEOREM ListTyping == ListSpec => []ListTypeOK
  <1> USE HeightsAssumption DEF ListTypeOK
  <1>1. ListInit => ListTypeOK
    <2>1. ListInit => itemCount \in 0..MaxItems /\ scrollTop \in Nat /\ position \in Nat
      BY DEF ListInit
    <2> QED  BY <2>1 DEF ListInit
  <1>2. ListTypeOK /\ [ListNext]_listVars => ListTypeOK'
    <2> SUFFICES ASSUME ListTypeOK, [ListNext]_listVars  PROVE ListTypeOK'
      OBVIOUS
    <2>1. \A n \in 0..MaxItems : Reach(n) \in Nat
      <3> TAKE n \in 0..MaxItems
      <3>1. n * ItemHeight \in Nat
        OBVIOUS
      <3> DEFINE height == n * ItemHeight
      <3>2. height \in Nat
        BY <3>1
      <3> HIDE DEF height
      <3>3. Larger(0, height - ContainerHeight) \in Nat
        BY <3>2 DEF Larger
      <3> QED  BY <3>3 DEF Reach, height
    <2>2. CASE Scroll
      BY <2>1, <2>2 DEF Scroll
    <2>3. CASE HandleScroll
      BY <2>3 DEF HandleScroll
    <2>4. CASE ChangeItems
      BY <2>1, <2>4 DEF ChangeItems, Smaller
    <2>5. CASE UNCHANGED listVars
      BY <2>5 DEF listVars
    <2> QED  BY <2>2, <2>3, <2>4, <2>5 DEF ListNext
  <1> QED  BY <1>1, <1>2, PTL DEF ListSpec

\* Division rounds down: a row that begins before a position is not after the
\* quotient, and one that ends after it is not before.
LEMMA Rounding ==
    ASSUME NEW a \in Nat, NEW h \in Nat \ {0}, NEW i \in Nat
    PROVE /\ i * h < a => i <= a \div h
          /\ (i + 1) * h > a => i >= a \div h
  <1> DEFINE q == a \div h
  <1>1. q \in Nat /\ q * h <= a /\ a < q * h + h
    OBVIOUS
  <1> HIDE DEF q
  <1>2. ASSUME NEW j \in Nat, NEW k \in Nat, j <= k  PROVE j * h <= k * h
    <2>1. (k - j) \in Nat /\ (k - j) * h >= 0
      BY <1>2
    <2>2. k * h = j * h + (k - j) * h
      OBVIOUS
    <2>3. j * h \in Nat /\ k * h \in Nat /\ (k - j) * h \in Int
      OBVIOUS
    <2> QED  BY <2>1, <2>2, <2>3
  <1>3. (q + 1) * h = q * h + h
    BY <1>1
  <1>4. i * h < a => i <= q
    <2>1. ASSUME q + 1 <= i  PROVE i * h >= a
      <3>1. (q + 1) * h <= i * h
        BY <1>1, <1>2, <2>1
      <3> QED  BY <1>1, <1>3, <3>1
    <2> QED  BY <1>1, <2>1
  <1>5. (i + 1) * h > a => i >= q
    <2>1. ASSUME i + 1 <= q  PROVE (i + 1) * h <= a
      <3>1. (i + 1) * h <= q * h
        BY <1>1, <1>2, <2>1
      <3> QED  BY <1>1, <3>1
    <2> QED  BY <1>1, <2>1
  <1> QED  BY <1>4, <1>5 DEF q

\* Every row in view is rendered, for every height of rows and container and
\* any number of rows.
THEOREM ViewIsRendered == ListSpec => []RowsInViewAreRendered
  <1> DEFINE Following == ~scrolled => scrollTop = position
  <1>1. ListInit => Following
    BY DEF ListInit
  <1>2. ListTypeOK /\ Following /\ [ListNext]_listVars => Following'
    <2> SUFFICES ASSUME ListTypeOK, Following, [ListNext]_listVars  PROVE Following'
      OBVIOUS
    <2>1. CASE Scroll
      BY <2>1 DEF Scroll
    <2>2. CASE HandleScroll
      BY <2>2 DEF HandleScroll
    <2>3. CASE ChangeItems
      BY <2>3 DEF ChangeItems
    <2>4. CASE UNCHANGED listVars
      BY <2>4 DEF listVars
    <2> QED  BY <2>1, <2>2, <2>3, <2>4 DEF ListNext
  <1>3. ListTypeOK /\ Following => RowsInViewAreRendered
    <2> SUFFICES ASSUME ListTypeOK, Following, ~scrolled, NEW i \in 0..itemCount - 1,
                        (i + 1) * ItemHeight > position,
                        i * ItemHeight < position + ContainerHeight
                 PROVE  i \in VisibleItems
      BY DEF RowsInViewAreRendered
    <2> DEFINE first == position \div ItemHeight
               last == (position + ContainerHeight) \div ItemHeight
    <2>1. /\ position \in Nat /\ position + ContainerHeight \in Nat
          /\ i \in Nat /\ itemCount \in Nat /\ i <= itemCount - 1
      BY HeightsAssumption DEF ListTypeOK
    <2>2. i >= first /\ i <= last
      BY <2>1, HeightsAssumption, Rounding
    <2>3. first \in Nat /\ last \in Nat
      BY <2>1, HeightsAssumption
    <2>4. StartIndex = Larger(0, first - 5) /\ EndIndex = Smaller(itemCount - 1, last + 5)
      BY DEF StartIndex, EndIndex
    <2> HIDE DEF first, last
    <2>5. StartIndex \in Int /\ StartIndex <= i /\ EndIndex \in Int /\ i <= EndIndex
      BY <2>1, <2>2, <2>3, <2>4 DEF Larger, Smaller
    <2> QED  BY <2>1, <2>5 DEF VisibleItems
  <1> QED  BY <1>1, <1>2, <1>3, ListTyping, PTL DEF ListSpec

-----------------------------------------------------------------------------
(* Arena                                                                    *)

Graded(c) == place[c] \in 1..graded

Shuffled ==
    graded > 0 => IsShuffled

Distinct ==
    \A c, d \in Candidates : place[c] = place[d] /\ place[c] # 0 => c = d

BestSoFar ==
    /\ best = NoCandidate => highest = 0
    /\ best # NoCandidate => best \in Eligible /\ highest = Score(best) + 1
    /\ \A c \in Eligible : Graded(c) => Score(c) + 1 <= highest

WinnerSoFar ==
    winner # NoCandidate =>
        /\ graded = Size
        /\ IsShuffled
        /\ best # NoCandidate => winner = best

ArenaInv == ArenaTypeOK /\ Shuffled /\ Distinct /\ BestSoFar /\ WinnerSoFar

-----------------------------------------------------------------------------

\* The number of candidates is a positive number.
LEMMA SizeIsPositive == Size \in Nat /\ Size > 0
  BY CandidatesAssumption, FS_CardinalityType, FS_EmptySet DEF Size

\* The rubric's total is between 25 (nothing passed) and 100 points.
LEMMA ScoreRange ==
    ASSUME NEW p \in Profiles
    PROVE TotalScore(p) \in 25..100
  <1> p.latency \in Nat  BY LatenciesAssumption DEF Profiles
  <1>1. Correctness(p) \in 0..25  BY DEF Correctness
  <1>2. Security(p) \in 0..20  BY DEF Security
  <1>3. Performance(p) \in 5..15  BY DEF Performance
  <1>4. Reliability(p) \in 5..10  BY DEF Reliability
  <1>5. TestQuality(p) \in 0..10  BY DEF TestQuality
  <1> QED  BY <1>1, <1>2, <1>3, <1>4, <1>5 DEF TotalScore, Contract, Clarity

\* A profile that is at least as good in everything scores at least as much.
LEMMA RubricIsMonotone ==
    ASSUME NEW p \in Profiles, NEW q \in Profiles, AtLeastAsGood(p, q)
    PROVE TotalScore(p) >= TotalScore(q)
  <1> p.latency \in Nat /\ q.latency \in Nat  BY LatenciesAssumption DEF Profiles
  <1>1. Correctness(p) >= Correctness(q) /\ Correctness(p) \in Nat /\ Correctness(q) \in Nat
    BY DEF Correctness, AtLeastAsGood
  <1>2. Security(p) >= Security(q) /\ Security(p) \in Nat /\ Security(q) \in Nat
    BY DEF Security, AtLeastAsGood
  <1>3. Performance(p) >= Performance(q) /\ Performance(p) \in Nat /\ Performance(q) \in Nat
    BY DEF Performance, AtLeastAsGood
  <1>4. Reliability(p) >= Reliability(q) /\ Reliability(p) \in Nat /\ Reliability(q) \in Nat
    BY DEF Reliability, AtLeastAsGood
  <1>5. TestQuality(p) >= TestQuality(q) /\ TestQuality(p) \in Nat /\ TestQuality(q) \in Nat
    BY DEF TestQuality, AtLeastAsGood
  <1> QED  BY <1>1, <1>2, <1>3, <1>4, <1>5 DEF TotalScore, Contract, Clarity

-----------------------------------------------------------------------------

LEMMA ArenaInitially == ArenaInit => ArenaInv
  BY SizeIsPositive
     DEF ArenaInit, ArenaInv, ArenaTypeOK, Shuffled, Distinct, BestSoFar, WinnerSoFar, Graded

LEMMA AnonymizePreserves == ArenaInv /\ Anonymize => ArenaInv'
  <1> SUFFICES ASSUME ArenaInv, Anonymize  PROVE ArenaInv'
    OBVIOUS
  <1> USE DEF ArenaInv
  <1>1. PICK order \in [Candidates -> 1..Size] :
            /\ \A c, d \in Candidates : order[c] = order[d] => c = d
            /\ place' = order
    BY DEF Anonymize
  <1>2. graded = 0 /\ winner = NoCandidate
    BY SizeIsPositive DEF Anonymize, Shuffled, WinnerSoFar, ArenaTypeOK
  <1>3. UNCHANGED <<profile, graded, best, highest, winner>>
    BY DEF Anonymize
  <1>4. ArenaTypeOK'
    BY <1>1, <1>3, SizeIsPositive DEF ArenaTypeOK
  <1>5. Shuffled' /\ WinnerSoFar'
    BY <1>2, <1>3 DEF Shuffled, WinnerSoFar
  <1>6. Distinct'
    BY <1>1 DEF Distinct
  <1>7. BestSoFar'
    BY <1>1, <1>2, <1>3, SizeIsPositive DEF BestSoFar, Graded, Eligible, Score
  <1> QED  BY <1>4, <1>5, <1>6, <1>7

LEMMA GradePreserves ==
    ASSUME ArenaInv, NEW c \in Candidates, Grade(c)
    PROVE ArenaInv'
  <1> USE DEF ArenaInv
  <1>1. /\ IsShuffled /\ place[c] = graded + 1 /\ graded' = graded + 1
        /\ UNCHANGED <<profile, place, winner>>
    BY DEF Grade
  <1>2. graded \in Nat /\ place[c] \in 0..Size /\ highest \in 0..101
    BY SizeIsPositive DEF ArenaTypeOK
  <1>3. \A d \in Candidates : Score(d) \in 25..100
    BY ScoreRange DEF ArenaTypeOK, Score
  <1>4. Eligible' = Eligible /\ \A d \in Candidates : Score(d)' = Score(d)
    BY <1>1 DEF Eligible, Score
  <1>5. \/ Better(c) /\ best' = c /\ highest' = Score(c) + 1
        \/ ~Better(c) /\ UNCHANGED <<best, highest>>
    BY DEF Grade
  <1>6. ArenaTypeOK'
    <2>1. graded' \in 0..Size
      BY <1>1, <1>2, SizeIsPositive
    <2>2. best' \in Candidates \cup {NoCandidate} /\ highest' \in 0..101
      BY <1>3, <1>5 DEF ArenaTypeOK
    <2> QED  BY <1>1, <2>1, <2>2 DEF ArenaTypeOK
  <1>7. Shuffled'
    BY <1>1 DEF Shuffled, IsShuffled
  <1>8. Distinct'
    BY <1>1 DEF Distinct
  <1>9. BestSoFar'
    <2>1. best' = NoCandidate => highest' = 0
      BY <1>5, CandidatesAssumption DEF BestSoFar
    <2>2. best' # NoCandidate =>
              best' \in Eligible' /\ highest' = TotalScore(profile'[best']) + 1
      <3>1. CASE Better(c)
        BY <1>1, <1>4, <1>5, <3>1 DEF Better, Score
      <3>2. CASE ~Better(c)
        BY <1>1, <1>4, <1>5, <3>2 DEF BestSoFar, Score
      <3> QED  BY <3>1, <3>2
    <2>3. ASSUME NEW d \in Eligible', Graded(d)'
          PROVE Score(d)' + 1 <= highest'
      <3> d \in Candidates /\ d \in Eligible  BY <1>4 DEF Eligible
      <3>1. CASE d = c
        BY <1>2, <1>3, <1>4, <1>5, <3>1 DEF Better
      <3>2. CASE d # c
        <4>1. place[d] # graded + 1
          BY <1>1, <1>2, <3>2 DEF Distinct
        <4>2. Graded(d)
          BY <1>1, <1>2, <2>3, <4>1 DEF Graded
        <4>3. Score(d) + 1 <= highest
          BY <4>2 DEF BestSoFar
        <4> QED  BY <1>2, <1>3, <1>4, <1>5, <4>3 DEF Better
      <3> QED  BY <3>1, <3>2
    <2> QED  BY <2>1, <2>2, <2>3 DEF BestSoFar, Score
  <1>10. WinnerSoFar'
    <2>1. graded # Size
      BY <1>1, <1>2, SizeIsPositive
    <2> QED  BY <1>1, <2>1 DEF WinnerSoFar
  <1> QED  BY <1>6, <1>7, <1>8, <1>9, <1>10

LEMMA NameWinnerPreserves ==
    ASSUME ArenaInv, NEW c \in Candidates, NameWinner(c)
    PROVE ArenaInv'
  <1> USE DEF ArenaInv
  <1>1. UNCHANGED <<profile, place, graded, best, highest>> /\ winner' = c
    BY DEF NameWinner
  <1>2. ArenaTypeOK'  BY <1>1 DEF ArenaTypeOK
  <1>3. Shuffled' /\ Distinct'  BY <1>1 DEF Shuffled, Distinct, IsShuffled
  <1>4. BestSoFar'  BY <1>1 DEF BestSoFar, Graded, Eligible, Score
  <1>5. WinnerSoFar'
    BY <1>1, SizeIsPositive DEF WinnerSoFar, NameWinner, Shuffled, IsShuffled
  <1> QED  BY <1>2, <1>3, <1>4, <1>5

\* The state of the evaluation stays in its type, and the loop's invariant
\* is inductive.
THEOREM ArenaInductive == ArenaInv /\ [ArenaNext]_arenaVars => ArenaInv'
  <1> SUFFICES ASSUME ArenaInv, [ArenaNext]_arenaVars  PROVE ArenaInv'
    OBVIOUS
  <1>1. CASE Anonymize  BY <1>1, AnonymizePreserves
  <1>2. ASSUME NEW c \in Candidates, Grade(c)  PROVE ArenaInv'
    BY <1>2, GradePreserves
  <1>3. ASSUME NEW c \in Candidates, NameWinner(c)  PROVE ArenaInv'
    BY <1>3, NameWinnerPreserves
  <1>4. CASE UNCHANGED arenaVars
    BY <1>4 DEF arenaVars, ArenaInv, ArenaTypeOK, Shuffled, Distinct, BestSoFar, WinnerSoFar,
                IsShuffled, Graded, Eligible, Score
  <1> QED  BY <1>1, <1>2, <1>3, <1>4 DEF ArenaNext

LEMMA ArenaInvariance == ArenaSpec => []ArenaInv
  BY ArenaInitially, ArenaInductive, PTL DEF ArenaSpec

\* No score, place or winner ever leaves its range: 100 points are the most
\* the rubric can give.
THEOREM ArenaTyping == ArenaSpec => []ArenaTypeOK
  BY ArenaInvariance, PTL DEF ArenaInv

LEMMA BestWins == ArenaInv => WinnerIsBest
  <1> SUFFICES ASSUME ArenaInv, winner # NoCandidate, Eligible # {}
               PROVE winner \in Eligible /\ \A c \in Eligible : Score(c) <= Score(winner)
    BY DEF WinnerIsBest
  <1> USE DEF ArenaInv
  <1>1. \A c \in Eligible : Graded(c)
    BY SizeIsPositive DEF WinnerSoFar, IsShuffled, Graded, ArenaTypeOK, Eligible
  <1>2. \A c \in Candidates : Score(c) \in 25..100
    BY ScoreRange DEF ArenaTypeOK, Score
  <1>3. best # NoCandidate
    BY <1>1, <1>2 DEF BestSoFar, Eligible
  <1>4. winner = best
    BY <1>3 DEF WinnerSoFar
  <1> QED  BY <1>1, <1>2, <1>3, <1>4 DEF BestSoFar, Eligible

\* The evaluation names a qualified candidate with the highest score, in
\* whatever order the anonymizer has put the candidates.
THEOREM BestCandidateWins == ArenaSpec => []WinnerIsBest
  BY ArenaInvariance, BestWins, PTL

\* No qualified candidate that is at least as good as the winner in all that
\* is measured has another score.
THEOREM NoBetterCandidateLoses == ArenaSpec => []WinnerIsNotDominated
  <1>1. ArenaInv => WinnerIsNotDominated
    <2> SUFFICES ASSUME ArenaInv, winner # NoCandidate, NEW c \in Eligible,
                        AtLeastAsGood(profile[c], profile[winner])
                 PROVE Score(c) = Score(winner)
      BY DEF WinnerIsNotDominated
    <2>1. winner \in Candidates /\ c \in Candidates
      BY DEF ArenaInv, ArenaTypeOK, Eligible
    <2>2. profile[c] \in Profiles /\ profile[winner] \in Profiles
      BY <2>1 DEF ArenaInv, ArenaTypeOK
    <2>3. Score(c) >= Score(winner)
      BY <2>2, RubricIsMonotone DEF Score
    <2>4. Score(c) <= Score(winner)
      BY BestWins DEF WinnerIsBest
    <2>5. Score(c) \in 25..100 /\ Score(winner) \in 25..100
      BY <2>2, ScoreRange DEF Score
    <2> QED  BY <2>3, <2>4, <2>5
  <1> QED  BY ArenaInvariance, <1>1, PTL

=============================================================================
