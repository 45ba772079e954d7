----------------------------- MODULE PaymentLab -----------------------------
(***************************************************************************)
(* The payment lab: charges that carry an idempotency key, a fault that    *)
(* delivers a charge twice without asking for the key, and snapshots of    *)
(* ledger and keys.  A handler runs to its end without giving way, so each *)
(* is one action.  Orders and amounts tell nothing apart here: the ledger  *)
(* counts, for each key, the charges made by either path.  A charge        *)
(* without order or amount is refused, and PaymentStore.reset is called by *)
(* nobody.                                                                 *)
(*                                                                         *)
(* A definition introduced as a slip is used by no specification: it is    *)
(* a mistake this code could well contain, kept here to show that a        *)
(* property would notice it.                                               *)
(***************************************************************************)
EXTENDS Naturals

CONSTANTS
    Keys,          \* idempotency keys
    NoKey,         \* a charge without one
    Hashes,        \* names of snapshots
    NoSnapshot,
    MaxRecords     \* bound: records in the ledger for one key

ASSUME KeysAssumption == NoKey \notin Keys
ASSUME RecordsAssumption == MaxRecords \in Nat

Ledgers == [Keys \cup {NoKey} -> [normal : Nat, redelivered : Nat]]
Stores == [ledger : Ledgers, keys : SUBSET Keys]

ASSUME SnapshotAssumption == NoSnapshot \notin Stores

VARIABLES
    ledger,               \* PaymentStore.ledger
    idempotencyKeys,      \* PaymentStore.idempotencyKeys
    snapshots,            \* PaymentStore.snapshots
    duplicateRedelivery   \* the fault is active

paymentVars == <<ledger, idempotencyKeys, snapshots, duplicateRedelivery>>

PaymentTypeOK ==
    /\ ledger \in Ledgers
    /\ idempotencyKeys \subseteq Keys
    /\ snapshots \in [Hashes -> Stores \cup {NoSnapshot}]
    /\ duplicateRedelivery \in BOOLEAN

PaymentInit ==
    /\ ledger = [k \in Keys \cup {NoKey} |-> [normal |-> 0, redelivered |-> 0]]
    /\ idempotencyKeys = {}
    /\ snapshots = [h \in Hashes |-> NoSnapshot]
    /\ duplicateRedelivery = FALSE

Records(k) == ledger[k].normal + ledger[k].redelivered

\* The key of a charge is remembered whichever path has made the charge.
RememberKey(k) == idempotencyKeys' = idempotencyKeys \cup ({k} \cap Keys)

\* Slip: the fault's path does not remember the key.
RedeliverSilently(k) ==
    /\ duplicateRedelivery
    /\ Records(k) + 2 <= MaxRecords
    /\ ledger' = [ledger EXCEPT ![k].redelivered = @ + 2]
    /\ UNCHANGED <<idempotencyKeys, snapshots, duplicateRedelivery>>

\* The charge under the fault: twice, without a look at the key.
Redeliver(k) ==
    /\ duplicateRedelivery
    /\ Records(k) + 2 <= MaxRecords
    /\ ledger' = [ledger EXCEPT ![k].redelivered = @ + 2]
    /\ RememberKey(k)
    /\ UNCHANGED <<snapshots, duplicateRedelivery>>

\* A key that was processed is answered DUPLICATE_IGNORED, which changes nothing.
Charge(k) ==
    /\ ~duplicateRedelivery
    /\ k \notin idempotencyKeys
    /\ Records(k) < MaxRecords
    /\ ledger' = [ledger EXCEPT ![k].normal = @ + 1]
    /\ RememberKey(k)
    /\ UNCHANGED <<snapshots, duplicateRedelivery>>

InjectDuplication ==
    /\ duplicateRedelivery' = TRUE
    /\ UNCHANGED <<ledger, idempotencyKeys, snapshots>>

\* The fault goes; ledger and keys stay as they are.
ResetDuplication ==
    /\ duplicateRedelivery' = FALSE
    /\ UNCHANGED <<ledger, idempotencyKeys, snapshots>>

SaveSnapshot(h) ==
    /\ snapshots' = [snapshots EXCEPT ![h] = [ledger |-> ledger, keys |-> idempotencyKeys]]
    /\ UNCHANGED <<ledger, idempotencyKeys, duplicateRedelivery>>

\* Slip: the keys return and the ledger stays.
RestoreKeys(h) ==
    /\ snapshots[h] # NoSnapshot
    /\ idempotencyKeys' = snapshots[h].keys
    /\ UNCHANGED <<ledger, snapshots, duplicateRedelivery>>

\* The fault is not part of a snapshot.
RestoreSnapshot(h) ==
    /\ snapshots[h] # NoSnapshot
    /\ ledger' = snapshots[h].ledger
    /\ idempotencyKeys' = snapshots[h].keys
    /\ UNCHANGED <<snapshots, duplicateRedelivery>>

PaymentNext ==
    \/ \E k \in Keys \cup {NoKey} : Redeliver(k) \/ Charge(k)
    \/ InjectDuplication \/ ResetDuplication
    \/ \E h \in Hashes : SaveSnapshot(h) \/ RestoreSnapshot(h)

PaymentSpec == PaymentInit /\ [][PaymentNext]_paymentVars

-----------------------------------------------------------------------------
(* Properties.                                                             *)

\* The keys are those of the ledger: a retried charge is ignored exactly when
\* there is a payment to show for it, also after a snapshot taken before or
\* during the fault was restored.
KeysMatchLedger == idempotencyKeys = {k \in Keys : Records(k) > 0}

\* Only the fault charges a key again: whatever was injected, reset, saved and
\* restored, no key has two charges of the normal path.
ChargedOnce == \A k \in Keys : ledger[k].normal <= 1

=============================================================================
