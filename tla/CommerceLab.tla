---------------------------- MODULE CommerceLab -----------------------------
(***************************************************************************)
(* The commerce lab: a shop whose checkout has a fault that can be         *)
(* injected, a read of the stock and a late write of what was left of it.  *)
(* Checkouts, injections and resets of the lab overlap; the two kinds of   *)
(* checkout share one store.  The products of the store are independent,   *)
(* so there is one here.                                                   *)
(*                                                                         *)
(* A definition introduced as a slip is used by no specification: it is    *)
(* a mistake this code could well contain, kept here to show that a        *)
(* property would notice it.                                               *)
(***************************************************************************)
EXTENDS Naturals

CONSTANTS
    Checkouts,     \* requests to check out
    InitialStock,  \* stock of the product in initialProducts
    MaxResets      \* bound: how often the lab is reset

ASSUME StockAssumption == InitialStock \in Nat
ASSUME ResetsAssumption == MaxResets \in Nat

VARIABLES
    stock,         \* product.stock
    sold, raced,   \* quantity in the orders of the store: placed by the safe
                   \* and by the vulnerable path
    fault,         \* COMMERCE_RACE_CONDITION is active
    at,            \* where each checkout is
    quantity,      \* what it asks for
    currentStock,  \* the stock as a vulnerable checkout read it
    resets,
    overslept      \* a checkout slept through the last reset (history)

store == <<stock, sold, raced>>
requests == <<at, quantity, currentStock>>
resetVars == <<resets, overslept>>
vars == <<store, fault, requests, resetVars>>

\* More than the stock is refused; 0 is what a checkout has before it arrives.
Quantities == 1..InitialStock + 1

TypeOK ==
    /\ stock \in 0..InitialStock
    /\ sold \in Nat /\ raced \in Nat
    /\ fault \in BOOLEAN
    /\ at \in [Checkouts -> {"new", "delayed", "done"}]
    /\ quantity \in [Checkouts -> Quantities \cup {0}]
    /\ currentStock \in [Checkouts -> 0..InitialStock]
    /\ resets \in 0..MaxResets
    /\ overslept \in BOOLEAN

\* CommerceStore.reset
Pristine(s, normal, late) == s = InitialStock /\ normal = 0 /\ late = 0

Init ==
    /\ Pristine(stock, sold, raced)
    /\ fault = FALSE
    /\ at = [c \in Checkouts |-> "new"]
    /\ quantity = [c \in Checkouts |-> 0]
    /\ currentStock = [c \in Checkouts |-> 0]
    /\ resets = 0
    /\ overslept = FALSE

Arrive(c, q, to) ==
    /\ at[c] = "new"
    /\ at' = [at EXCEPT ![c] = to]
    /\ quantity' = [quantity EXCEPT ![c] = q]
    /\ UNCHANGED <<fault, resetVars>>

\* Slip: the order is placed although the decrement was refused.
CheckoutSafelyRegardless(c, q) ==
    /\ ~fault
    /\ Arrive(c, q, "done")
    /\ sold' = sold + q
    /\ stock' = IF q <= stock THEN stock - q ELSE stock
    /\ UNCHANGED <<raced, currentStock>>

\* atomicDecrementStock and addOrder run without giving way to anything else.
CheckoutSafely(c, q) ==
    /\ ~fault
    /\ Arrive(c, q, "done")
    /\ IF q <= stock
       THEN stock' = stock - q /\ sold' = sold + q
       ELSE UNCHANGED <<stock, sold>>
    /\ UNCHANGED <<raced, currentStock>>

\* The vulnerable path: the stock is read, and then the handler sleeps.
ReadStock(c, q) ==
    /\ fault
    /\ Arrive(c, q, IF q <= stock THEN "delayed" ELSE "done")
    /\ currentStock' = [currentStock EXCEPT ![c] = stock]
    /\ UNCHANGED store

\* Slip: the order gets lost.
WriteStockOnly(c) ==
    /\ at[c] = "delayed"
    /\ at' = [at EXCEPT ![c] = "done"]
    /\ stock' = currentStock[c] - quantity[c]
    /\ UNCHANGED <<sold, raced, fault, quantity, currentStock, resetVars>>

\* unsafeSetStock and addOrder, whether or not the fault is still active.
WriteStock(c) ==
    /\ at[c] = "delayed"
    /\ at' = [at EXCEPT ![c] = "done"]
    /\ stock' = currentStock[c] - quantity[c]
    /\ raced' = raced + quantity[c]
    /\ UNCHANGED <<sold, fault, quantity, currentStock, resetVars>>

Inject ==
    /\ fault' = TRUE
    /\ UNCHANGED <<store, requests, resetVars>>

\* Faults and store are reset; the checkouts that sleep go on afterwards.
Reset ==
    /\ resets < MaxResets
    /\ resets' = resets + 1
    /\ overslept' = (\E c \in Checkouts : at[c] = "delayed")
    /\ fault' = FALSE
    /\ Pristine(stock', sold', raced')
    /\ UNCHANGED requests

Next ==
    \/ \E c \in Checkouts, q \in Quantities : CheckoutSafely(c, q) \/ ReadStock(c, q)
    \/ \E c \in Checkouts : WriteStock(c)
    \/ Inject
    \/ Reset

Spec == Init /\ [][Next]_vars

-----------------------------------------------------------------------------
(* Properties.                                                             *)

\* Safe checkouts keep stock and orders in balance under every interleaving,
\* and go on to do so while vulnerable ones sleep: whenever the balance is
\* lost, an order placed by the vulnerable path is there to blame.
SafeOrdersAddUp == raced = 0 => stock + sold = InitialStock

\* The fault oversells; it never loses goods.  A late write may restore stock
\* that was sold, but no item goes missing from stock and orders together, from
\* the start or from any reset that found no checkout asleep.
NothingVanishes == ~overslept => stock + sold + raced >= InitialStock

=============================================================================
