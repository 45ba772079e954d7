--------------------------- MODULE OutboxContract ---------------------------
(***************************************************************************)
(* What the transactional outbox promises the rest of the system, without  *)
(* pollers, locks, batches or retries: an event that was committed may be  *)
(* handed to the job queue, it is settled only once it was handed over,    *)
(* and an event that was given up, or left behind by a poller, is never    *)
(* handed over, settled or reopened again.  Module Outbox is shown to      *)
(* implement it, and module Pipeline rests on it.                          *)
(***************************************************************************)

CONSTANT Events

VARIABLES
    recorded,    \* events whose row was committed
    handed,      \* events with a job in the queue
    settled,     \* events recorded as published
    abandoned,   \* events given up after too many failed attempts
    stranded     \* events claimed, and in the hands of no poller

vars == <<recorded, handed, settled, abandoned, stranded>>

Init ==
    /\ recorded = {}
    /\ handed = {}
    /\ settled = {}
    /\ abandoned = {}
    /\ stranded = {}

\* Events that may still be handed over.
Owed == recorded \ (settled \cup abandoned \cup stranded)

Record(e) ==
    /\ e \notin recorded
    /\ recorded' = recorded \cup {e}
    /\ UNCHANGED <<handed, settled, abandoned>>

Hand(e) ==
    /\ e \in Owed
    /\ handed' = handed \cup {e}
    /\ UNCHANGED <<recorded, settled, abandoned>>

Settle(e) ==
    /\ e \in Owed \cap handed
    /\ settled' = settled \cup {e}
    /\ UNCHANGED <<recorded, handed, abandoned>>

\* The acknowledgement of a settled event was lost: it is owed once more.
Reopen(e) ==
    /\ e \in settled
    /\ settled' = settled \ {e}
    /\ UNCHANGED <<recorded, handed, abandoned>>

Abandon(e) ==
    /\ e \in Owed \cup settled
    /\ abandoned' = abandoned \cup {e}
    /\ settled' = settled \ {e}
    /\ UNCHANGED <<recorded, handed>>

\* A poller leaves its batch behind, as it does when its process ends or the
\* reply of its claim is lost.  It may do so in the same step in which it gives
\* up or puts back the first event.
LeaveBehind ==
    /\ stranded \subseteq stranded'
    /\ stranded' \subseteq recorded' \ (settled' \cup abandoned')

Next ==
    /\ \/ \E e \in Events :
            Record(e) \/ Hand(e) \/ Settle(e) \/ Reopen(e) \/ Abandon(e)
       \/ UNCHANGED <<recorded, handed, settled, abandoned>>
    /\ LeaveBehind

Spec == Init /\ [][Next]_vars

=============================================================================
