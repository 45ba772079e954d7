------------------------------ MODULE MCOutbox ------------------------------
(* Outbox with one more event than a batch holds. *)
EXTENDS Outbox

MCEvents == 1..3

=============================================================================
