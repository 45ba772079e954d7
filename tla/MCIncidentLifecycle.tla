------------------------ MODULE MCIncidentLifecycle -------------------------
(* IncidentLifecycle with interchangeable requests. *)
EXTENDS IncidentLifecycle, TLC

RequestSymmetry == Permutations(Requests)

=============================================================================
