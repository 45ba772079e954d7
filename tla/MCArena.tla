------------------------------ MODULE MCArena -------------------------------
(* Arena with interchangeable candidates. *)
EXTENDS Arena, TLC

Symmetry == Permutations(Candidates)

=============================================================================
