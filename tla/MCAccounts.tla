----------------------------- MODULE MCAccounts ------------------------------
(***************************************************************************)
(* Accounts, and the sessions they open.  What happens to a session after  *)
(* a sign-in touches none of the tables, so that every behaviour of both   *)
(* is, seen from one of them, a behaviour in which the other does not      *)
(* move: the part that moves is chosen at the beginning.                   *)
(*                                                                         *)
(* Seedings are interchangeable, and sign-ins are.                         *)
(***************************************************************************)
EXTENDS Accounts, WebSession, TLC

VARIABLE part

MCInit ==
    /\ part \in {"tables", "session"}
    /\ Init /\ WebInit
    /\ part = "session" => \A s \in SignIns : email[s] = "admin" /\ role[s] = "VIEWER"
    /\ part = "tables" => cookie = Nobody

MCNext ==
    /\ UNCHANGED part
    /\ \/ part = "tables" /\ Next /\ UNCHANGED webVars
       \/ part = "session" /\ WebNext /\ UNCHANGED vars

MCSpec == MCInit /\ [][MCNext]_<<part, vars, webVars>>

\* What the variables of both parts hold.
MCTypeOK == TypeOK /\ WebTypeOK

Symmetry == Permutations(Seedings) \cup Permutations(SignIns)

=============================================================================
