---------------------------- MODULE MCStandalone ----------------------------
(***************************************************************************)
(* Two of the labs, the list of labs behind its cache and the list of the  *)
(* user interface.  They share nothing, so that every behaviour of the     *)
(* whole is, seen from one of them, a behaviour in which the others do not *)
(* move: the part that moves is chosen at the beginning.                   *)
(***************************************************************************)
EXTENDS CommerceLab, PaymentLab, Catalog, VirtualList

VARIABLE part

allVars == <<part, vars, paymentVars, catalogVars, listVars>>

\* What does not move starts in one way only.
StandaloneInit ==
    /\ part \in {"commerce", "payment", "catalog", "list"}
    /\ Init /\ PaymentInit /\ CatalogInit /\ ListInit
    /\ part # "list" => itemCount = 0

StandaloneNext ==
    /\ UNCHANGED part
    /\ \/ part = "commerce" /\ Next /\ UNCHANGED <<paymentVars, catalogVars, listVars>>
       \/ part = "payment" /\ PaymentNext /\ UNCHANGED <<vars, catalogVars, listVars>>
       \/ part = "catalog" /\ CatalogNext /\ UNCHANGED <<vars, paymentVars, listVars>>
       \/ part = "list" /\ ListNext /\ UNCHANGED <<vars, paymentVars, catalogVars>>

StandaloneSpec ==
    StandaloneInit /\ [][StandaloneNext]_allVars /\ (part = "catalog" => CatalogFairness)

=============================================================================
