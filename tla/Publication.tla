---------------------------- MODULE Publication -----------------------------
(***************************************************************************)
(* Publishing an incident in the reference library (CaseStudyCompiler,     *)
(* ReferenceIndexer), while people go on working on it (Remediation) and   *)
(* the worker's job may still write its status.                            *)
(*                                                                         *)
(* The compiler checks the status and then picks a patch: the first case   *)
(* the database returns, in no order, and one of its passing responses, or *)
(* a patch written into the code when there is none.  The library is a map *)
(* in the memory of the API process.  It has one entry for each scenario;  *)
(* here it is the entry of the incident's scenario.                        *)
(*                                                                         *)
(* A definition introduced as a slip is used by no specification: it is    *)
(* a mistake this code could well contain, kept here to show that a        *)
(* property would notice it.                                               *)
(***************************************************************************)
EXTENDS Remediation

CONSTANTS
    Publishers,    \* requests to publish the incident
    Seeded         \* the entry the API process starts with

ASSUME PublishersAssumption == Seeded \notin Publishers

VARIABLES
    library,       \* the publisher whose case study is in the library
    publishAt,     \* where each publisher's handler is
    patchCase      \* the case its patch is from, NoCase for the built-in patch

publishVars == <<library, publishAt, patchCase>>
allVars == <<vars, publishVars>>

PublisherTypeOK ==
    /\ library \in Publishers \cup {Seeded}
    /\ publishAt \in [Publishers -> {"new", "compiling", "adding", "done"}]
    /\ patchCase \in [Publishers -> Requests \cup {NoCase}]

PublicationTypeOK == TypeOK /\ PublisherTypeOK

PublicationInit ==
    /\ Init
    /\ library = Seeded
    /\ publishAt = [p \in Publishers |-> "new"]
    /\ patchCase = [p \in Publishers |-> NoCase]

MovePublisher(p, from, to) ==
    /\ publishAt[p] = from
    /\ publishAt' = [publishAt EXCEPT ![p] = to]
    /\ UNCHANGED vars

\* Slip: an incident that was evaluated may be published, too.
CheckWasEvaluated(p) ==
    /\ MovePublisher(p, "new", IF status \in {"EVALUATED", "APPROVED", "RESOLVED"}
                               THEN "compiling" ELSE "done")
    /\ UNCHANGED <<library, patchCase>>

\* The incident's row comes with the first query of findUnique.
CheckResolved(p) ==
    /\ MovePublisher(p, "new", IF status \in {"APPROVED", "RESOLVED"} THEN "compiling" ELSE "done")
    /\ UNCHANGED <<library, patchCase>>

\* The patch of a case is one of its passing responses; the route evaluates
\* two patches that pass, so one that was stored is enough.
PatchOf(c) == IF responses[c] > 0 THEN c ELSE NoCase

\* Its cases, and their responses, come with later queries.  By then there is a
\* case: the incident was seen approved or resolved (PublishedWasApproved), so
\* that the patch written into the code stands in only for a case without
\* responses.
ReadCases(p) ==
    /\ MovePublisher(p, "compiling", "adding")
    /\ \E c \in cases : patchCase' = [patchCase EXCEPT ![p] = PatchOf(c)]
    /\ UNCHANGED library

AddCase(p) ==
    /\ MovePublisher(p, "adding", "done")
    /\ library' = p
    /\ UNCHANGED patchCase

\* A guard refuses the request or a query rejects.
Refuse(p) ==
    /\ \E here \in {"new", "compiling"} : MovePublisher(p, here, "done")
    /\ UNCHANGED <<library, patchCase>>

\* The API process starts again with the cases written into the code.  Its
\* publishers are gone; its other requests are left to GiveUp.
RestartApi ==
    /\ library' = Seeded
    /\ publishAt' = [p \in Publishers |->
                        IF publishAt[p] = "new" THEN "new" ELSE "done"]
    /\ UNCHANGED <<vars, patchCase>>

Publish == \E p \in Publishers : CheckResolved(p) \/ ReadCases(p) \/ AddCase(p) \/ Refuse(p)

PublicationNext == (Publish \/ RestartApi) \/ (Next /\ UNCHANGED publishVars)

PublicationSpec == PublicationInit /\ [][PublicationNext]_allVars

-----------------------------------------------------------------------------
(* Properties.                                                             *)

\* Whatever happens to the incident while it is compiled: what the library
\* shows was approved by a reviewer and fully evaluated before.
PublishedWasApproved ==
    library # Seeded => Approved /\ \E c \in Requests : Complete(c)

=============================================================================
