----------------------------- MODULE MCPipeline -----------------------------
(***************************************************************************)
(* Module Pipeline with a bound: either all requests come and their events *)
(* are left where they are, or a few come and their events are followed.   *)
(***************************************************************************)
EXTENDS Pipeline

CONSTANT Followed   \* bound: requests whose events are followed

VARIABLE following

FollowedInit == PipelineInit /\ following \in BOOLEAN

\* The others have not come.
OnlyFollowed == \A r \in Requests \ Followed : at'[r] = "new"

FollowedNext ==
    /\ UNCHANGED following
    /\ IF following THEN PipelineNext /\ OnlyFollowed ELSE CreationNext

FollowedSpec ==
    /\ FollowedInit /\ [][FollowedNext]_<<pipelineVars, following>>
    /\ Fairness
    /\ following => DeliveryFairness

\* IncidentsAreInvestigated, where the events are followed.
FollowedAreInvestigated == following => IncidentsAreInvestigated

=============================================================================
