---------------------------- MODULE JobContract -----------------------------
(***************************************************************************)
(* What the job queue and its worker promise whoever adds a job, without   *)
(* runs, locks, attempts or stalls: a job that was added is taken up, it   *)
(* ends at most once, and nothing takes up or changes a job that has       *)
(* ended, until the queue forgets it.  Module Investigation is shown to    *)
(* implement it, and module Pipeline rests on it.                          *)
(***************************************************************************)

CONSTANT Jobs

VARIABLE job     \* state of each job; active as long as attempts follow

Ended == {"completed", "failed"}

Init == job \in [Jobs -> {"none", "waiting"}]

Move(j, from, to) == job[j] \in from /\ job' = [job EXCEPT ![j] = to]

Add(j) == Move(j, {"none"}, "waiting")

Start(j) == Move(j, {"waiting"}, "active")

Finish(j) == \E outcome \in Ended : Move(j, {"active"}, outcome)

Forget(j) == Move(j, Ended, "none")

Next == \E j \in Jobs : Add(j) \/ Start(j) \/ Finish(j) \/ Forget(j)

Spec == Init /\ [][Next]_job

=============================================================================
