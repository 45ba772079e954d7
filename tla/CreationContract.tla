-------------------------- MODULE CreationContract --------------------------
(***************************************************************************)
(* What the creation of incidents promises its clients, as if each request *)
(* were served in one moment, without queries, transactions, locks or      *)
(* calls that fail half-way: a key makes one incident at most, incidents   *)
(* stay, and each request is told one thing, which is true.  Only an error *)
(* leaves open whether the incident was made.                              *)
(***************************************************************************)

CONSTANTS Requests, Keys, NoKey, NoIncident

VARIABLES
    asked,     \* requests that have come
    key,       \* the key each of them carries
    made,      \* incidents, by the request that made them
    reply      \* what each request was told

vars == <<asked, key, made, reply>>

NoReply == [kind |-> "none", incident |-> NoIncident]

Init ==
    /\ asked = {}
    /\ key = [r \in Requests |-> NoKey]
    /\ made = {}
    /\ reply = [r \in Requests |-> NoReply]

\* The incident made under the key of r.
Named(r) == {i \in made : key[r] # NoKey /\ key[i] = key[r]}

Ask(r) ==
    /\ r \notin asked
    /\ asked' = asked \cup {r}
    /\ \E k \in Keys \cup {NoKey} : key' = [key EXCEPT ![r] = k]
    /\ UNCHANGED <<made, reply>>

Pending(r) == r \in asked /\ reply[r].kind = "none"

Tell(r, kind, incident) ==
    reply' = [reply EXCEPT ![r] = [kind |-> kind, incident |-> incident]]

\* The client learns that the incident was made, if at all, by a later reply.
Make(r) ==
    /\ Pending(r)
    /\ r \notin made
    /\ Named(r) = {}
    /\ made' = made \cup {r}
    /\ UNCHANGED reply \/ Tell(r, "error", NoIncident)
    /\ UNCHANGED <<asked, key>>

Answer(r) ==
    /\ Pending(r)
    /\ \/ r \in made /\ Tell(r, "created", r)
       \/ \E i \in Named(r) : Tell(r, "existing", i)
       \/ Named(r) # {} /\ r \notin made /\ Tell(r, "conflict", NoIncident)
       \/ r \notin made /\ Tell(r, "notFound", NoIncident)
       \/ Tell(r, "error", NoIncident)
    /\ UNCHANGED <<asked, key, made>>

Next == \E r \in Requests : Ask(r) \/ Make(r) \/ Answer(r)

Spec == Init /\ [][Next]_vars

=============================================================================
