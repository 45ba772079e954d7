------------------------------ MODULE Accounts ------------------------------
(***************************************************************************)
(* The organization, its workspaces, users and memberships, and how they   *)
(* come to be: seeding (seedDatabase), the two ways to sign in (auth.ts)   *)
(* and the route that creates a workspace.  Nobody deletes these rows.     *)
(*                                                                         *)
(* Any number of seedings and sign-ins overlap: a test suite seeds in      *)
(* every file, and an API process does not wait for a seeding.  Neither    *)
(* uses a transaction across its calls; what holds them together are the   *)
(* unique columns.  An organization is named by the call that inserted it. *)
(*                                                                         *)
(* A definition introduced as a slip is used by no specification: it is    *)
(* a mistake this code could well contain, kept here to show that a        *)
(* property would notice it.                                               *)
(***************************************************************************)
EXTENDS Naturals

CONSTANTS
    Seedings,        \* calls of seedDatabase
    SignIns,         \* requests to sign in
    Emails,          \* those who sign in; seeded users may be among them
    Roles,           \* roles a sign-in may ask for
    Slugs,           \* slugs a created workspace may have
    ScenarioCount,   \* scenarios that seeding adds (5 in the code)
    None

Actors == Seedings \cup SignIns

ASSUME ActorsAssumption == Seedings \cap SignIns = {}
ASSUME RolesAssumption == Roles \subseteq {"ADMIN", "ENGINEER", "REVIEWER", "VIEWER"}
ASSUME ScenarioAssumption == ScenarioCount \in Nat \ {0}

VARIABLES
    organizations,   \* who inserted them; the slug of all of them is acme-corp
    workspaces,      \* with the organization and the slug
    home,            \* the organization of each user, None if there is no user
    memberships,
    scenarios,       \* the scenarios in the catalog
    rejected,        \* those whose insert was rejected (history)
    sessions,        \* the sessions in Redis
    at,              \* where each seeding and each sign-in is
    org,             \* the organization it has found or created
    place,           \* the workspace
    email,           \* who signs in
    role,            \* the role asked for, then the role of the membership
    next             \* the scenario each seeding comes to

tables == <<organizations, workspaces, home, memberships, scenarios>>
locals == <<org, place, email, role, next>>
vars == <<tables, rejected, sessions, at, locals>>

Users == Emails \cup {"admin", "reviewer"}
AllRoles == Roles \cup {"ADMIN", "REVIEWER", "ENGINEER"}
AllSlugs == Slugs \cup {"primary-workspace", "default-workspace"}
Workspaces == [org : Actors, slug : AllSlugs]
\* What is null names no row.
ASSUME NoneAssumption == None \notin Actors \cup Workspaces

Memberships == [user : Users, workspace : Workspaces, role : AllRoles]

SeedingAt == {"organization", "workspace", "admin", "reviewer", "adminMember",
              "reviewerMember", "rubric", "finding", "inserting", "done", "failed"}
SignInAt == {"new", "user", "organization", "founding", "workspace", "opening", "creating",
             "callbackUser", "callbackOrganization", "callbackWorkspace",
             "joining", "session", "audit", "done", "failed"}

TypeOK ==
    /\ organizations \subseteq Actors
    /\ workspaces \subseteq Workspaces
    /\ home \in [Users -> Actors \cup {None}]
    /\ memberships \subseteq Memberships
    /\ scenarios \subseteq 1..ScenarioCount
    /\ rejected \subseteq 1..ScenarioCount
    /\ sessions \subseteq [of : SignIns, user : Emails, org : Actors \cup {None},
                           workspace : Workspaces \cup {None}, role : AllRoles]
    /\ at \in [Actors -> SeedingAt \cup SignInAt]
    /\ org \in [Actors -> Actors \cup {None}]
    /\ place \in [Actors -> Workspaces \cup {None}]
    /\ email \in [SignIns -> Emails]
    /\ role \in [SignIns -> AllRoles]
    /\ next \in [Seedings -> 1..(ScenarioCount + 1)]

\* An empty database; the requests to sign in ask for whatever they like.
Init ==
    /\ organizations = {} /\ workspaces = {} /\ memberships = {} /\ scenarios = {}
    /\ home = [e \in Users |-> None]
    /\ rejected = {} /\ sessions = {}
    /\ at = [a \in Actors |-> IF a \in Seedings THEN "organization" ELSE "new"]
    /\ org = [a \in Actors |-> None]
    /\ place = [a \in Actors |-> None]
    /\ email \in [SignIns -> Emails]
    /\ role \in [SignIns -> Roles]
    /\ next = [d \in Seedings |-> 1]

Move(a, from, to) ==
    /\ at[a] = from
    /\ at' = [at EXCEPT ![a] = to]

\* The call rejects or the process ends: what was written stays, what the
\* handler had found is gone.
GiveUp(a) ==
    /\ at[a] \notin {"new", "done", "failed"}
    /\ at' = [at EXCEPT ![a] = "failed"]
    /\ org' = [org EXCEPT ![a] = None]
    /\ place' = [place EXCEPT ![a] = None]
    /\ UNCHANGED <<tables, rejected, sessions, email, role, next>>

-----------------------------------------------------------------------------
(* Rows and their unique columns.                                          *)

\* Slip: the slug of an organization is not unique.
InsertOrganizationAnyway(a) ==
    /\ organizations' = organizations \cup {a}
    /\ org' = [org EXCEPT ![a] = a]

\* The insert of an organization; it fails when the slug is taken.
InsertOrganization(a) ==
    /\ organizations = {}
    /\ organizations' = {a}
    /\ org' = [org EXCEPT ![a] = a]

InsertWorkspace(a, w) ==
    /\ w \notin workspaces
    /\ workspaces' = workspaces \cup {w}
    /\ place' = [place EXCEPT ![a] = w]

FindOrganization(a) ==
    /\ \E o \in organizations : org' = [org EXCEPT ![a] = o]
    /\ UNCHANGED <<tables, rejected, sessions, place, email, role, next>>

FindWorkspace(a, found) ==
    /\ \E w \in found : place' = [place EXCEPT ![a] = w]
    /\ UNCHANGED <<tables, rejected, sessions, org, email, role, next>>

-----------------------------------------------------------------------------
(* Seeding: upserts, and a loop that looks before it inserts.              *)

UpsertOrganization(d) ==
    /\ Move(d, "organization", "workspace")
    /\ \/ FindOrganization(d)
       \/ /\ InsertOrganization(d)
          /\ UNCHANGED <<workspaces, home, memberships, scenarios, rejected, sessions,
                         place, email, role, next>>

UpsertWorkspace(d) ==
    LET w == [org |-> org[d], slug |-> "primary-workspace"] IN
    /\ Move(d, "workspace", "admin")
    /\ \/ FindWorkspace(d, workspaces \cap {w})
       \/ /\ InsertWorkspace(d, w)
          /\ UNCHANGED <<organizations, home, memberships, scenarios, rejected, sessions,
                         org, email, role, next>>

\* A user who is there already stays as he is.
UpsertUser(d, user, to) ==
    /\ Move(d, user, to)
    /\ home' = [home EXCEPT ![user] = IF @ = None THEN org[d] ELSE @]
    /\ UNCHANGED <<organizations, workspaces, memberships, scenarios, rejected, sessions, locals>>

AddMember(d, user, seededRole) ==
    memberships' =
        IF \E m \in memberships : m.user = user /\ m.workspace = place[d]
        THEN memberships
        ELSE memberships \cup {[user |-> user, workspace |-> place[d], role |-> seededRole]}

UpsertMember(d, user, seededRole, from, to) ==
    /\ Move(d, from, to)
    /\ AddMember(d, user, seededRole)
    /\ UNCHANGED <<organizations, workspaces, home, scenarios, rejected, sessions, locals>>

\* The rubric and the lab: one row each, which nothing here depends on.
UpsertRubricAndLab(d) ==
    /\ Move(d, "rubric", "finding")
    /\ UNCHANGED <<tables, rejected, sessions, locals>>

\* Slip: the loop ends one scenario too early.
NextScenarioEarly(d, from) ==
    /\ Move(d, from, IF next[d] + 1 >= ScenarioCount THEN "done" ELSE "finding")
    /\ next' = [next EXCEPT ![d] = @ + 1]
    /\ UNCHANGED <<org, place, email, role>>

\* Slip: the loop ends one scenario too late.
NextScenarioLate(d, from) ==
    /\ Move(d, from, IF next[d] > ScenarioCount THEN "done" ELSE "finding")
    /\ next' = [next EXCEPT ![d] = @ + 1]
    /\ UNCHANGED <<org, place, email, role>>

NextScenario(d, from) ==
    /\ Move(d, from, IF next[d] = ScenarioCount THEN "done" ELSE "finding")
    /\ next' = [next EXCEPT ![d] = @ + 1]
    /\ UNCHANGED <<org, place, email, role>>

FindScenario(d) ==
    /\ \/ /\ next[d] \in scenarios
          /\ NextScenario(d, "finding")
       \/ /\ next[d] \notin scenarios
          /\ Move(d, "finding", "inserting")
          /\ UNCHANGED locals
    /\ UNCHANGED <<tables, rejected, sessions>>

\* Whatever the insert throws is caught and the loop goes on: another
\* seeding was faster, or the call was rejected for a reason of its own.
InsertScenario(d) ==
    /\ NextScenario(d, "inserting")
    /\ \/ scenarios' = scenarios \cup {next[d]} /\ UNCHANGED rejected
       \/ rejected' = rejected \cup {next[d]} /\ UNCHANGED scenarios
    /\ UNCHANGED <<organizations, workspaces, home, memberships, sessions>>

Seed(d) ==
    \/ UpsertOrganization(d) \/ UpsertWorkspace(d)
    \/ UpsertUser(d, "admin", "reviewer") \/ UpsertUser(d, "reviewer", "adminMember")
    \/ UpsertMember(d, "admin", "ADMIN", "adminMember", "reviewerMember")
    \/ UpsertMember(d, "reviewer", "REVIEWER", "reviewerMember", "rubric")
    \/ UpsertRubricAndLab(d) \/ FindScenario(d) \/ InsertScenario(d)

-----------------------------------------------------------------------------
(* Signing in.                                                             *)

\* A request asks for the mock login or comes back from the identity
\* provider; the latter does not choose a role.
Arrive(s) ==
    /\ \/ Move(s, "new", "user") /\ UNCHANGED role
       \/ Move(s, "new", "callbackUser") /\ role' = [role EXCEPT ![s] = "ENGINEER"]
    /\ UNCHANGED <<tables, rejected, sessions, org, place, email, next>>

\* The user comes with the first query, the memberships with a later one.
FindUser(s, from, ifNone) ==
    /\ Move(s, from, IF home[email[s]] # None THEN "joining" ELSE ifNone)
    /\ org' = [org EXCEPT ![s] = home[email[s]]]
    /\ UNCHANGED <<tables, rejected, sessions, place, email, role, next>>

FindOrCreateOrganization(s) ==
    \/ Move(s, "organization", "workspace") /\ FindOrganization(s)
    \/ /\ organizations = {}
       /\ Move(s, "organization", "founding")
       /\ UNCHANGED <<tables, rejected, sessions, locals>>
    \/ /\ Move(s, "founding", "workspace")
       /\ InsertOrganization(s)
       /\ UNCHANGED <<workspaces, home, memberships, scenarios, rejected, sessions,
                      place, email, role, next>>

FindOrCreateWorkspace(s) ==
    LET its == {w \in workspaces : w.org = org[s]} IN
    \/ Move(s, "workspace", "creating") /\ FindWorkspace(s, its)
    \/ /\ its = {}
       /\ Move(s, "workspace", "opening")
       /\ UNCHANGED <<tables, rejected, sessions, locals>>
    \/ /\ Move(s, "opening", "creating")
       /\ InsertWorkspace(s, [org |-> org[s], slug |-> "default-workspace"])
       /\ UNCHANGED <<organizations, home, memberships, scenarios, rejected, sessions,
                      org, email, role, next>>

\* The callback takes the first organization and the first workspace there
\* are, each by itself; without one the request fails (GiveUp).
FindFirsts(s) ==
    \/ Move(s, "callbackOrganization", "callbackWorkspace") /\ FindOrganization(s)
    \/ Move(s, "callbackWorkspace", "creating") /\ FindWorkspace(s, workspaces)

\* Slip: the membership is left to a later call.
CreateUserAlone(s) ==
    /\ Move(s, "creating", "joining")
    /\ home[email[s]] = None
    /\ home' = [home EXCEPT ![email[s]] = org[s]]
    /\ UNCHANGED <<organizations, workspaces, memberships, scenarios, rejected, sessions, locals>>

\* One nested create, hence one transaction; it fails when the email is taken.
CreateUser(s) ==
    /\ Move(s, "creating", "session")
    /\ home[email[s]] = None
    /\ home' = [home EXCEPT ![email[s]] = org[s]]
    /\ memberships' = memberships \cup
            {[user |-> email[s], workspace |-> place[s], role |-> role[s]]}
    /\ UNCHANGED <<organizations, workspaces, scenarios, rejected, sessions, locals>>

\* Slip: the session keeps the role that was asked for.
ReadMembershipsOnly(s) ==
    /\ Move(s, "joining", "session")
    /\ LET its == {m \in memberships : m.user = email[s]} IN
       \/ its = {} /\ UNCHANGED place
       \/ \E m \in its : place' = [place EXCEPT ![s] = m.workspace]
    /\ UNCHANGED <<tables, rejected, sessions, org, email, role, next>>

\* Any of the memberships comes first.  A user may have none.
ReadMemberships(s) ==
    /\ Move(s, "joining", "session")
    /\ LET its == {m \in memberships : m.user = email[s]} IN
       \/ its = {} /\ UNCHANGED <<place, role>>
       \/ \E m \in its : /\ place' = [place EXCEPT ![s] = m.workspace]
                         /\ role' = [role EXCEPT ![s] = m.role]
    /\ UNCHANGED <<tables, rejected, sessions, org, email, next>>

CreateSession(s) ==
    /\ Move(s, "session", "audit")
    /\ sessions' = sessions \cup {[of |-> s, user |-> email[s], org |-> org[s],
                                   workspace |-> place[s], role |-> role[s]]}
    /\ UNCHANGED <<tables, rejected, locals>>

\* The mock login stores an audit event, which nothing here reads.
Answer(s) ==
    /\ Move(s, "audit", "done")
    /\ UNCHANGED <<tables, rejected, sessions, locals>>

SignIn(s) ==
    \/ Arrive(s)
    \/ FindUser(s, "user", "organization")
    \/ FindUser(s, "callbackUser", "callbackOrganization")
    \/ FindOrCreateOrganization(s) \/ FindOrCreateWorkspace(s) \/ FindFirsts(s)
    \/ CreateUser(s) \/ ReadMemberships(s) \/ CreateSession(s) \/ Answer(s)

\* POST /workspaces, for an organization there is.
CreateWorkspace(o, slug) ==
    /\ [org |-> o, slug |-> slug] \notin workspaces
    /\ workspaces' = workspaces \cup {[org |-> o, slug |-> slug]}
    /\ UNCHANGED <<organizations, home, memberships, scenarios, rejected, sessions, at, locals>>

Next ==
    \/ \E d \in Seedings : Seed(d) \/ GiveUp(d)
    \/ \E s \in SignIns : SignIn(s) \/ GiveUp(s)
    \/ \E o \in organizations, slug \in Slugs : CreateWorkspace(o, slug)

Spec == Init /\ [][Next]_vars

-----------------------------------------------------------------------------
(* Properties.                                                             *)

\* Whoever comes first to create what is missing: no user is a member of a
\* workspace of another organization, although the callback looks for the
\* organization and the workspace separately.
MembersAreAtHome ==
    \A m \in memberships : home[m.user] # None /\ m.workspace.org = home[m.user]

\* What a session says is true of the tables: its user exists, and the role
\* it grants in a workspace is that of a membership.
SessionsAreBacked ==
    \A s \in sessions :
        /\ s.org = home[s.user]
        /\ s.workspace # None =>
            \E m \in memberships :
                m.user = s.user /\ m.workspace = s.workspace /\ m.role = s.role

\* A seeding that stops half-way may leave a user without a membership, whose
\* sessions then have no workspace; once any seeding has finished, no user is
\* without one.
SeedingHeals ==
    (\E d \in Seedings : at[d] = "done") =>
        \A u \in Users : home[u] # None => \E m \in memberships : m.user = u

\* A seeding that reports success has left everything it should, whatever the
\* others do: its users, its workspace, and each scenario whose insert was
\* not rejected.
SuccessIsComplete ==
    \A d \in Seedings : at[d] = "done" =>
        /\ place[d] \in workspaces
        /\ \A user \in {"admin", "reviewer"} :
               \E m \in memberships : m.user = user /\ m.workspace = place[d]
        /\ 1..ScenarioCount \subseteq scenarios \cup rejected

=============================================================================
