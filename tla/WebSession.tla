----------------------------- MODULE WebSession -----------------------------
(***************************************************************************)
(* The life of a session: its key in Redis (SessionManager), the cookie    *)
(* that names it, and the user that the web application shows              *)
(* (AuthProvider).  The provider's functions are asynchronous and nothing  *)
(* keeps them from overlapping: the buttons that switch personas stay      *)
(* enabled while a sign-in is under way.  A request carries the cookie     *)
(* there is when it is sent; what it finds is shown when its answer        *)
(* arrives.  Role and workspace of a session are those of its persona.     *)
(* How a sign-in finds or creates the user is in module Accounts.          *)
(*                                                                         *)
(* There is one tab.  A reload is a start with the cookie that is there.   *)
(*                                                                         *)
(* A definition introduced as a slip is used by no specification: it is    *)
(* a mistake this code could well contain, kept here to show that a        *)
(* property would notice it.                                               *)
(***************************************************************************)
EXTENDS Naturals

CONSTANTS
    MaxCalls,      \* bound: calls of the provider's functions and of rotateSession
    MaxSessions,   \* bound: sessions that are created
    Personas,      \* who signs in
    Nobody

\* Calls are numbered in the order they begin; the first is the fetch that
\* runs when the provider is mounted.  Sessions are numbered as they are drawn.
Calls == 1..MaxCalls
SessionIds == 1..MaxSessions

ASSUME BoundsAssumption == MaxCalls \in Nat \ {0} /\ MaxSessions \in Nat \ {0}
ASSUME NobodyAssumption == Nobody \notin SessionIds \cup Personas

VARIABLES
    keys,          \* each session's key: not yet drawn ("new"), stored with
                   \* or without a time to live, or gone
    owner,         \* whose session it is
    cookie,        \* the session that ff_session names
    shownUser, shownRole, shownWorkspace,   \* user, role, activeWorkspaceId
    isLoading,
    kind,          \* which function a call is of
    callAt,        \* the step that comes next in it or in its request
    sent,          \* the session its request carries, or has created
    persona,       \* who is to be signed in
    writtenLate,   \* sessions that went while a request was about to write
                   \* them back (history)
    crossed,       \* the cookie has changed under a call (history)
    unfetched      \* a sign-in failed with its cookie set, and no fetch has
                   \* ended since (history)

redis == <<keys, owner, writtenLate>>
shown == <<shownUser, shownRole, shownWorkspace, isLoading>>
browser == <<cookie, shown, crossed, unfetched>>
calls == <<kind, callAt, sent, persona>>
webVars == <<redis, browser, calls>>

RedisTypeOK ==
    /\ keys \in [SessionIds -> {"new", "expiring", "lasting", "gone"}]
    /\ owner \in [SessionIds -> Personas \cup {Nobody}]
    /\ writtenLate \subseteq SessionIds

BrowserTypeOK ==
    /\ cookie \in SessionIds \cup {Nobody}
    /\ shownUser \in Personas \cup {Nobody}
    /\ shownRole \in Personas \cup {Nobody}
    /\ shownWorkspace \in Personas \cup {Nobody}
    /\ isLoading \in BOOLEAN
    /\ crossed \in BOOLEAN /\ unfetched \in BOOLEAN

CallsTypeOK ==
    /\ kind \in [Calls -> {"fetch", "login", "logout", "rotate"}]
    /\ callAt \in [Calls -> {"idle", "create", "get", "set", "del", "reply",
                             "rejected", "torn", "done"}]
    /\ sent \in [Calls -> SessionIds \cup {Nobody}]
    /\ persona \in [Calls -> Personas \cup {Nobody}]

WebTypeOK == RedisTypeOK /\ BrowserTypeOK /\ CallsTypeOK

\* There is no cookie, or one from before, whose session may be gone.  The
\* role is the default one, of nobody in particular.
WebInit ==
    /\ cookie \in {1, Nobody}
    /\ owner \in [SessionIds -> Personas \cup {Nobody}]
    /\ keys \in [SessionIds -> {"new", "expiring", "gone"}]
    /\ \A i \in SessionIds : (keys[i] = "new") = (i # cookie) /\ (owner[i] = Nobody) = (i # cookie)
    /\ shownUser = Nobody /\ shownRole = Nobody /\ shownWorkspace = Nobody
    /\ isLoading = TRUE
    /\ kind = [c \in Calls |-> "fetch"]
    /\ callAt = [c \in Calls |-> IF c = 1 THEN "get" ELSE "idle"]
    /\ sent = [c \in Calls |-> IF c = 1 THEN cookie ELSE Nobody]
    /\ persona = [c \in Calls |-> Nobody]
    /\ writtenLate = {}
    /\ crossed = FALSE /\ unfetched = FALSE

Step(c, from, to) ==
    /\ callAt[c] = from
    /\ callAt' = [callAt EXCEPT ![c] = to]

\* What a call knew is forgotten with it.
Finish(c, from) ==
    /\ Step(c, from, "done")
    /\ kind' = [kind EXCEPT ![c] = "fetch"]
    /\ sent' = [sent EXCEPT ![c] = Nobody]
    /\ persona' = [persona EXCEPT ![c] = Nobody]

InFlight(c) == callAt[c] \notin {"idle", "done"}

-----------------------------------------------------------------------------
(* The calls begin.                                                        *)

\* The function k sends its request with the cookie.
Send(c, k, to) ==
    /\ c > 1 => callAt[c - 1] # "idle"
    /\ Step(c, "idle", to)
    /\ kind' = [kind EXCEPT ![c] = k]
    /\ sent' = [sent EXCEPT ![c] = cookie]

\* refresh, logout, and rotateSession, which has no caller but its test.
Start(c) ==
    /\ \E k \in {"fetch", "logout", "rotate"} : Send(c, k, "get")
    /\ UNCHANGED <<redis, browser, persona>>

StartLogin(c, p) ==
    /\ Send(c, "login", "create")
    /\ persona' = [persona EXCEPT ![c] = p]
    /\ isLoading' = TRUE
    /\ UNCHANGED <<redis, cookie, shownUser, shownRole, shownWorkspace, crossed, unfetched>>

-----------------------------------------------------------------------------
(* The requests at the API, call by call of Redis.                         *)

CreateSessionKey(c) ==
    \E i \in SessionIds :
        /\ keys[i] = "new" /\ \A j \in 1..i - 1 : keys[j] # "new"
        /\ keys' = [keys EXCEPT ![i] = "expiring"]
        /\ owner' = [owner EXCEPT ![i] = persona[c]]
        /\ \/ kind[c] = "rotate" /\ Finish(c, "create")
           \/ /\ kind[c] = "login"
              /\ Step(c, "create", "reply")
              /\ sent' = [sent EXCEPT ![c] = i]
              /\ UNCHANGED <<kind, persona>>
        /\ UNCHANGED <<browser, writtenLate>>

\* getSession reads the key; without one the request is refused.
GetSession(c) ==
    LET found == sent[c] # Nobody /\ keys[sent[c]] \in {"expiring", "lasting"} IN
    /\ Step(c, "get", IF found THEN "set" ELSE "rejected")
    /\ persona' = [persona EXCEPT ![c] = IF found THEN owner[sent[c]] ELSE @]
    /\ UNCHANGED <<redis, browser, kind, sent>>

\* Slip: the session is written back without KEEPTTL.
WriteBack(c) ==
    /\ Step(c, "set", IF kind[c] = "fetch" THEN "reply" ELSE "del")
    /\ keys' = [keys EXCEPT ![sent[c]] = "lasting"]
    /\ UNCHANGED <<owner, writtenLate, browser, kind, sent, persona>>

\* getSession writes the session back with the new lastActiveAt.  KEEPTTL
\* keeps the time to live of a key that is there; one that has gone since is
\* stored anew, without any.
WriteBackKeepingTtl(c) ==
    /\ Step(c, "set", IF kind[c] = "fetch" THEN "reply" ELSE "del")
    /\ keys' = [keys EXCEPT ![sent[c]] = IF @ = "gone" THEN "lasting" ELSE @]
    /\ UNCHANGED <<owner, writtenLate, browser, kind, sent, persona>>

\* The key goes while the calls "others" are under way.
Going(i, others) ==
    /\ keys' = [keys EXCEPT ![i] = "gone"]
    /\ writtenLate' = IF \E other \in others : callAt[other] = "set" /\ sent[other] = i
                      THEN writtenLate \cup {i} ELSE writtenLate

\* logout deletes the key, rotateSession deletes it and then creates another.
DestroySession(c) ==
    /\ Step(c, "del", IF kind[c] = "logout" THEN "reply" ELSE "create")
    /\ Going(sent[c], Calls \ {c})
    /\ UNCHANGED <<owner, browser, kind, sent, persona>>

\* A call of the API rejects (the query of /me for its user, and the audit
\* events, are part of the answers here), or the answer is lost on its way.
\* "torn": the failing answer has the headers of one that succeeds.  A sign-in
\* sets its cookie before its audit event, which nothing catches, and the body
\* of an answer may be lost after its headers.
Reject(c) ==
    /\ \/ /\ callAt[c] \in {"create", "get", "set", "del", "reply"}
          /\ callAt' = [callAt EXCEPT ![c] = "rejected"]
       \/ /\ callAt[c] = "reply" /\ kind[c] \in {"login", "logout"}
          /\ callAt' = [callAt EXCEPT ![c] = "torn"]
    /\ UNCHANGED <<redis, browser, kind, sent, persona>>

ExpireSession(i) ==
    /\ keys[i] = "expiring"
    /\ Going(i, Calls)
    /\ UNCHANGED <<owner, browser, calls>>

-----------------------------------------------------------------------------
(* The answers in the browser.                                             *)

ChangeCookie(c, i) ==
    /\ cookie' = i
    /\ crossed' = (crossed \/ \E other \in Calls \ {c} : kind[other] # "rotate" /\ InFlight(other))

FetchAnswered(c) ==
    /\ kind[c] = "fetch"
    /\ Finish(c, "reply")
    /\ shownUser' = persona[c] /\ shownRole' = persona[c] /\ shownWorkspace' = persona[c]
    /\ isLoading' = FALSE
    /\ unfetched' = FALSE
    /\ UNCHANGED <<redis, cookie, crossed>>

\* Slip: loginMock does not fetch the user it has signed in.
LoginAnsweredOnly(c) ==
    /\ kind[c] = "login"
    /\ Finish(c, "reply")
    /\ ChangeCookie(c, sent[c])
    /\ UNCHANGED <<redis, shown, unfetched>>

\* The answer sets the cookie, and loginMock goes on as fetchCurrentUser.
LoginAnswered(c) ==
    /\ kind[c] = "login"
    /\ Step(c, "reply", "get")
    /\ ChangeCookie(c, sent[c])
    /\ kind' = [kind EXCEPT ![c] = "fetch"]
    /\ UNCHANGED <<redis, shown, unfetched, sent, persona>>

\* The role stays as it was.
ForgetUser ==
    /\ shownUser' = Nobody /\ shownWorkspace' = Nobody
    /\ UNCHANGED <<shownRole, isLoading>>

LogoutAnswered(c) ==
    /\ kind[c] = "logout"
    /\ Finish(c, "reply")
    /\ ChangeCookie(c, Nobody)
    /\ ForgetUser
    /\ UNCHANGED <<redis, unfetched>>

\* A fetch that fails forgets the user, a logout user and workspace; a login
\* leaves what is shown as it was, isLoading too.
Failed(c) ==
    /\ Finish(c, "rejected")
    /\ \/ /\ kind[c] = "fetch"
          /\ shownUser' = Nobody
          /\ isLoading' = FALSE
          /\ unfetched' = FALSE
          /\ UNCHANGED <<shownRole, shownWorkspace>>
       \/ kind[c] = "logout" /\ ForgetUser /\ UNCHANGED unfetched
       \/ kind[c] \in {"login", "rotate"} /\ UNCHANGED <<shown, unfetched>>
    /\ UNCHANGED <<redis, cookie, crossed>>

\* Likewise, but the browser has taken the cookie from the headers.  loginMock
\* throws before it fetches.
FailedTorn(c) ==
    /\ Finish(c, "torn")
    /\ \/ /\ kind[c] = "login"
          /\ ChangeCookie(c, sent[c])
          /\ unfetched' = TRUE
          /\ UNCHANGED shown
       \/ /\ kind[c] = "logout"
          /\ ChangeCookie(c, Nobody)
          /\ ForgetUser
          /\ UNCHANGED unfetched
    /\ UNCHANGED redis

CookieExpires ==
    /\ cookie # Nobody
    /\ cookie' = Nobody
    /\ UNCHANGED <<redis, shown, crossed, unfetched, calls>>

WebNext ==
    \/ \E c \in Calls :
        \/ Start(c) \/ \E p \in Personas : StartLogin(c, p)
        \/ CreateSessionKey(c) \/ GetSession(c) \/ WriteBackKeepingTtl(c)
        \/ DestroySession(c) \/ Reject(c)
        \/ FetchAnswered(c) \/ LoginAnswered(c) \/ LogoutAnswered(c)
        \/ Failed(c) \/ FailedTorn(c)
    \/ \E i \in SessionIds : ExpireSession(i)
    \/ CookieExpires

WebSpec == WebInit /\ [][WebNext]_webVars

-----------------------------------------------------------------------------
(* Properties.                                                             *)

\* A session ends when it was meant to: its key has a time to live from the
\* beginning to its end, however many requests write it back, and once gone
\* it does not return.  The exception is a session that went between the read
\* and the write of a request.
SessionsKeepTheirEnd == \A i \in SessionIds : keys[i] = "lasting" => i \in writtenLate

\* As long as the cookie never changed under another call, what the
\* application shows at rest is the session it would use: no expiry, no failing
\* fetch or logout and no overlap of mere fetches leaves it with the user of one
\* session and the cookie of another.  The one failure that does is a sign-in
\* that fails with its cookie set, until the next fetch has ended.
ShownIsSignedIn ==
    ~crossed /\ ~unfetched /\ shownUser # Nobody /\ cookie # Nobody
            /\ (\A c \in Calls : ~InFlight(c)) =>
        shownUser = owner[cookie] /\ shownRole = shownUser /\ shownWorkspace = shownUser

=============================================================================
