--------------------------- MODULE AccountsProofs ---------------------------
(***************************************************************************)
(* Theorems about accounts and sessions, for any number of seedings,       *)
(* sign-ins, calls of the provider and sessions.                           *)
(***************************************************************************)
EXTENDS MCAccounts, TLAPS

-----------------------------------------------------------------------------
(* WebSession                                                              *)

\* A session that somebody names was drawn.
NamedWereDrawn ==
    /\ cookie # Nobody => keys[cookie] # "new"
    /\ \A c \in Calls : sent[c] # Nobody => keys[sent[c]] # "new"

\* Whoever is past the read of a session, or has created one, has one.
PastReadHasSession ==
    \A c \in Calls : callAt[c] \in {"set", "del", "reply", "torn"} => sent[c] # Nobody

\* A request that has read a session and finds it gone at its write is one
\* of those the history speaks of.
WriterIsKnown ==
    \A c \in Calls : callAt[c] = "set" /\ keys[sent[c]] = "gone" => sent[c] \in writtenLate

\* A fetch that has read its session knows whose it is.
FetchKnowsOwner ==
    \A c \in Calls : kind[c] = "fetch" /\ callAt[c] \in {"set", "reply"} =>
        persona[c] = owner[sent[c]]

Fetching(c) == InFlight(c) /\ kind[c] = "fetch"

\* As long as the cookie never changed under a call, all fetches are for it.
FetchesAreForCookie ==
    ~crossed /\ cookie # Nobody => \A c \in Calls : Fetching(c) => sent[c] = cookie

\* Who is shown is who is signed in, or a fetch is about to put it right, unless
\* a sign-in failed after it had set its cookie.
ShownOrFetching ==
    ~crossed /\ ~unfetched /\ shownUser # Nobody /\ cookie # Nobody =>
        \/ shownUser = owner[cookie] /\ shownRole = shownUser /\ shownWorkspace = shownUser
        \/ \E c \in Calls : Fetching(c)

WebInv ==
    /\ WebTypeOK
    /\ NamedWereDrawn /\ PastReadHasSession
    /\ WriterIsKnown /\ SessionsKeepTheirEnd
    /\ FetchKnowsOwner /\ FetchesAreForCookie /\ ShownOrFetching

-----------------------------------------------------------------------------

\* A session that a cookie from before names is stored or gone; no other was
\* drawn.
LEMMA WebInitInv == WebInit => WebInv
<1> SUFFICES ASSUME WebInit PROVE WebInv
    OBVIOUS
<1> USE BoundsAssumption, NobodyAssumption DEF WebInit, SessionIds, Calls
<1>1. WebTypeOK
  <2>1. keys \in [SessionIds -> {"new", "expiring", "lasting", "gone"}]
    OBVIOUS
  <2>2. /\ owner \in [SessionIds -> Personas \cup {Nobody}]
        /\ cookie \in SessionIds \cup {Nobody}
    OBVIOUS
  <2>3. /\ shownUser = Nobody /\ shownRole = Nobody /\ shownWorkspace = Nobody
        /\ isLoading = TRUE /\ writtenLate = {}
        /\ crossed = FALSE /\ unfetched = FALSE
    OBVIOUS
  <2>4. kind \in [Calls -> {"fetch", "login", "logout", "rotate"}]
    OBVIOUS
  <2>5. callAt \in [Calls -> {"idle", "create", "get", "set", "del", "reply", "rejected", "torn", "done"}]
    OBVIOUS
  <2>6. sent \in [Calls -> SessionIds \cup {Nobody}] /\ persona \in [Calls -> Personas \cup {Nobody}]
    BY <2>2
  <2> QED
    BY <2>1, <2>2, <2>3, <2>4, <2>5, <2>6 DEF WebTypeOK, RedisTypeOK, BrowserTypeOK, CallsTypeOK
<1>2. NamedWereDrawn /\ PastReadHasSession /\ WriterIsKnown /\ SessionsKeepTheirEnd
  <2>1. cookie # Nobody => keys[cookie] # "new"
    OBVIOUS
  <2>2. \A c \in Calls : callAt[c] \in {"get", "idle"} /\ sent[c] \in {cookie, Nobody}
    OBVIOUS
  <2>3. \A i \in SessionIds : keys[i] # "lasting"
    OBVIOUS
  <2> QED
    BY <2>1, <2>2, <2>3 DEF NamedWereDrawn, PastReadHasSession, WriterIsKnown, SessionsKeepTheirEnd
<1>3. FetchKnowsOwner /\ FetchesAreForCookie /\ ShownOrFetching
  BY DEF FetchKnowsOwner, FetchesAreForCookie, ShownOrFetching, Fetching, InFlight
<1> QED
  BY <1>1, <1>2, <1>3 DEF WebInv

\* All that a call that begins takes along is the cookie.
LEMMA SendInv ==
    ASSUME WebInv, NEW c \in Calls, NEW k \in {"fetch", "login", "logout", "rotate"},
           NEW to \in {"get", "create"}, Send(c, k, to),
           UNCHANGED <<redis, cookie, crossed, unfetched, shownUser, shownRole, shownWorkspace>>,
           persona' = persona \/ \E p \in Personas : persona' = [persona EXCEPT ![c] = p],
           isLoading' \in BOOLEAN
    PROVE WebInv'
<1> USE DEF WebInv, WebTypeOK
<1>1. /\ callAt[c] = "idle" /\ callAt' = [callAt EXCEPT ![c] = to]
      /\ kind' = [kind EXCEPT ![c] = k]
      /\ sent' = [sent EXCEPT ![c] = cookie]
  BY DEF Send, Step
<1>2. WebTypeOK'
  <2>1. RedisTypeOK'  BY DEF RedisTypeOK, redis
  <2>2. BrowserTypeOK'  BY DEF BrowserTypeOK
  <2>3. CallsTypeOK'  BY <1>1 DEF CallsTypeOK, BrowserTypeOK
  <2> QED  BY <2>1, <2>2, <2>3
<1>3. NamedWereDrawn' /\ PastReadHasSession'
  BY <1>1 DEF CallsTypeOK, NamedWereDrawn, PastReadHasSession, redis
<1>4. WriterIsKnown' /\ SessionsKeepTheirEnd'
  BY <1>1 DEF CallsTypeOK, WriterIsKnown, SessionsKeepTheirEnd, redis
<1>5. FetchKnowsOwner' /\ FetchesAreForCookie'
  BY <1>1 DEF CallsTypeOK, FetchKnowsOwner, FetchesAreForCookie, Fetching, InFlight, redis
<1>6. ShownOrFetching'
  BY <1>1 DEF CallsTypeOK, ShownOrFetching, Fetching, InFlight, redis
<1> QED
  BY <1>2, <1>3, <1>4, <1>5, <1>6

\* The session that is drawn is nobody's yet: no cookie and no call names it.
LEMMA CreateSessionKeyInv ==
    ASSUME WebInv, NEW c \in Calls, CreateSessionKey(c) PROVE WebInv'
<1> USE DEF WebInv, WebTypeOK
<1>1. PICK i \in SessionIds :
          /\ keys[i] = "new" /\ keys' = [keys EXCEPT ![i] = "expiring"]
          /\ owner' = [owner EXCEPT ![i] = persona[c]]
          /\ callAt[c] = "create"
          /\ \/ /\ kind[c] = "rotate" /\ callAt' = [callAt EXCEPT ![c] = "done"]
                /\ kind' = [kind EXCEPT ![c] = "fetch"]
                /\ sent' = [sent EXCEPT ![c] = Nobody]
                /\ persona' = [persona EXCEPT ![c] = Nobody]
             \/ /\ kind[c] = "login" /\ callAt' = [callAt EXCEPT ![c] = "reply"]
                /\ sent' = [sent EXCEPT ![c] = i]
                /\ UNCHANGED <<kind, persona>>
          /\ UNCHANGED <<browser, writtenLate>>
  BY DEF CreateSessionKey, Finish, Step
<1>2. i # Nobody /\ i # cookie /\ \A d \in Calls : sent[d] # i
  BY <1>1, NobodyAssumption DEF NamedWereDrawn
<1>3. WebTypeOK'
  <2>1. RedisTypeOK'  BY <1>1 DEF RedisTypeOK, CallsTypeOK
  <2>2. BrowserTypeOK'  BY <1>1 DEF BrowserTypeOK, browser, shown
  <2>3. CallsTypeOK'  BY <1>1 DEF CallsTypeOK
  <2> QED  BY <2>1, <2>2, <2>3
<1>4. NamedWereDrawn'
  BY <1>1, <1>2 DEF RedisTypeOK, CallsTypeOK, NamedWereDrawn, browser
<1>5. PastReadHasSession'
  BY <1>1, <1>2 DEF CallsTypeOK, PastReadHasSession
<1>6. WriterIsKnown' /\ SessionsKeepTheirEnd'
  BY <1>1, <1>2 DEF RedisTypeOK, CallsTypeOK, WriterIsKnown, SessionsKeepTheirEnd
<1>7. FetchKnowsOwner'
  BY <1>1, <1>2 DEF RedisTypeOK, CallsTypeOK, FetchKnowsOwner
<1>8. FetchesAreForCookie'
  BY <1>1 DEF CallsTypeOK, FetchesAreForCookie, Fetching, InFlight, browser
<1>9. ShownOrFetching'
  BY <1>1, <1>2 DEF RedisTypeOK, CallsTypeOK, ShownOrFetching, Fetching, InFlight, browser, shown
<1> QED
  BY <1>3, <1>4, <1>5, <1>6, <1>7, <1>8, <1>9

\* A request goes on only with a session that is there, hence not gone.
LEMMA GetSessionInv ==
    ASSUME WebInv, NEW c \in Calls, GetSession(c) PROVE WebInv'
<1> USE DEF WebInv, WebTypeOK
<1> DEFINE found == sent[c] # Nobody /\ keys[sent[c]] \in {"expiring", "lasting"}
<1>1. /\ callAt[c] = "get" /\ UNCHANGED <<redis, browser, kind, sent>>
      /\ callAt' = [callAt EXCEPT ![c] = IF found THEN "set" ELSE "rejected"]
      /\ persona' = [persona EXCEPT ![c] = IF found THEN owner[sent[c]] ELSE @]
  BY DEF GetSession, Step
<1>2. WebTypeOK'
  <2>1. RedisTypeOK'  BY <1>1 DEF RedisTypeOK, redis
  <2>2. BrowserTypeOK'  BY <1>1 DEF BrowserTypeOK, browser, shown
  <2>3. CallsTypeOK'  BY <1>1 DEF CallsTypeOK, RedisTypeOK
  <2> QED  BY <2>1, <2>2, <2>3
<1>3. NamedWereDrawn' /\ PastReadHasSession'
  BY <1>1 DEF CallsTypeOK, NamedWereDrawn, PastReadHasSession, redis, browser
<1>4. WriterIsKnown' /\ SessionsKeepTheirEnd'
  BY <1>1 DEF CallsTypeOK, WriterIsKnown, SessionsKeepTheirEnd, redis
<1>5. FetchKnowsOwner'
  BY <1>1 DEF CallsTypeOK, FetchKnowsOwner, redis
<1>6. FetchesAreForCookie' /\ ShownOrFetching'
  BY <1>1 DEF CallsTypeOK, FetchesAreForCookie, ShownOrFetching, Fetching, InFlight,
              redis, browser, shown
<1> QED
  BY <1>2, <1>3, <1>4, <1>5, <1>6

\* What is written back without a time to live was gone before.
LEMMA WriteBackInv ==
    ASSUME WebInv, NEW c \in Calls, WriteBackKeepingTtl(c) PROVE WebInv'
<1> USE DEF WebInv, WebTypeOK
<1>1. /\ callAt[c] = "set" /\ UNCHANGED <<owner, writtenLate, browser, kind, sent, persona>>
      /\ callAt' = [callAt EXCEPT ![c] = IF kind[c] = "fetch" THEN "reply" ELSE "del"]
      /\ keys' = [keys EXCEPT ![sent[c]] = IF @ = "gone" THEN "lasting" ELSE @]
  BY DEF WriteBackKeepingTtl, Step
<1>2. sent[c] \in SessionIds
  BY <1>1 DEF PastReadHasSession, CallsTypeOK
<1>3. WebTypeOK'
  <2>1. RedisTypeOK'  BY <1>1, <1>2 DEF RedisTypeOK
  <2>2. BrowserTypeOK'  BY <1>1 DEF BrowserTypeOK, browser, shown
  <2>3. CallsTypeOK'  BY <1>1 DEF CallsTypeOK
  <2> QED  BY <2>1, <2>2, <2>3
<1>4. NamedWereDrawn' /\ PastReadHasSession'
  BY <1>1, <1>2 DEF RedisTypeOK, CallsTypeOK, NamedWereDrawn, PastReadHasSession, browser
<1>5. WriterIsKnown' /\ SessionsKeepTheirEnd'
  BY <1>1, <1>2 DEF RedisTypeOK, CallsTypeOK, WriterIsKnown, SessionsKeepTheirEnd
<1>6. FetchKnowsOwner'
  BY <1>1 DEF CallsTypeOK, FetchKnowsOwner
<1>7. FetchesAreForCookie' /\ ShownOrFetching'
  BY <1>1 DEF CallsTypeOK, FetchesAreForCookie, ShownOrFetching, Fetching, InFlight,
              browser, shown
<1> QED
  BY <1>3, <1>4, <1>5, <1>6, <1>7

\* A key that goes is noted for the requests that are about to write it.
LEMMA GoingInv ==
    ASSUME WebInv, NEW i \in SessionIds, keys[i] # "new", NEW others, Going(i, others), owner' = owner,
           \A d \in Calls : callAt'[d] = "set" =>
               d \in others /\ callAt[d] = "set" /\ sent'[d] = sent[d]
    PROVE /\ RedisTypeOK'
          /\ WriterIsKnown' /\ SessionsKeepTheirEnd'
          /\ \A j \in SessionIds : keys[j] # "new" => keys'[j] # "new"
<1> USE DEF WebInv, WebTypeOK
<1>1. /\ keys' = [keys EXCEPT ![i] = "gone"]
      /\ writtenLate \subseteq writtenLate' /\ writtenLate' \subseteq writtenLate \cup {i}
      /\ (\E d \in others : callAt[d] = "set" /\ sent[d] = i) => i \in writtenLate'
  BY DEF Going
<1>2. RedisTypeOK'
  BY <1>1 DEF RedisTypeOK
<1>3. WriterIsKnown'
  BY <1>1 DEF RedisTypeOK, CallsTypeOK, WriterIsKnown
<1>4. SessionsKeepTheirEnd'
  BY <1>1 DEF RedisTypeOK, SessionsKeepTheirEnd
<1>5. \A j \in SessionIds : keys[j] # "new" => keys'[j] # "new"
  BY <1>1 DEF RedisTypeOK
<1> QED
  BY <1>2, <1>3, <1>4, <1>5

LEMMA DestroySessionInv ==
    ASSUME WebInv, NEW c \in Calls, DestroySession(c) PROVE WebInv'
<1> USE DEF WebInv, WebTypeOK
<1>1. /\ callAt[c] = "del" /\ UNCHANGED <<owner, browser, kind, sent, persona>>
      /\ callAt' = [callAt EXCEPT ![c] = IF kind[c] = "logout" THEN "reply" ELSE "create"]
      /\ Going(sent[c], Calls \ {c})
  BY DEF DestroySession, Step
<1>2. sent[c] \in SessionIds /\ keys[sent[c]] # "new"
  BY <1>1 DEF PastReadHasSession, NamedWereDrawn, CallsTypeOK
<1>3. \A d \in Calls : callAt'[d] = "set" =>
          d \in Calls \ {c} /\ callAt[d] = "set" /\ sent'[d] = sent[d]
  BY <1>1 DEF CallsTypeOK
<1>4. /\ RedisTypeOK' /\ WriterIsKnown' /\ SessionsKeepTheirEnd'
      /\ \A j \in SessionIds : keys[j] # "new" => keys'[j] # "new"
  BY <1>1, <1>2, <1>3, GoingInv
<1>5. WebTypeOK'
  <2>1. BrowserTypeOK'  BY <1>1 DEF BrowserTypeOK, browser, shown
  <2>2. CallsTypeOK'  BY <1>1 DEF CallsTypeOK
  <2> QED  BY <1>4, <2>1, <2>2
<1>6. NamedWereDrawn' /\ PastReadHasSession'
  BY <1>1, <1>4 DEF CallsTypeOK, BrowserTypeOK, NamedWereDrawn, PastReadHasSession, browser
<1>7. FetchKnowsOwner'
  BY <1>1 DEF CallsTypeOK, FetchKnowsOwner
<1>8. FetchesAreForCookie' /\ ShownOrFetching'
  BY <1>1 DEF CallsTypeOK, FetchesAreForCookie, ShownOrFetching, Fetching, InFlight,
              browser, shown
<1> QED
  BY <1>4, <1>5, <1>6, <1>7, <1>8

LEMMA ExpireSessionInv ==
    ASSUME WebInv, NEW i \in SessionIds, ExpireSession(i) PROVE WebInv'
<1> USE DEF WebInv, WebTypeOK
<1>1. keys[i] = "expiring" /\ Going(i, Calls) /\ UNCHANGED <<owner, browser, calls>>
  BY DEF ExpireSession
<1>2. /\ RedisTypeOK' /\ WriterIsKnown' /\ SessionsKeepTheirEnd'
      /\ \A j \in SessionIds : keys[j] # "new" => keys'[j] # "new"
  BY <1>1, GoingInv DEF calls
<1>3. WebTypeOK'
  <2>1. BrowserTypeOK'  BY <1>1 DEF BrowserTypeOK, browser, shown
  <2>2. CallsTypeOK'  BY <1>1 DEF CallsTypeOK, calls
  <2> QED  BY <1>2, <2>1, <2>2
<1>4. NamedWereDrawn' /\ PastReadHasSession'
  BY <1>1, <1>2 DEF CallsTypeOK, BrowserTypeOK, NamedWereDrawn, PastReadHasSession, browser, calls
<1>5. FetchKnowsOwner' /\ FetchesAreForCookie' /\ ShownOrFetching'
  BY <1>1 DEF FetchKnowsOwner, FetchesAreForCookie, ShownOrFetching, Fetching, InFlight,
              browser, shown, calls
<1> QED
  BY <1>2, <1>3, <1>4, <1>5

LEMMA RejectInv ==
    ASSUME WebInv, NEW c \in Calls, Reject(c) PROVE WebInv'
<1> USE DEF WebInv, WebTypeOK
<1> DEFINE Answered == callAt[c] = "reply" /\ kind[c] \in {"login", "logout"}
<1>1. /\ callAt[c] \in {"create", "get", "set", "del", "reply"}
      /\ \/ callAt' = [callAt EXCEPT ![c] = "rejected"]
         \/ Answered /\ callAt' = [callAt EXCEPT ![c] = "torn"]
      /\ UNCHANGED <<redis, browser, kind, sent, persona>>
  BY DEF Reject
<1>2. WebTypeOK'
  <2>1. RedisTypeOK'  BY <1>1 DEF RedisTypeOK, redis
  <2>2. BrowserTypeOK'  BY <1>1 DEF BrowserTypeOK, browser, shown
  <2>3. CallsTypeOK'  BY <1>1 DEF CallsTypeOK
  <2> QED  BY <2>1, <2>2, <2>3
<1>3. NamedWereDrawn' /\ PastReadHasSession'
  BY <1>1 DEF CallsTypeOK, NamedWereDrawn, PastReadHasSession, redis, browser
<1>4. WriterIsKnown' /\ SessionsKeepTheirEnd' /\ FetchKnowsOwner'
  BY <1>1 DEF CallsTypeOK, WriterIsKnown, SessionsKeepTheirEnd, FetchKnowsOwner, redis
<1>5. FetchesAreForCookie' /\ ShownOrFetching'
  BY <1>1 DEF CallsTypeOK, FetchesAreForCookie, ShownOrFetching, Fetching, InFlight,
              redis, browser, shown
<1> QED
  BY <1>2, <1>3, <1>4, <1>5

LEMMA CookieExpiresInv == ASSUME WebInv, CookieExpires PROVE WebInv'
<1> USE DEF WebInv, WebTypeOK
<1>1. cookie' = Nobody /\ UNCHANGED <<redis, shown, crossed, unfetched, calls>>
  BY DEF CookieExpires
<1>2. WebTypeOK'
  <2>1. RedisTypeOK'  BY <1>1 DEF RedisTypeOK, redis
  <2>2. BrowserTypeOK'  BY <1>1 DEF BrowserTypeOK, shown
  <2>3. CallsTypeOK'  BY <1>1 DEF CallsTypeOK, calls
  <2> QED  BY <2>1, <2>2, <2>3
<1>3. NamedWereDrawn' /\ PastReadHasSession' /\ WriterIsKnown' /\ SessionsKeepTheirEnd'
  BY <1>1 DEF NamedWereDrawn, PastReadHasSession, WriterIsKnown, SessionsKeepTheirEnd, redis, calls
<1>4. FetchKnowsOwner' /\ FetchesAreForCookie' /\ ShownOrFetching'
  BY <1>1 DEF FetchKnowsOwner, FetchesAreForCookie, ShownOrFetching, redis, calls
<1> QED
  BY <1>2, <1>3, <1>4

\* A call that finishes is forgotten: it is in flight no more, and all others
\* are as they were.
LEMMA FinishFacts ==
    ASSUME CallsTypeOK, NEW c \in Calls, NEW from, Finish(c, from)
    PROVE /\ callAt[c] = from /\ CallsTypeOK'
          /\ callAt'[c] = "done" /\ kind'[c] = "fetch" /\ sent'[c] = Nobody
          /\ \A d \in Calls \ {c} : /\ callAt'[d] = callAt[d] /\ kind'[d] = kind[d]
                                   /\ sent'[d] = sent[d] /\ persona'[d] = persona[d]
  BY DEF CallsTypeOK, Finish, Step

\* What the end of a call leaves alone, whatever it shows.
LEMMA FinishInv ==
    ASSUME WebInv, NEW c \in Calls, NEW from, Finish(c, from), UNCHANGED redis,
           cookie' = cookie \/ cookie' = Nobody
    PROVE /\ RedisTypeOK' /\ CallsTypeOK'
          /\ NamedWereDrawn' /\ PastReadHasSession'
          /\ WriterIsKnown' /\ SessionsKeepTheirEnd' /\ FetchKnowsOwner'
          /\ (crossed' = crossed => FetchesAreForCookie')
<1> USE FinishFacts DEF WebInv, WebTypeOK
<1>1. RedisTypeOK' /\ CallsTypeOK'
  BY DEF RedisTypeOK, redis
<1>2. NamedWereDrawn' /\ PastReadHasSession'
  BY DEF NamedWereDrawn, PastReadHasSession, redis
<1>3. WriterIsKnown' /\ SessionsKeepTheirEnd' /\ FetchKnowsOwner'
  BY DEF WriterIsKnown, SessionsKeepTheirEnd, FetchKnowsOwner, redis
<1>4. crossed' = crossed => FetchesAreForCookie'
  BY DEF FetchesAreForCookie, Fetching, InFlight
<1> QED
  BY <1>1, <1>2, <1>3, <1>4

\* What an answered fetch shows is the owner of the session it was sent with,
\* and that is the cookie's.
LEMMA FetchAnsweredInv ==
    ASSUME WebInv, NEW c \in Calls, FetchAnswered(c) PROVE WebInv'
<1> USE DEF WebInv, WebTypeOK
<1>1. /\ kind[c] = "fetch" /\ Finish(c, "reply") /\ isLoading' = FALSE
      /\ shownUser' = persona[c] /\ shownRole' = persona[c] /\ shownWorkspace' = persona[c]
      /\ unfetched' = FALSE /\ UNCHANGED <<redis, cookie, crossed>>
  BY DEF FetchAnswered
<1>2. callAt[c] = "reply"
  BY <1>1, FinishFacts
<1>3. BrowserTypeOK'
  BY <1>1 DEF BrowserTypeOK, CallsTypeOK
<1>4. ShownOrFetching'
  <2> SUFFICES ASSUME ~crossed, cookie # Nobody PROVE shownUser' = owner'[cookie']
    BY <1>1 DEF ShownOrFetching
  <2>1. persona[c] = owner[sent[c]]
    BY <1>1, <1>2 DEF FetchKnowsOwner
  <2>2. sent[c] = cookie
    BY <1>1, <1>2 DEF FetchesAreForCookie, Fetching, InFlight
  <2> QED
    BY <1>1, <2>1, <2>2 DEF redis
<1> QED
  BY <1>1, <1>3, <1>4, FinishInv

\* A login that is answered is a fetch from then on, for its own session;
\* any other fetch in flight means that the cookie changed under it.
LEMMA LoginAnsweredInv ==
    ASSUME WebInv, NEW c \in Calls, LoginAnswered(c) PROVE WebInv'
<1> USE DEF WebInv, WebTypeOK
<1>1. /\ kind[c] = "login" /\ callAt[c] = "reply"
      /\ callAt' = [callAt EXCEPT ![c] = "get"]
      /\ kind' = [kind EXCEPT ![c] = "fetch"]
      /\ cookie' = sent[c] /\ UNCHANGED <<redis, shown, unfetched, sent, persona>>
  BY DEF LoginAnswered, Step, ChangeCookie
<1>2. crossed' = (crossed \/ \E d \in Calls \ {c} : kind[d] # "rotate" /\ InFlight(d))
  BY DEF LoginAnswered, ChangeCookie
<1>3. sent[c] \in SessionIds
  BY <1>1 DEF PastReadHasSession, CallsTypeOK
<1>4. WebTypeOK'
  <2>1. RedisTypeOK'  BY <1>1 DEF RedisTypeOK, redis
  <2>2. crossed' \in BOOLEAN  BY <1>2, Zenon
  <2>3. BrowserTypeOK'  BY <1>1, <1>3, <2>2 DEF BrowserTypeOK, shown
  <2>4. CallsTypeOK'  BY <1>1 DEF CallsTypeOK
  <2> QED  BY <2>1, <2>3, <2>4
<1>5. NamedWereDrawn' /\ PastReadHasSession'
  BY <1>1 DEF CallsTypeOK, NamedWereDrawn, PastReadHasSession, redis
<1>6. WriterIsKnown' /\ SessionsKeepTheirEnd' /\ FetchKnowsOwner'
  BY <1>1 DEF CallsTypeOK, WriterIsKnown, SessionsKeepTheirEnd, FetchKnowsOwner, redis
<1>7. FetchesAreForCookie'
  <2> SUFFICES ASSUME ~crossed', NEW d \in Calls, Fetching(d)' PROVE sent'[d] = cookie'
    BY DEF FetchesAreForCookie
  <2>1. d = c
    BY <1>1, <1>2 DEF CallsTypeOK, Fetching, InFlight
  <2> QED
    BY <1>1, <2>1
<1>8. ShownOrFetching'
  <2>1. Fetching(c)'
    BY <1>1 DEF CallsTypeOK, Fetching, InFlight
  <2> QED
    BY <2>1 DEF ShownOrFetching
<1> QED
  BY <1>4, <1>5, <1>6, <1>7, <1>8

LEMMA LogoutAnsweredInv ==
    ASSUME WebInv, NEW c \in Calls, LogoutAnswered(c) PROVE WebInv'
<1> USE DEF WebInv, WebTypeOK
<1>1. /\ Finish(c, "reply") /\ cookie' = Nobody
      /\ UNCHANGED <<redis, shownRole, isLoading, unfetched>>
      /\ shownUser' = Nobody /\ shownWorkspace' = Nobody
  BY DEF LogoutAnswered, ChangeCookie, ForgetUser
<1>2. crossed' \in BOOLEAN
  BY Zenon DEF LogoutAnswered, ChangeCookie
<1>3. BrowserTypeOK'
  BY <1>1, <1>2 DEF BrowserTypeOK
<1>4. FetchesAreForCookie' /\ ShownOrFetching'
  BY <1>1 DEF FetchesAreForCookie, ShownOrFetching
<1> QED
  BY <1>1, <1>3, <1>4, FinishInv

\* A fetch that fails shows nobody; any other call was no fetch.
LEMMA FailedInv ==
    ASSUME WebInv, NEW c \in Calls, Failed(c) PROVE WebInv'
<1> USE DEF WebInv, WebTypeOK
<1>1. Finish(c, "rejected") /\ UNCHANGED <<redis, cookie, crossed>>
  BY DEF Failed
<1>2. /\ shownUser' = Nobody \/ (kind[c] # "fetch" /\ shownUser' = shownUser)
      /\ shownWorkspace' \in {Nobody, shownWorkspace} /\ shownRole' = shownRole
      /\ shownUser' = shownUser => shownWorkspace' = shownWorkspace \/ shownUser' = Nobody
  BY DEF Failed, ForgetUser, shown
<1>3. isLoading' \in BOOLEAN
  BY Zenon DEF Failed, ForgetUser, shown, BrowserTypeOK
<1>4. unfetched' = unfetched \/ (shownUser' = Nobody /\ unfetched' = FALSE)
  BY DEF Failed
<1>5. BrowserTypeOK'
  BY <1>1, <1>2, <1>3, <1>4 DEF BrowserTypeOK
<1>6. ShownOrFetching'
  BY <1>1, <1>2, <1>4, FinishFacts DEF ShownOrFetching, Fetching, InFlight, redis
<1> QED
  BY <1>1, <1>5, <1>6, FinishInv

\* A sign-in that fails with its cookie set is on record until a fetch ends;
\* any fetch in flight means that the cookie changed under it.
LEMMA FailedTornInv ==
    ASSUME WebInv, NEW c \in Calls, FailedTorn(c) PROVE WebInv'
<1> USE DEF WebInv, WebTypeOK
<1>1. /\ Finish(c, "torn") /\ UNCHANGED redis
      /\ crossed' = (crossed \/ \E d \in Calls \ {c} : kind[d] # "rotate" /\ InFlight(d))
      /\ cookie' \in {sent[c], Nobody} /\ UNCHANGED shownRole /\ UNCHANGED isLoading
      /\ shownUser' \in {shownUser, Nobody} /\ shownWorkspace' \in {shownWorkspace, Nobody}
      /\ unfetched' \in {unfetched, TRUE}
      /\ cookie' # Nobody => unfetched' = TRUE
  BY DEF FailedTorn, ChangeCookie, ForgetUser, shown
<1>2. /\ callAt[c] = "torn" /\ CallsTypeOK' /\ callAt'[c] = "done" /\ sent'[c] = Nobody
      /\ kind'[c] = "fetch"
      /\ \A d \in Calls \ {c} : /\ callAt'[d] = callAt[d] /\ kind'[d] = kind[d]
                               /\ sent'[d] = sent[d] /\ persona'[d] = persona[d]
  BY <1>1, FinishFacts
<1>3. sent[c] \in SessionIds /\ keys[sent[c]] # "new"
  BY <1>2 DEF PastReadHasSession, CallsTypeOK, NamedWereDrawn
<1>4. WebTypeOK'
  <2>1. RedisTypeOK'  BY <1>1 DEF RedisTypeOK, redis
  <2>2. crossed' \in BOOLEAN  BY <1>1, Zenon
  <2>3. unfetched' \in BOOLEAN  BY <1>1 DEF BrowserTypeOK
  <2>4. BrowserTypeOK'  BY <1>1, <1>3, <2>2, <2>3 DEF BrowserTypeOK
  <2> QED  BY <1>2, <2>1, <2>4
<1>5. NamedWereDrawn' /\ PastReadHasSession'
  BY <1>1, <1>2, <1>3 DEF NamedWereDrawn, PastReadHasSession, redis
<1>6. WriterIsKnown' /\ SessionsKeepTheirEnd' /\ FetchKnowsOwner'
  BY <1>1, <1>2 DEF WriterIsKnown, SessionsKeepTheirEnd, FetchKnowsOwner, redis
<1>7. FetchesAreForCookie'
  <2> SUFFICES ASSUME ~crossed', NEW d \in Calls, Fetching(d)' PROVE FALSE
    BY DEF FetchesAreForCookie
  <2> QED
    BY <1>1, <1>2 DEF Fetching, InFlight
<1>8. ShownOrFetching'
  BY <1>1 DEF ShownOrFetching
<1> QED
  BY <1>4, <1>5, <1>6, <1>7, <1>8

\* The invariant of sessions and their calls is inductive.
THEOREM WebInductive == WebInv /\ [WebNext]_webVars => WebInv'
<1> SUFFICES ASSUME WebInv, [WebNext]_webVars PROVE WebInv'
    OBVIOUS
<1>1. ASSUME NEW c \in Calls, Start(c) PROVE WebInv'
  <2>1. PICK k \in {"fetch", "logout", "rotate"} : Send(c, k, "get")
    BY <1>1 DEF Start
  <2>2. UNCHANGED <<redis, cookie, crossed, unfetched, shownUser, shownRole, shownWorkspace,
                    persona, isLoading>>
    BY <1>1 DEF Start, browser, shown
  <2>3. isLoading' \in BOOLEAN
    BY <2>2 DEF WebInv, WebTypeOK, BrowserTypeOK
  <2> QED
    BY <2>1, <2>2, <2>3, SendInv
<1>2. ASSUME NEW c \in Calls, NEW p \in Personas, StartLogin(c, p) PROVE WebInv'
  <2>1. /\ Send(c, "login", "create") /\ persona' = [persona EXCEPT ![c] = p]
        /\ isLoading' = TRUE
        /\ UNCHANGED <<redis, cookie, crossed, unfetched, shownUser, shownRole, shownWorkspace>>
    BY <1>2 DEF StartLogin
  <2> QED
    BY <2>1, SendInv
<1>3. ASSUME NEW c \in Calls,
             CreateSessionKey(c) \/ GetSession(c) \/ WriteBackKeepingTtl(c) \/ DestroySession(c)
                 \/ Reject(c)
      PROVE WebInv'
  BY <1>3, CreateSessionKeyInv, GetSessionInv, WriteBackInv, DestroySessionInv, RejectInv
<1>4. ASSUME NEW c \in Calls,
             FetchAnswered(c) \/ LoginAnswered(c) \/ LogoutAnswered(c) \/ Failed(c)
                 \/ FailedTorn(c)
      PROVE WebInv'
  BY <1>4, FetchAnsweredInv, LoginAnsweredInv, LogoutAnsweredInv, FailedInv, FailedTornInv
<1>5. ASSUME NEW i \in SessionIds, ExpireSession(i) PROVE WebInv'
  BY <1>5, ExpireSessionInv
<1>6. CASE CookieExpires
  BY <1>6, CookieExpiresInv
<1>7. CASE UNCHANGED webVars
  BY <1>7 DEF WebInv, WebTypeOK, RedisTypeOK, BrowserTypeOK, CallsTypeOK, NamedWereDrawn,
              PastReadHasSession, WriterIsKnown, SessionsKeepTheirEnd, FetchKnowsOwner,
              FetchesAreForCookie, ShownOrFetching, Fetching, InFlight,
              webVars, redis, browser, shown, calls
<1> QED
  BY <1>1, <1>2, <1>3, <1>4, <1>5, <1>6, <1>7 DEF WebNext

LEMMA WebInvariance == WebSpec => []WebInv
  BY WebInitInv, WebInductive, PTL DEF WebSpec

\* A session's key, once stored without a time to live, went while a request
\* was between the read and the write of it: no number of overlapping
\* requests, rotations and logouts takes its end away otherwise.
THEOREM EndsAreKept == WebSpec => []SessionsKeepTheirEnd
  BY WebInvariance, PTL DEF WebInv

\* At rest, and unless the cookie was changed under a call, or by a sign-in that
\* failed with its cookie set and has not been followed by a fetch, the
\* application shows the owner of the session that its cookie names.
THEOREM ShownUserIsSignedIn == WebSpec => []ShownIsSignedIn
<1>1. WebInv => ShownIsSignedIn
  BY DEF WebInv, ShownOrFetching, ShownIsSignedIn, Fetching
<1> QED
  BY <1>1, WebInvariance, PTL

-----------------------------------------------------------------------------
(* Accounts                                                                *)

OneOrganization == \A o, p \in organizations : o = p

\* Every row and every handler refers to rows that are there.
ReferencesHold ==
    /\ \A w \in workspaces : w.org \in organizations
    /\ \A u \in Users : home[u] # None => home[u] \in organizations
    /\ \A m \in memberships : m.workspace \in workspaces /\ home[m.user] # None
    /\ \A a \in Actors : /\ org[a] # None => org[a] \in organizations
                         /\ place[a] # None => place[a] \in workspaces

\* Where a seeding is when it has its workspace, its users, its members.
MembersSeeded == {"rubric", "finding", "inserting", "done"}
AdminSeeded == MembersSeeded \cup {"reviewerMember"}
UsersSeeded == AdminSeeded \cup {"adminMember"}
WithAdmin == UsersSeeded \cup {"reviewer"}
WithPlace == WithAdmin \cup {"admin"}

IsMember(user, workspace) ==
    \E m \in memberships : m.user = user /\ m.workspace = workspace

Covered(d) == 1..(next[d] - 1) \subseteq scenarios \cup rejected

\* What a seeding has left behind it.
SeedingOK(d) ==
    /\ at[d] \in WithPlace \cup {"workspace"} => org[d] # None
    /\ at[d] \in WithPlace => place[d] # None
    /\ at[d] \in WithAdmin => home["admin"] # None
    /\ at[d] \in UsersSeeded => home["reviewer"] # None
    /\ at[d] \in AdminSeeded => IsMember("admin", place[d])
    /\ at[d] \in MembersSeeded => IsMember("reviewer", place[d])
    /\ at[d] \in {"finding", "inserting"} => next[d] <= ScenarioCount
    /\ at[d] = "done" => next[d] = ScenarioCount + 1
    /\ at[d] \notin {"finding", "inserting", "done", "failed"} => next[d] = 1
    /\ Covered(d)

HasRole(user, workspace, its) ==
    \E m \in memberships : m.user = user /\ m.workspace = workspace /\ m.role = its

\* What a sign-in has found or created.
SignInOK(s) ==
    /\ at[s] \in {"workspace", "opening", "creating", "callbackWorkspace"} => org[s] # None
    /\ at[s] = "creating" => place[s] # None
    /\ at[s] \in {"new", "user", "callbackUser", "joining"} => place[s] = None
    /\ at[s] \in {"joining", "session", "audit"} => org[s] = home[email[s]] /\ org[s] # None
    /\ at[s] \in {"session", "audit"} /\ place[s] # None => HasRole(email[s], place[s], role[s])

\* Who signs up is a member at once; only seeded users may have to wait.
OnlySeededWait ==
    \A u \in Users \ {"admin", "reviewer"} :
        home[u] # None => \E m \in memberships : m.user = u

IInv ==
    /\ TypeOK
    /\ OneOrganization /\ ReferencesHold
    /\ \A d \in Seedings : SeedingOK(d)
    /\ \A s \in SignIns : SignInOK(s)
    /\ SessionsAreBacked /\ \A s \in sessions : s.org # None
    /\ OnlySeededWait

-----------------------------------------------------------------------------

\* No step takes back a row, moves a user to another organization, or forgets
\* that an insert was rejected.
RowsKept ==
    /\ organizations \subseteq organizations' /\ workspaces \subseteq workspaces'
    /\ memberships \subseteq memberships'
    /\ scenarios \subseteq scenarios' /\ rejected \subseteq rejected'
    /\ \A u \in Users : home[u] # None => home'[u] = home[u]

LEMMA RowsStay == ASSUME TypeOK, [Next]_vars PROVE RowsKept
<1> USE DEF RowsKept, tables, locals, Move
<1>1. ASSUME NEW d \in Seedings, UpsertOrganization(d) PROVE RowsKept
  BY <1>1 DEF UpsertOrganization, FindOrganization, InsertOrganization
<1>2. ASSUME NEW d \in Seedings, UpsertWorkspace(d) PROVE RowsKept
  BY <1>2 DEF UpsertWorkspace, FindWorkspace, InsertWorkspace
<1>3. ASSUME NEW d \in Seedings, NEW u \in Users, NEW to, UpsertUser(d, u, to) PROVE RowsKept
  BY <1>3 DEF UpsertUser, TypeOK
<1>4. ASSUME NEW d \in Seedings, NEW u, NEW r, NEW from, NEW to, UpsertMember(d, u, r, from, to)
      PROVE RowsKept
  BY <1>4 DEF UpsertMember, AddMember
<1>5. ASSUME NEW d \in Seedings, UpsertRubricAndLab(d) \/ FindScenario(d) \/ InsertScenario(d)
      PROVE RowsKept
  BY <1>5 DEF UpsertRubricAndLab, FindScenario, InsertScenario
<1>6. ASSUME NEW d \in Seedings, Seed(d) PROVE RowsKept
  BY <1>1, <1>2, <1>3, <1>4, <1>5, <1>6 DEF Seed, Users
<1>7. ASSUME NEW s \in SignIns, FindOrCreateOrganization(s) PROVE RowsKept
  BY <1>7 DEF FindOrCreateOrganization, FindOrganization, InsertOrganization
<1>8. ASSUME NEW s \in SignIns, FindOrCreateWorkspace(s) \/ FindFirsts(s) PROVE RowsKept
  BY <1>8 DEF FindOrCreateWorkspace, FindFirsts, FindOrganization, FindWorkspace, InsertWorkspace
<1>9. ASSUME NEW s \in SignIns, CreateUser(s) PROVE RowsKept
  BY <1>9 DEF CreateUser, TypeOK
<1>10. ASSUME NEW s \in SignIns, SignIn(s) PROVE RowsKept
  BY <1>7, <1>8, <1>9, <1>10
  DEF SignIn, Arrive, FindUser, ReadMemberships, CreateSession, Answer
<1>11. ASSUME NEW a \in Actors, GiveUp(a) PROVE RowsKept
  BY <1>11 DEF GiveUp
<1>12. ASSUME NEW o, NEW slug, CreateWorkspace(o, slug) PROVE RowsKept
  BY <1>12 DEF CreateWorkspace
<1>13. CASE UNCHANGED vars
  BY <1>13 DEF vars
<1> QED
  BY <1>6, <1>10, <1>11, <1>12, <1>13 DEF Next, Actors

\* Only the handler a has moved.
OnlyMoves(a) ==
    /\ \A b \in Actors \ {a} : at'[b] = at[b] /\ org'[b] = org[b] /\ place'[b] = place[b]
    /\ \A s \in SignIns \ {a} : role'[s] = role[s]
    /\ \A d \in Seedings \ {a} : next'[d] = next[d]
    /\ email' = email

\* What the others have found stays true: all of it speaks of rows.
LEMMA OthersKeep ==
    ASSUME IInv, RowsKept, NEW a, OnlyMoves(a)
    PROVE /\ \A d \in Seedings \ {a} : SeedingOK(d)'
          /\ \A s \in SignIns \ {a} : SignInOK(s)'
<1>1. ASSUME NEW d \in Seedings \ {a} PROVE SeedingOK(d)'
  <2>1. /\ SeedingOK(d) /\ at'[d] = at[d] /\ org'[d] = org[d] /\ place'[d] = place[d]
        /\ next'[d] = next[d]
    BY DEF IInv, OnlyMoves, Actors
  <2>2. \A u, w : IsMember(u, w) => IsMember(u, w)'
    BY DEF RowsKept, IsMember
  <2>3. \A u \in {"admin", "reviewer"} : home[u] # None => home'[u] # None
    BY DEF RowsKept, Users
  <2>4. Covered(d) => Covered(d)'
    BY <2>1 DEF RowsKept, Covered
  <2> QED
    BY <2>1, <2>2, <2>3, <2>4 DEF SeedingOK, IsMember
<1>2. ASSUME NEW s \in SignIns \ {a} PROVE SignInOK(s)'
  <2>1. /\ SignInOK(s) /\ at'[s] = at[s] /\ org'[s] = org[s] /\ place'[s] = place[s]
        /\ role'[s] = role[s] /\ email'[s] = email[s]
    BY DEF IInv, OnlyMoves, Actors
  <2>2. \A u, w, r : HasRole(u, w, r) => HasRole(u, w, r)'
    BY DEF RowsKept, HasRole
  <2>3. home[email[s]] # None => home'[email[s]] = home[email[s]]
    BY DEF RowsKept, IInv, TypeOK, Users
  <2> QED
    BY <2>1, <2>2, <2>3 DEF SignInOK, HasRole
<1> QED
  BY <1>1, <1>2

\* What the sessions say stays true as well.
LEMMA SessionsKeep ==
    ASSUME IInv, RowsKept, sessions' = sessions
    PROVE SessionsAreBacked' /\ \A s \in sessions' : s.org # None
<1>1. \A s \in sessions : s.org # None /\ s.user \in Users
  BY DEF IInv, TypeOK, Users
<1> QED
  BY <1>1 DEF IInv, RowsKept, SessionsAreBacked

\* What remains to be shown of a step of one handler.
LEMMA StepOf ==
    ASSUME IInv, RowsKept, NEW a \in Actors, OnlyMoves(a), sessions' = sessions,
           TypeOK', OneOrganization', ReferencesHold', OnlySeededWait',
           a \in Seedings => SeedingOK(a)', a \in SignIns => SignInOK(a)'
    PROVE IInv'
<1>1. /\ \A d \in Seedings : SeedingOK(d)'
      /\ \A s \in SignIns : SignInOK(s)'
  BY OthersKeep
<1> QED
  BY <1>1, SessionsKeep DEF IInv

\* A handler that only reads.
LEMMA ReadingOf ==
    ASSUME IInv, NEW a \in Actors, OnlyMoves(a), UNCHANGED <<tables, rejected, sessions>>,
           TypeOK', org'[a] \in organizations \cup {None}, place'[a] \in workspaces \cup {None},
           a \in Seedings => SeedingOK(a)', a \in SignIns => SignInOK(a)'
    PROVE IInv'
<1>1. RowsKept /\ OneOrganization' /\ OnlySeededWait'
  BY DEF RowsKept, tables, IInv, OneOrganization, OnlySeededWait
<1>2. ReferencesHold'
  BY DEF tables, IInv, ReferencesHold, OnlyMoves
<1> QED
  BY <1>1, <1>2, StepOf

-----------------------------------------------------------------------------
(* Seeding.                                                                *)

LEMMA UpsertOrganizationInv ==
    ASSUME IInv, RowsKept, NEW d \in Seedings, UpsertOrganization(d) PROVE IInv'
<1> USE ActorsAssumption, NoneAssumption DEF IInv, Move
<1>1. PICK o \in Actors :
          /\ at[d] = "organization" /\ at' = [at EXCEPT ![d] = "workspace"]
          /\ org' = [org EXCEPT ![d] = o] /\ o \in organizations'
          /\ organizations' = organizations \/ (organizations = {} /\ organizations' = {d})
          /\ UNCHANGED <<workspaces, home, memberships, scenarios, rejected, sessions,
                         place, email, role, next>>
  BY DEF UpsertOrganization, FindOrganization, InsertOrganization, tables, TypeOK, Actors
<1>2. TypeOK' /\ OnlyMoves(d) /\ d \in Actors
  BY <1>1 DEF TypeOK, SeedingAt, OnlyMoves, Actors
<1>3. OneOrganization'
  BY <1>1 DEF OneOrganization
<1>4. ReferencesHold'
  BY <1>1 DEF ReferencesHold, TypeOK
<1>5. SeedingOK(d)'
  BY <1>1 DEF SeedingOK, TypeOK, Actors, WithPlace, WithAdmin, UsersSeeded, AdminSeeded,
              MembersSeeded, Covered
<1>6. OnlySeededWait'
  BY <1>1 DEF OnlySeededWait
<1> QED
  BY <1>1, <1>2, <1>3, <1>4, <1>5, <1>6, StepOf

LEMMA UpsertWorkspaceInv ==
    ASSUME IInv, RowsKept, NEW d \in Seedings, UpsertWorkspace(d) PROVE IInv'
<1> USE ActorsAssumption, NoneAssumption DEF IInv, Move
<1> DEFINE w == [org |-> org[d], slug |-> "primary-workspace"]
<1>1. /\ at[d] = "workspace" /\ at' = [at EXCEPT ![d] = "admin"]
      /\ place' = [place EXCEPT ![d] = w] /\ workspaces' = workspaces \cup {w}
      /\ UNCHANGED <<organizations, home, memberships, scenarios, rejected, sessions,
                     org, email, role, next>>
  BY DEF UpsertWorkspace, FindWorkspace, InsertWorkspace, tables
<1>2. d \in Actors /\ org[d] \in organizations /\ org[d] \in Actors
  BY <1>1 DEF SeedingOK, ReferencesHold, TypeOK, Actors
<1>3. w \in Workspaces /\ w.org = org[d] /\ w # None
  BY <1>2 DEF Workspaces, AllSlugs
<1>4. TypeOK' /\ OnlyMoves(d)
  BY <1>1, <1>2, <1>3 DEF TypeOK, SeedingAt, OnlyMoves, Actors
<1>5. OneOrganization' /\ OnlySeededWait'
  BY <1>1 DEF OneOrganization, OnlySeededWait
<1>6. ReferencesHold'
  BY <1>1, <1>2, <1>3 DEF ReferencesHold, TypeOK
<1>7. SeedingOK(d)'
  BY <1>1, <1>2, <1>3 DEF SeedingOK, TypeOK, WithPlace, WithAdmin, UsersSeeded, AdminSeeded,
              MembersSeeded, Covered
<1> QED
  BY <1>1, <1>2, <1>4, <1>5, <1>6, <1>7, StepOf

LEMMA UpsertUserInv ==
    ASSUME IInv, RowsKept, NEW d \in Seedings,
           UpsertUser(d, "admin", "reviewer") \/ UpsertUser(d, "reviewer", "adminMember")
    PROVE IInv'
<1> USE ActorsAssumption, NoneAssumption DEF IInv, Move
<1>1. PICK step \in {<<"admin", "reviewer">>, <<"reviewer", "adminMember">>} :
          UpsertUser(d, step[1], step[2])
  OBVIOUS
<1> DEFINE user == step[1]
<1>2. /\ at[d] = user /\ at' = [at EXCEPT ![d] = step[2]]
      /\ home' = [home EXCEPT ![user] = IF @ = None THEN org[d] ELSE @]
      /\ UNCHANGED <<organizations, workspaces, memberships, scenarios, rejected, sessions,
                     org, place, email, role, next>>
  BY <1>1 DEF UpsertUser, locals
<1>3. d \in Actors /\ user \in Users /\ org[d] \in organizations /\ org[d] \in Actors
  BY <1>2 DEF SeedingOK, ReferencesHold, TypeOK, Actors, Users, WithPlace, WithAdmin
<1>4. TypeOK' /\ OnlyMoves(d)
  BY <1>2, <1>3 DEF TypeOK, SeedingAt, OnlyMoves, Actors
<1>5. OneOrganization' /\ OnlySeededWait'
  BY <1>2 DEF OneOrganization, OnlySeededWait, TypeOK
<1>6. ReferencesHold'
  BY <1>2, <1>3 DEF ReferencesHold, TypeOK, RowsKept, Memberships
<1>7. home'[user] # None
  BY <1>2, <1>3 DEF TypeOK
<1>8. user = "reviewer" => home'["admin"] # None
  BY <1>2 DEF RowsKept, SeedingOK, WithAdmin, UsersSeeded, AdminSeeded, MembersSeeded, Users
<1>9. SeedingOK(d)'
  BY <1>2, <1>3, <1>7, <1>8
  DEF SeedingOK, TypeOK, WithPlace, WithAdmin, UsersSeeded, AdminSeeded, MembersSeeded, Covered
<1> QED
  BY <1>2, <1>3, <1>4, <1>5, <1>6, <1>9, StepOf

\* The workspace a seeding has found is one of the organization of the users.
LEMMA UpsertMemberInv ==
    ASSUME IInv, RowsKept, NEW d \in Seedings,
           \/ UpsertMember(d, "admin", "ADMIN", "adminMember", "reviewerMember")
           \/ UpsertMember(d, "reviewer", "REVIEWER", "reviewerMember", "rubric")
    PROVE IInv'
<1> USE ActorsAssumption, NoneAssumption DEF IInv, Move
<1>1. PICK step \in {<<"admin", "ADMIN", "adminMember", "reviewerMember">>,
                     <<"reviewer", "REVIEWER", "reviewerMember", "rubric">>} :
          UpsertMember(d, step[1], step[2], step[3], step[4])
  OBVIOUS
<1> DEFINE user == step[1]
           new == [user |-> user, workspace |-> place[d], role |-> step[2]]
<1>2. /\ at[d] = step[3] /\ at' = [at EXCEPT ![d] = step[4]]
      /\ \/ memberships' = memberships /\ IsMember(user, place[d])
         \/ memberships' = memberships \cup {new}
      /\ UNCHANGED <<organizations, workspaces, home, scenarios, rejected, sessions,
                     org, place, email, role, next>>
  BY <1>1 DEF UpsertMember, AddMember, IsMember, locals
<1>3. /\ d \in Actors /\ user \in Users /\ home[user] # None
      /\ place[d] \in workspaces /\ place[d] \in Workspaces
  BY <1>2 DEF SeedingOK, ReferencesHold, TypeOK, Actors, Users, WithPlace, WithAdmin,
              UsersSeeded, AdminSeeded
<1>4. TypeOK' /\ OnlyMoves(d)
  <2>1. new \in Memberships
    BY <1>3 DEF Memberships, AllRoles
  <2> QED
    BY <1>2, <1>3, <2>1 DEF TypeOK, SeedingAt, OnlyMoves, Actors
<1>5. OneOrganization' /\ OnlySeededWait'
  BY <1>2 DEF OneOrganization, OnlySeededWait, RowsKept
<1>6. ReferencesHold'
  BY <1>2, <1>3 DEF ReferencesHold
<1>7. IsMember(user, place[d])'
  <2>1. CASE memberships' = memberships /\ IsMember(user, place[d])
    BY <1>2, <2>1 DEF IsMember
  <2>2. CASE memberships' = memberships \cup {new}
    <3>1. new \in memberships' /\ new.user = user /\ new.workspace = place'[d]
      BY <1>2, <2>2
    <3> QED
      BY <1>2, <3>1 DEF IsMember
  <2> QED
    BY <1>2, <2>1, <2>2
<1>8. user = "reviewer" => IsMember("admin", place[d])'
  BY <1>2 DEF RowsKept, SeedingOK, AdminSeeded, IsMember
<1>9. SeedingOK(d)'
  BY <1>2, <1>3, <1>7, <1>8
  DEF SeedingOK, TypeOK, WithPlace, WithAdmin, UsersSeeded, AdminSeeded, MembersSeeded, Covered
<1> QED
  BY <1>2, <1>3, <1>4, <1>5, <1>6, <1>9, StepOf

LEMMA UpsertRubricAndLabInv ==
    ASSUME IInv, NEW d \in Seedings, UpsertRubricAndLab(d) PROVE IInv'
<1> USE ActorsAssumption, NoneAssumption DEF IInv, Move
<1>1. /\ at[d] = "rubric" /\ at' = [at EXCEPT ![d] = "finding"]
      /\ UNCHANGED <<tables, rejected, sessions, locals>>
  BY DEF UpsertRubricAndLab
<1>2. d \in Actors /\ TypeOK' /\ OnlyMoves(d)
  BY <1>1 DEF TypeOK, SeedingAt, OnlyMoves, Actors, tables, locals
<1>3. org'[d] \in organizations \cup {None} /\ place'[d] \in workspaces \cup {None}
  BY <1>1, <1>2 DEF ReferencesHold, locals
<1>4. SeedingOK(d)'
  BY <1>1, ScenarioAssumption
  DEF SeedingOK, TypeOK, WithPlace, WithAdmin, UsersSeeded, AdminSeeded, MembersSeeded, Covered,
      IsMember, Actors, tables, locals
<1> QED
  BY <1>1, <1>2, <1>3, <1>4, ReadingOf

\* The loop over the scenarios: next counts those it is done with.
LEMMA FindScenarioInv ==
    ASSUME IInv, NEW d \in Seedings, FindScenario(d) PROVE IInv'
<1> USE ActorsAssumption, NoneAssumption DEF IInv, Move
<1>1. /\ at[d] = "finding" /\ UNCHANGED <<tables, rejected, sessions, org, place, email, role>>
      /\ \/ /\ next[d] \in scenarios /\ next' = [next EXCEPT ![d] = @ + 1]
            /\ at' = [at EXCEPT ![d] = IF next[d] = ScenarioCount THEN "done" ELSE "finding"]
         \/ at' = [at EXCEPT ![d] = "inserting"] /\ next' = next
  BY DEF FindScenario, NextScenario, locals
<1>2. next[d] \in 1..ScenarioCount
  BY <1>1, ScenarioAssumption DEF SeedingOK, TypeOK
<1>3. d \in Actors /\ TypeOK' /\ OnlyMoves(d)
  <2>1. next' \in [Seedings -> 1..(ScenarioCount + 1)]
    BY <1>1, <1>2, ScenarioAssumption DEF TypeOK
  <2>2. at' \in [Actors -> SeedingAt \cup SignInAt]
    BY <1>1 DEF TypeOK, SeedingAt
  <2>3. OnlyMoves(d)
    BY <1>1 DEF TypeOK, OnlyMoves, Actors
  <2> QED
    BY <1>1, <2>1, <2>2, <2>3 DEF TypeOK, tables, Actors
<1>4. org'[d] \in organizations \cup {None} /\ place'[d] \in workspaces \cup {None}
  BY <1>1, <1>3 DEF ReferencesHold
<1>5. Covered(d)'
  BY <1>1, <1>2, ScenarioAssumption DEF SeedingOK, Covered, TypeOK, tables
<1>6. /\ at'[d] \in {"finding", "inserting", "done"}
      /\ at'[d] \in {"finding", "inserting"} => next'[d] <= ScenarioCount
      /\ at'[d] = "done" => next'[d] = ScenarioCount + 1
  BY <1>1, <1>2, <1>3, ScenarioAssumption DEF TypeOK
<1>7. SeedingOK(d)'
  BY <1>1, <1>5, <1>6
  DEF SeedingOK, WithPlace, WithAdmin, UsersSeeded, AdminSeeded, MembersSeeded, IsMember, tables
<1> QED
  BY <1>1, <1>3, <1>4, <1>7, ReadingOf

LEMMA InsertScenarioInv ==
    ASSUME IInv, RowsKept, NEW d \in Seedings, InsertScenario(d) PROVE IInv'
<1> USE ActorsAssumption, NoneAssumption DEF IInv, Move
<1>1. /\ at[d] = "inserting" /\ next' = [next EXCEPT ![d] = @ + 1]
      /\ at' = [at EXCEPT ![d] = IF next[d] = ScenarioCount THEN "done" ELSE "finding"]
      /\ \/ scenarios' = scenarios \cup {next[d]} /\ UNCHANGED rejected
         \/ rejected' = rejected \cup {next[d]} /\ UNCHANGED scenarios
      /\ UNCHANGED <<organizations, workspaces, home, memberships, sessions,
                     org, place, email, role>>
  BY DEF InsertScenario, NextScenario
<1>2. next[d] \in 1..ScenarioCount
  BY <1>1, ScenarioAssumption DEF SeedingOK, TypeOK
<1>3. d \in Actors /\ TypeOK' /\ OnlyMoves(d)
  <2>1. next' \in [Seedings -> 1..(ScenarioCount + 1)]
    BY <1>1, <1>2, ScenarioAssumption DEF TypeOK
  <2>2. at' \in [Actors -> SeedingAt \cup SignInAt]
    BY <1>1 DEF TypeOK, SeedingAt
  <2>3. scenarios' \subseteq 1..ScenarioCount /\ rejected' \subseteq 1..ScenarioCount
    BY <1>1, <1>2 DEF TypeOK
  <2>4. OnlyMoves(d)
    BY <1>1 DEF TypeOK, OnlyMoves, Actors
  <2> QED
    BY <1>1, <2>1, <2>2, <2>3, <2>4 DEF TypeOK, Actors
<1>4. OneOrganization' /\ OnlySeededWait' /\ ReferencesHold'
  BY <1>1 DEF OneOrganization, OnlySeededWait, ReferencesHold
<1>5. Covered(d)'
  BY <1>1, <1>2, ScenarioAssumption DEF SeedingOK, Covered, TypeOK
<1>6. /\ at'[d] \in {"finding", "done"}
      /\ at'[d] = "finding" => next'[d] <= ScenarioCount
      /\ at'[d] = "done" => next'[d] = ScenarioCount + 1
  BY <1>1, <1>2, <1>3, ScenarioAssumption DEF TypeOK
<1>7. SeedingOK(d)'
  BY <1>1, <1>5, <1>6
  DEF SeedingOK, WithPlace, WithAdmin, UsersSeeded, AdminSeeded, MembersSeeded, IsMember
<1> QED
  BY <1>1, <1>3, <1>4, <1>7, StepOf

-----------------------------------------------------------------------------
(* Signing in.                                                             *)

LEMMA ArriveInv == ASSUME IInv, NEW s \in SignIns, Arrive(s) PROVE IInv'
<1> USE ActorsAssumption, NoneAssumption DEF IInv, Move
<1>1. PICK to \in {"user", "callbackUser"} :
          /\ at[s] = "new" /\ at' = [at EXCEPT ![s] = to]
          /\ role' = role \/ role' = [role EXCEPT ![s] = "ENGINEER"]
          /\ UNCHANGED <<tables, rejected, sessions, org, place, email, next>>
  BY DEF Arrive
<1>2. s \in Actors /\ TypeOK' /\ OnlyMoves(s)
  <2>1. role' \in [SignIns -> AllRoles]
    BY <1>1 DEF TypeOK, AllRoles
  <2>2. at' \in [Actors -> SeedingAt \cup SignInAt]
    BY <1>1 DEF TypeOK, SignInAt
  <2>3. OnlyMoves(s)
    BY <1>1 DEF TypeOK, OnlyMoves, Actors
  <2> QED
    BY <1>1, <2>1, <2>2, <2>3 DEF TypeOK, tables, Actors
<1>3. org'[s] \in organizations \cup {None} /\ place'[s] \in workspaces \cup {None}
  BY <1>1, <1>2 DEF ReferencesHold
<1>4. SignInOK(s)'
  BY <1>1 DEF SignInOK, TypeOK, Actors
<1> QED
  BY <1>1, <1>2, <1>3, <1>4, ReadingOf

LEMMA FindUserInv ==
    ASSUME IInv, NEW s \in SignIns,
           \/ FindUser(s, "user", "organization")
           \/ FindUser(s, "callbackUser", "callbackOrganization")
    PROVE IInv'
<1> USE ActorsAssumption, NoneAssumption DEF IInv, Move
<1>1. /\ at[s] \in {"user", "callbackUser"}
      /\ org' = [org EXCEPT ![s] = home[email[s]]]
      /\ UNCHANGED <<tables, rejected, sessions, place, email, role, next>>
  BY DEF FindUser
<1>2. PICK to \in {"joining", "organization", "callbackOrganization"} :
          at' = [at EXCEPT ![s] = to] /\ (to = "joining" => home[email[s]] # None)
  BY DEF FindUser
<1>3. email[s] \in Users /\ home[email[s]] \in organizations \cup {None}
      /\ home[email[s]] \in Actors \cup {None}
  BY DEF ReferencesHold, TypeOK, Users
<1>4. s \in Actors /\ TypeOK' /\ OnlyMoves(s)
  <2>1. at' \in [Actors -> SeedingAt \cup SignInAt] /\ org' \in [Actors -> Actors \cup {None}]
    BY <1>1, <1>2, <1>3 DEF TypeOK, SignInAt
  <2>2. OnlyMoves(s)
    BY <1>1, <1>2 DEF TypeOK, OnlyMoves, Actors
  <2> QED
    BY <1>1, <2>1, <2>2 DEF TypeOK, tables, Actors
<1>5. org'[s] \in organizations \cup {None} /\ place'[s] \in workspaces \cup {None}
  BY <1>1, <1>3, <1>4 DEF ReferencesHold, TypeOK
<1>6. SignInOK(s)'
  BY <1>1, <1>2, <1>3 DEF SignInOK, TypeOK, Actors, tables
<1> QED
  BY <1>1, <1>4, <1>5, <1>6, ReadingOf

LEMMA FindOrCreateOrganizationInv ==
    ASSUME IInv, RowsKept, NEW s \in SignIns, FindOrCreateOrganization(s) PROVE IInv'
<1> USE ActorsAssumption, NoneAssumption DEF IInv, Move
<1>1. CASE UNCHANGED locals /\ at' = [at EXCEPT ![s] = "founding"]
           /\ UNCHANGED <<tables, rejected, sessions>>
  <2>1. s \in Actors /\ TypeOK' /\ OnlyMoves(s)
    BY <1>1 DEF TypeOK, SignInAt, OnlyMoves, Actors, tables, locals
  <2>2. org'[s] \in organizations \cup {None} /\ place'[s] \in workspaces \cup {None}
    BY <1>1, <2>1 DEF ReferencesHold, locals
  <2>3. SignInOK(s)'
    BY <1>1 DEF SignInOK, TypeOK, Actors, locals
  <2> QED
    BY <1>1, <2>1, <2>2, <2>3, ReadingOf
<1>2. ASSUME NEW o \in Actors, at' = [at EXCEPT ![s] = "workspace"],
             org' = [org EXCEPT ![s] = o], o \in organizations',
             organizations' = organizations \/ (organizations = {} /\ organizations' = {s}),
             UNCHANGED <<workspaces, home, memberships, scenarios, rejected, sessions,
                         place, email, role, next>>
      PROVE IInv'
  <2>1. TypeOK' /\ OnlyMoves(s) /\ s \in Actors
    BY <1>2 DEF TypeOK, SignInAt, OnlyMoves, Actors
  <2>2. OneOrganization' /\ OnlySeededWait'
    BY <1>2 DEF OneOrganization, OnlySeededWait
  <2>3. ReferencesHold'
    BY <1>2 DEF ReferencesHold, TypeOK
  <2>4. SignInOK(s)'
    BY <1>2 DEF SignInOK, TypeOK, Actors
  <2> QED
    BY <1>2, <2>1, <2>2, <2>3, <2>4, StepOf
<1>3. CASE at' = [at EXCEPT ![s] = "workspace"] /\ FindOrganization(s)
  <2>1. PICK o \in organizations : org' = [org EXCEPT ![s] = o]
    BY <1>3 DEF FindOrganization
  <2>2. o \in Actors /\ UNCHANGED <<tables, rejected, sessions, place, email, role, next>>
    BY <1>3 DEF FindOrganization, TypeOK
  <2> QED
    BY <1>2, <1>3, <2>1, <2>2 DEF tables
<1>4. CASE /\ at' = [at EXCEPT ![s] = "workspace"] /\ InsertOrganization(s)
           /\ UNCHANGED <<workspaces, home, memberships, scenarios, rejected, sessions,
                          place, email, role, next>>
  BY <1>2, <1>4 DEF InsertOrganization, Actors
<1> QED
  BY <1>1, <1>3, <1>4 DEF FindOrCreateOrganization

\* Whatever workspace is found, it belongs to the only organization.
LEMMA FindWorkspaceInv ==
    ASSUME IInv, NEW s \in SignIns, org[s] # None, at' = [at EXCEPT ![s] = "creating"],
           NEW found \in SUBSET workspaces, FindWorkspace(s, found)
    PROVE IInv'
<1> USE ActorsAssumption, NoneAssumption DEF IInv
<1>1. PICK w \in workspaces : place' = [place EXCEPT ![s] = w]
  BY DEF FindWorkspace
<1>2. w \in Workspaces /\ UNCHANGED <<tables, rejected, sessions, org, email, role, next>>
  BY DEF FindWorkspace, TypeOK
<1>3. s \in Actors /\ TypeOK' /\ OnlyMoves(s)
  BY <1>1, <1>2 DEF TypeOK, SignInAt, OnlyMoves, Actors, tables
<1>4. org'[s] \in organizations \cup {None} /\ place'[s] \in workspaces \cup {None}
  BY <1>1, <1>2, <1>3 DEF ReferencesHold, TypeOK
<1>5. SignInOK(s)'
  BY <1>1, <1>2, <1>3 DEF SignInOK, TypeOK
<1> QED
  BY <1>2, <1>3, <1>4, <1>5, ReadingOf

LEMMA FindOrCreateWorkspaceInv ==
    ASSUME IInv, RowsKept, NEW s \in SignIns, FindOrCreateWorkspace(s) PROVE IInv'
<1> USE ActorsAssumption, NoneAssumption DEF IInv, Move
<1> DEFINE its == {w \in workspaces : w.org = org[s]}
           w == [org |-> org[s], slug |-> "default-workspace"]
<1>1. CASE at[s] = "workspace" /\ at' = [at EXCEPT ![s] = "creating"] /\ FindWorkspace(s, its)
  BY <1>1, FindWorkspaceInv DEF SignInOK
<1>2. CASE at[s] = "workspace" /\ at' = [at EXCEPT ![s] = "opening"]
           /\ UNCHANGED <<tables, rejected, sessions, locals>>
  <2>1. s \in Actors /\ TypeOK' /\ OnlyMoves(s)
    BY <1>2 DEF TypeOK, SignInAt, OnlyMoves, Actors, tables, locals
  <2>2. org'[s] \in organizations \cup {None} /\ place'[s] \in workspaces \cup {None}
    BY <1>2, <2>1 DEF ReferencesHold, locals
  <2>3. SignInOK(s)'
    BY <1>2 DEF SignInOK, TypeOK, Actors, locals
  <2> QED
    BY <1>2, <2>1, <2>2, <2>3, ReadingOf
<1>3. CASE /\ at[s] = "opening" /\ at' = [at EXCEPT ![s] = "creating"] /\ InsertWorkspace(s, w)
           /\ UNCHANGED <<organizations, home, memberships, scenarios, rejected, sessions,
                          org, email, role, next>>
  <2>1. workspaces' = workspaces \cup {w} /\ place' = [place EXCEPT ![s] = w]
    BY <1>3 DEF InsertWorkspace
  <2>2. s \in Actors /\ org[s] \in organizations /\ org[s] \in Actors
    BY <1>3 DEF SignInOK, ReferencesHold, TypeOK, Actors
  <2>3. w \in Workspaces /\ w.org = org[s] /\ w # None
    BY <2>2 DEF Workspaces, AllSlugs
  <2>4. TypeOK' /\ OnlyMoves(s)
    BY <1>3, <2>1, <2>2, <2>3 DEF TypeOK, SignInAt, OnlyMoves, Actors
  <2>5. OneOrganization' /\ OnlySeededWait'
    BY <1>3 DEF OneOrganization, OnlySeededWait
  <2>6. ReferencesHold'
    BY <1>3, <2>1, <2>2, <2>3 DEF ReferencesHold, TypeOK
  <2>7. SignInOK(s)'
    BY <1>3, <2>1, <2>2, <2>3 DEF SignInOK, TypeOK
  <2> QED
    BY <1>3, <2>2, <2>4, <2>5, <2>6, <2>7, StepOf
<1> QED
  BY <1>1, <1>2, <1>3 DEF FindOrCreateWorkspace

LEMMA FindFirstsInv ==
    ASSUME IInv, NEW s \in SignIns, FindFirsts(s) PROVE IInv'
<1> USE ActorsAssumption, NoneAssumption DEF IInv, Move
<1>1. CASE at[s] = "callbackOrganization" /\ at' = [at EXCEPT ![s] = "callbackWorkspace"]
           /\ FindOrganization(s)
  <2>1. PICK o \in organizations : org' = [org EXCEPT ![s] = o]
    BY <1>1 DEF FindOrganization
  <2>2. o \in Actors /\ UNCHANGED <<tables, rejected, sessions, place, email, role, next>>
    BY <1>1 DEF FindOrganization, TypeOK
  <2>3. s \in Actors /\ TypeOK' /\ OnlyMoves(s)
    BY <1>1, <2>1, <2>2 DEF TypeOK, SignInAt, OnlyMoves, Actors, tables
  <2>4. org'[s] \in organizations \cup {None} /\ place'[s] \in workspaces \cup {None}
    BY <2>1, <2>2, <2>3 DEF ReferencesHold, TypeOK
  <2>5. SignInOK(s)'
    BY <1>1, <2>1, <2>2, <2>3 DEF SignInOK, TypeOK
  <2> QED
    BY <2>2, <2>3, <2>4, <2>5, ReadingOf
<1>2. CASE at[s] = "callbackWorkspace" /\ at' = [at EXCEPT ![s] = "creating"]
           /\ FindWorkspace(s, workspaces)
  BY <1>2, FindWorkspaceInv DEF SignInOK
<1> QED
  BY <1>1, <1>2 DEF FindFirsts

\* The workspace found and the organization found go together, since there is
\* but one organization.
LEMMA CreateUserInv ==
    ASSUME IInv, RowsKept, NEW s \in SignIns, CreateUser(s) PROVE IInv'
<1> USE ActorsAssumption, NoneAssumption DEF IInv, Move
<1> DEFINE new == [user |-> email[s], workspace |-> place[s], role |-> role[s]]
<1>1. /\ at[s] = "creating" /\ at' = [at EXCEPT ![s] = "session"]
      /\ home[email[s]] = None /\ home' = [home EXCEPT ![email[s]] = org[s]]
      /\ memberships' = memberships \cup {new}
      /\ UNCHANGED <<organizations, workspaces, scenarios, rejected, sessions,
                     org, place, email, role, next>>
  BY DEF CreateUser, locals
<1>2. /\ s \in Actors /\ email[s] \in Emails /\ email[s] \in Users
      /\ org[s] \in organizations /\ org[s] \in Actors
      /\ place[s] \in workspaces /\ place[s] \in Workspaces /\ role[s] \in AllRoles
  BY <1>1 DEF SignInOK, ReferencesHold, TypeOK, Actors, Users
<1>3. TypeOK' /\ OnlyMoves(s)
  <2>1. new \in Memberships
    BY <1>2 DEF Memberships
  <2>2. home' \in [Users -> Actors \cup {None}] /\ memberships' \subseteq Memberships
    BY <1>1, <1>2, <2>1 DEF TypeOK
  <2> QED
    BY <1>1, <2>2 DEF TypeOK, SignInAt, OnlyMoves, Actors
<1>4. home'[email[s]] = org[s] /\ org[s] # None
  BY <1>1, <1>2 DEF TypeOK
<1>5. OneOrganization'
  BY <1>1 DEF OneOrganization
<1>6. OnlySeededWait'
  <2> SUFFICES ASSUME NEW u \in Users \ {"admin", "reviewer"}, home'[u] # None
               PROVE  \E m \in memberships' : m.user = u
    BY DEF OnlySeededWait
  <2>1. CASE u = email[s]
    <3>1. new \in memberships' /\ new.user = u
      BY <1>1, <2>1
    <3> QED
      BY <3>1
  <2>2. CASE u # email[s]
    BY <1>1, <2>2 DEF OnlySeededWait, TypeOK
  <2> QED
    BY <2>1, <2>2
<1>7. ReferencesHold'
  <2>1. \A m \in memberships' : m.workspace \in workspaces' /\ home'[m.user] # None
    <3>1. \A m \in memberships : m.user \in Users
      BY DEF TypeOK, Memberships
    <3> QED
      BY <1>1, <1>2, <1>4, <3>1 DEF ReferencesHold, RowsKept
  <2>2. \A u \in Users : home'[u] # None => home'[u] \in organizations'
    BY <1>1, <1>2 DEF ReferencesHold, TypeOK
  <2> QED
    BY <1>1, <2>1, <2>2 DEF ReferencesHold
<1>8. SignInOK(s)'
  <2>1. HasRole(email[s], place[s], role[s])'
    <3>1. /\ new \in memberships' /\ new.user = email'[s]
          /\ new.workspace = place'[s] /\ new.role = role'[s]
      BY <1>1
    <3> QED
      BY <3>1 DEF HasRole
  <2> QED
    BY <1>1, <1>2, <1>4, <2>1 DEF SignInOK, TypeOK
<1> QED
  BY <1>1, <1>2, <1>3, <1>5, <1>6, <1>7, <1>8, StepOf

LEMMA ReadMembershipsInv ==
    ASSUME IInv, NEW s \in SignIns, ReadMemberships(s) PROVE IInv'
<1> USE ActorsAssumption, NoneAssumption DEF IInv, Move
<1>1. /\ at[s] = "joining" /\ at' = [at EXCEPT ![s] = "session"]
      /\ UNCHANGED <<tables, rejected, sessions, org, email, next>>
  BY DEF ReadMemberships
<1>2. \/ UNCHANGED <<place, role>>
      \/ \E m \in memberships : /\ m.user = email[s]
                               /\ place' = [place EXCEPT ![s] = m.workspace]
                               /\ role' = [role EXCEPT ![s] = m.role]
  BY DEF ReadMemberships
<1>3. s \in Actors /\ \A m \in memberships : /\ m.workspace \in Workspaces /\ m.role \in AllRoles
                                            /\ m.workspace \in workspaces
  BY DEF TypeOK, Memberships, ReferencesHold, Actors
<1>4. TypeOK' /\ OnlyMoves(s)
  <2>1. place' \in [Actors -> Workspaces \cup {None}] /\ role' \in [SignIns -> AllRoles]
    BY <1>2, <1>3 DEF TypeOK
  <2>2. at' \in [Actors -> SeedingAt \cup SignInAt]
    BY <1>1 DEF TypeOK, SignInAt
  <2>3. OnlyMoves(s)
    BY <1>1, <1>2 DEF TypeOK, OnlyMoves, Actors
  <2> QED
    BY <1>1, <2>1, <2>2, <2>3 DEF TypeOK, tables
<1>5. org'[s] \in organizations \cup {None} /\ place'[s] \in workspaces \cup {None}
  BY <1>1, <1>2, <1>3 DEF ReferencesHold, TypeOK
<1>6. SignInOK(s)'
  <2>1. place[s] = None
    BY <1>1 DEF SignInOK
  <2>2. place'[s] # None => HasRole(email[s], place[s], role[s])'
    <3> SUFFICES ASSUME place'[s] # None PROVE HasRole(email[s], place[s], role[s])'
      OBVIOUS
    <3>1. PICK m \in memberships : /\ m.user = email[s]
                                  /\ place' = [place EXCEPT ![s] = m.workspace]
                                  /\ role' = [role EXCEPT ![s] = m.role]
      BY <1>2, <2>1
    <3>2. /\ m \in memberships' /\ m.user = email'[s]
          /\ m.workspace = place'[s] /\ m.role = role'[s]
      BY <1>1, <1>3, <3>1 DEF TypeOK, tables
    <3> QED
      BY <3>2 DEF HasRole
  <2>3. org'[s] = home'[email'[s]] /\ org'[s] # None
    BY <1>1 DEF SignInOK, tables
  <2> QED
    BY <1>1, <1>3, <2>2, <2>3 DEF SignInOK, TypeOK
<1> QED
  BY <1>1, <1>3, <1>4, <1>5, <1>6, ReadingOf

LEMMA CreateSessionInv ==
    ASSUME IInv, NEW s \in SignIns, CreateSession(s) PROVE IInv'
<1> USE ActorsAssumption, NoneAssumption DEF IInv, Move
<1> DEFINE new == [of |-> s, user |-> email[s], org |-> org[s],
                   workspace |-> place[s], role |-> role[s]]
<1>1. /\ at[s] = "session" /\ at' = [at EXCEPT ![s] = "audit"]
      /\ sessions' = sessions \cup {new} /\ UNCHANGED <<tables, rejected, locals>>
  BY DEF CreateSession
<1>2. s \in Actors /\ new.org # None /\ new.org = home[new.user]
      /\ (new.workspace # None => HasRole(new.user, new.workspace, new.role))
  BY <1>1 DEF SignInOK, Actors
<1>3. TypeOK' /\ OnlyMoves(s)
  <2>1. new \in [of : SignIns, user : Emails, org : Actors \cup {None},
                 workspace : Workspaces \cup {None}, role : AllRoles]
    BY <1>2 DEF TypeOK
  <2> QED
    BY <1>1, <2>1 DEF TypeOK, SignInAt, OnlyMoves, Actors, tables, locals
<1>4. RowsKept /\ OneOrganization' /\ ReferencesHold' /\ OnlySeededWait'
  BY <1>1 DEF RowsKept, OneOrganization, ReferencesHold, OnlySeededWait, tables, locals
<1>5. SessionsAreBacked' /\ \A t \in sessions' : t.org # None
  BY <1>1, <1>2 DEF SessionsAreBacked, HasRole, tables
<1>6. SignInOK(s)'
  BY <1>1, <1>2 DEF SignInOK, TypeOK, HasRole, tables, locals
<1> QED
  BY <1>3, <1>4, <1>5, <1>6, OthersKeep

LEMMA AnswerInv == ASSUME IInv, NEW s \in SignIns, Answer(s) PROVE IInv'
<1> USE ActorsAssumption, NoneAssumption DEF IInv, Move
<1>1. at' = [at EXCEPT ![s] = "done"] /\ UNCHANGED <<tables, rejected, sessions, locals>>
  BY DEF Answer
<1>2. s \in Actors /\ TypeOK' /\ OnlyMoves(s)
  BY <1>1 DEF TypeOK, SignInAt, OnlyMoves, Actors, tables, locals
<1>3. org'[s] \in organizations \cup {None} /\ place'[s] \in workspaces \cup {None}
  BY <1>1, <1>2 DEF ReferencesHold, locals
<1>4. SignInOK(s)'
  BY <1>1, <1>2 DEF SignInOK, TypeOK
<1> QED
  BY <1>1, <1>2, <1>3, <1>4, ReadingOf

-----------------------------------------------------------------------------
(* All steps.                                                              *)

LEMMA GiveUpInv == ASSUME IInv, NEW a \in Actors, GiveUp(a) PROVE IInv'
<1> USE ActorsAssumption, NoneAssumption DEF IInv
<1>1. /\ at' = [at EXCEPT ![a] = "failed"] /\ org' = [org EXCEPT ![a] = None]
      /\ place' = [place EXCEPT ![a] = None]
      /\ UNCHANGED <<tables, rejected, sessions, email, role, next>>
  BY DEF GiveUp
<1>2. TypeOK' /\ OnlyMoves(a)
  BY <1>1 DEF TypeOK, SignInAt, OnlyMoves, Actors, tables
<1>3. org'[a] = None /\ place'[a] = None /\ at'[a] = "failed"
  BY <1>1 DEF TypeOK
<1>4. a \in Seedings => SeedingOK(a)'
  BY <1>1, <1>3 DEF SeedingOK, WithPlace, WithAdmin, UsersSeeded, AdminSeeded, MembersSeeded,
                    Covered, tables
<1>5. a \in SignIns => SignInOK(a)'
  BY <1>3 DEF SignInOK
<1> QED
  BY <1>1, <1>2, <1>3, <1>4, <1>5, ReadingOf

LEMMA CreateWorkspaceInv ==
    ASSUME IInv, RowsKept, NEW o \in organizations, NEW slug \in Slugs, CreateWorkspace(o, slug)
    PROVE IInv'
<1> USE ActorsAssumption, NoneAssumption DEF IInv
<1> DEFINE w == [org |-> o, slug |-> slug]
<1>1. /\ workspaces' = workspaces \cup {w}
      /\ UNCHANGED <<organizations, home, memberships, scenarios, rejected, sessions, at,
                     org, place, email, role, next>>
  BY DEF CreateWorkspace, locals
<1>2. w \in Workspaces /\ w.org = o
  BY DEF Workspaces, AllSlugs, TypeOK
<1>3. TypeOK'
  BY <1>1, <1>2 DEF TypeOK
<1>4. OneOrganization' /\ OnlySeededWait' /\ ReferencesHold'
  BY <1>1, <1>2 DEF OneOrganization, OnlySeededWait, ReferencesHold
<1>5. OnlyMoves(None) /\ None \notin Seedings \cup SignIns
  BY <1>1 DEF OnlyMoves, Actors
<1>6. (\A d \in Seedings : SeedingOK(d)') /\ (\A s \in SignIns : SignInOK(s)')
  BY <1>5, OthersKeep
<1> QED
  BY <1>1, <1>3, <1>4, <1>6, SessionsKeep

LEMMA InitInv == Init => IInv
<1> SUFFICES ASSUME Init PROVE IInv
    OBVIOUS
<1> USE ActorsAssumption, ScenarioAssumption DEF Init
<1>1. TypeOK
  BY DEF TypeOK, SeedingAt, SignInAt, AllRoles
<1>2. OneOrganization /\ ReferencesHold /\ SessionsAreBacked /\ OnlySeededWait
  BY DEF OneOrganization, ReferencesHold, SessionsAreBacked, OnlySeededWait
<1>3. ASSUME NEW d \in Seedings PROVE SeedingOK(d)
  BY DEF SeedingOK, WithPlace, WithAdmin, UsersSeeded, AdminSeeded, MembersSeeded, Covered, Actors
<1>4. ASSUME NEW s \in SignIns PROVE SignInOK(s)
  BY DEF SignInOK, Actors
<1> QED
  BY <1>1, <1>2, <1>3, <1>4 DEF IInv

\* The invariant of accounts is inductive.
THEOREM Inductive == IInv /\ [Next]_vars => IInv'
<1> SUFFICES ASSUME IInv, [Next]_vars PROVE IInv'
    OBVIOUS
<1>1. RowsKept
  BY RowsStay DEF IInv
<1>2. ASSUME NEW d \in Seedings, Seed(d) PROVE IInv'
  BY <1>1, <1>2, UpsertOrganizationInv, UpsertWorkspaceInv, UpsertUserInv, UpsertMemberInv,
     UpsertRubricAndLabInv, FindScenarioInv, InsertScenarioInv DEF Seed
<1>3. ASSUME NEW s \in SignIns, SignIn(s) PROVE IInv'
  BY <1>1, <1>3, ArriveInv, FindUserInv, FindOrCreateOrganizationInv, FindOrCreateWorkspaceInv,
     FindFirstsInv, CreateUserInv, ReadMembershipsInv, CreateSessionInv, AnswerInv DEF SignIn
<1>4. ASSUME NEW a \in Actors, GiveUp(a) PROVE IInv'
  BY <1>4, GiveUpInv
<1>5. ASSUME NEW o \in organizations, NEW slug \in Slugs, CreateWorkspace(o, slug) PROVE IInv'
  BY <1>1, <1>5, CreateWorkspaceInv
<1>6. CASE UNCHANGED vars
  BY <1>6 DEF vars, tables, locals, IInv, TypeOK, OneOrganization, ReferencesHold, SeedingOK, SignInOK,
              SessionsAreBacked, OnlySeededWait, IsMember, HasRole, Covered
<1> QED
  BY <1>2, <1>3, <1>4, <1>5, <1>6 DEF Next, Actors

LEMMA Invariance == Spec => []IInv
  BY InitInv, Inductive, PTL DEF Spec

-----------------------------------------------------------------------------
(* What follows.                                                           *)

\* No user is a member of a workspace of another organization: there is one
\* organization, however sign-ins and seedings overlap.
THEOREM MembersStayHome == Spec => []MembersAreAtHome
<1>1. IInv => MembersAreAtHome
  <2> SUFFICES ASSUME IInv, NEW m \in memberships
               PROVE  home[m.user] # None /\ m.workspace.org = home[m.user]
    BY DEF MembersAreAtHome
  <2>1. m.user \in Users /\ m.workspace \in workspaces /\ home[m.user] # None
    BY DEF IInv, TypeOK, Memberships, ReferencesHold
  <2>2. m.workspace.org \in organizations /\ home[m.user] \in organizations
    BY <2>1 DEF IInv, ReferencesHold
  <2> QED
    BY <2>1, <2>2 DEF IInv, OneOrganization
<1> QED
  BY <1>1, Invariance, PTL

\* A session's organization, workspace and role are those of rows.
THEOREM SessionsHaveRows == Spec => []SessionsAreBacked
  BY Invariance, PTL DEF IInv

\* A seeding that reports success leaves its workspace, both users as members
\* of it, and every scenario whose insert was not rejected.
THEOREM SuccessHolds == Spec => []SuccessIsComplete
<1>1. IInv => SuccessIsComplete
  <2> SUFFICES ASSUME IInv, NEW d \in Seedings, at[d] = "done"
               PROVE  /\ place[d] \in workspaces
                      /\ \A user \in {"admin", "reviewer"} : IsMember(user, place[d])
                      /\ 1..ScenarioCount \subseteq scenarios \cup rejected
    BY DEF SuccessIsComplete, IsMember
  <2>1. SeedingOK(d) /\ d \in Actors
    BY DEF IInv, Actors
  <2>2. place[d] \in workspaces
    BY <2>1 DEF SeedingOK, IInv, ReferencesHold, WithPlace, WithAdmin, UsersSeeded, AdminSeeded,
                MembersSeeded
  <2>3. IsMember("admin", place[d]) /\ IsMember("reviewer", place[d])
    BY <2>1 DEF SeedingOK, AdminSeeded, MembersSeeded
  <2>4. next[d] - 1 = ScenarioCount
    BY <2>1, ScenarioAssumption DEF SeedingOK
  <2> QED
    BY <2>1, <2>2, <2>3, <2>4 DEF SeedingOK, Covered
<1> QED
  BY <1>1, Invariance, PTL

\* Once one seeding has succeeded, no user is left without a membership, not
\* even one whom an earlier seeding left behind when it failed.
THEOREM SeedingRepairs == Spec => []SeedingHeals
<1>1. IInv => SeedingHeals
  <2> SUFFICES ASSUME IInv, NEW d \in Seedings, at[d] = "done", NEW u \in Users, home[u] # None
               PROVE  \E m \in memberships : m.user = u
    BY DEF SeedingHeals
  <2>1. CASE u \in {"admin", "reviewer"}
    <3>1. IsMember("admin", place[d]) /\ IsMember("reviewer", place[d])
      BY DEF IInv, SeedingOK, AdminSeeded, MembersSeeded
    <3> QED
      BY <2>1, <3>1 DEF IsMember
  <2>2. CASE u \notin {"admin", "reviewer"}
    BY <2>2 DEF IInv, OnlySeededWait
  <2> QED
    BY <2>1, <2>2
<1> QED
  BY <1>1, Invariance, PTL

\* Side by side, accounts and sessions are what each is by itself: a step of
\* one leaves the variables of the other alone.
LEMMA SideBySide == MCSpec => Spec /\ WebSpec
<1>1. MCInit => Init /\ WebInit
  BY DEF MCInit
<1>2. [MCNext]_<<part, vars, webVars>> => [Next]_vars /\ [WebNext]_webVars
  BY DEF MCNext
<1> QED
  BY <1>1, <1>2, PTL DEF MCSpec, Spec, WebSpec

\* Rows, handlers, keys and calls keep their types; no loop of a seeding ever
\* counts beyond the last scenario.
THEOREM AccountsTyping == MCSpec => []MCTypeOK
<1>1. Spec => []TypeOK
  BY Invariance, PTL DEF IInv
<1>2. WebSpec => []WebTypeOK
  BY WebInvariance, PTL DEF WebInv
<1> QED
  BY <1>1, <1>2, SideBySide, PTL DEF MCTypeOK

=============================================================================
