------------------------------ MODULE Sessions ------------------------------
(* The sessions of the web server: the in-memory store and its middleware,    *)
(* the handlers of the login page, and the browsers, each with the cookie it  *)
(* was last sent and the CSRF token that apiFetch has cached, fetches where   *)
(* it has none, and fetches anew, once, for a call that is refused for its    *)
(* token.  Calls of a browser overlap, a login changes the ID of a session    *)
(* that others are using, and sessions expire, are collected, and are gone    *)
(* when the server restarts.                                                  *)
EXTENDS Integers, FiniteSets

CONSTANTS Browsers,
          Orderly,     \* those that wait for one answer before the next call
          MaxCalls,    \* bound on the calls
          MaxSessions  \* bound on the sessions, and on the IDs

Slots == 1..2
Calls == Browsers \X Slots

SessionsConstants ==
    Orderly \subseteq Browsers /\ MaxCalls \in Nat /\ MaxSessions \in Nat

VARIABLES made,    \* sessions so far
          ids,     \* IDs so far
          idOf,    \* Session.id
          authed,  \* the sessions with "authenticated"
          over,    \* the sessions too old, or of a server that is gone
          store,   \* InMemorySessionStore.sessions: <<ID, session>> pairs
          at, kind, \* where the request of each call is, and what it asks for
          sess,    \* the session of its context
          ident,   \* the ID it came with, and then those Migrate has in hand
          job,     \* what the call is for; it may take several requests
          token,   \* its X-CSRF-Token, as the session it is of
          stale,   \* the one it was refused with
          cookie, page, \* each browser's cookie, and the session of csrfToken
          login,   \* the session it was told it is logged in to
          callsLeft

memory == <<made, ids, idOf, authed, store>>
call == <<at, kind, sess, ident>>
fetching == <<job, token, stale>>
browser == <<cookie, page, login>>
sessionVars == <<memory, over, call, fetching, browser, callsLeft>>

None == 0
SessionIDs == 1..MaxSessions
NoIdent == [old |-> None, new |-> None]

SessionInit == /\ made = 0 /\ ids = 0
               /\ idOf = [s \in SessionIDs |-> None]
               /\ authed = {} /\ over = {} /\ store = {}
               /\ at = [c \in Calls |-> "idle"]
               /\ kind = [c \in Calls |-> "page"]
               /\ sess = [c \in Calls |-> None]
               /\ ident = [c \in Calls |-> NoIdent]
               /\ job = [c \in Calls |-> "none"]
               /\ token = [c \in Calls |-> None] /\ stale = [c \in Calls |-> None]
               /\ cookie = [b \in Browsers |-> None]
               /\ page = [b \in Browsers |-> None]
               /\ login = [b \in Browsers |-> None]
               /\ callsLeft \in 0..MaxCalls

Enter(c, p) == at' = [at EXCEPT ![c] = p]
Stored(i) == {s \in SessionIDs : <<i, s>> \in store}
Idle(b) == \A n \in Slots : at[<<b, n>>] = "idle"

-----------------------------------------------------------------------------
(* The browsers *)

\* A request; without a token, one that changes something has to get it first.
Request(c, j, t) ==
    /\ kind' = [kind EXCEPT ![c] = IF j # "page" /\ t = None THEN "csrf" ELSE j]
    /\ ident' = [ident EXCEPT ![c] = [old |-> cookie[c[1]], new |-> None]]
    /\ Enter(c, "start")
    /\ UNCHANGED <<memory, over, sess, stale, browser>>

Free(c) == at[c] = "idle" /\ job[c] = "none"

\* apiFetch: a call takes the first free slot.
apiFetch(c) ==
    /\ Free(c) /\ callsLeft > 0
    /\ \A n \in Slots : n < c[2] => ~ Free(<<c[1], n>>)
    /\ c[1] \in Orderly => \A n \in Slots : Free(<<c[1], n>>)
    /\ \E j \in {"page", "login", "logout", "save"} :
          /\ job' = [job EXCEPT ![c] = j]
          /\ token' = [token EXCEPT ![c] = IF j = "page" THEN None ELSE page[c[1]]]
          /\ Request(c, j, token'[c])
    /\ callsLeft' = callsLeft - 1

\* send, for a call that has got its token or has dropped one.
Send(c) ==
    /\ at[c] = "idle" /\ job[c] # "none"
    /\ Request(c, job[c], token[c])
    /\ UNCHANGED <<job, token, callsLeft>>

Arrived(c) ==
    /\ cookie' = [cookie EXCEPT ![c[1]] = ident[c].new]
    /\ Enter(c, "idle")
    /\ kind' = [kind EXCEPT ![c] = "page"]
    /\ sess' = [sess EXCEPT ![c] = None] /\ ident' = [ident EXCEPT ![c] = NoIdent]
    /\ UNCHANGED <<memory, over, callsLeft>>

\* ensureCSRF: the token arrives, for this call and for those to come.
ensureCSRF(c) ==
    /\ at[c] = "ok" /\ kind[c] = "csrf"
    /\ page' = [page EXCEPT ![c[1]] = sess[c]]
    /\ token' = [token EXCEPT ![c] = sess[c]]
    /\ Arrived(c)
    /\ UNCHANGED <<job, stale, login>>

\* Broken variant: csrfToken is not dropped, so the call gets the same one again.
Retry_KeepsToken(c) ==
    /\ at[c] = "mismatch" /\ stale[c] = None
    /\ stale' = [stale EXCEPT ![c] = token[c]]
    /\ Arrived(c)
    /\ UNCHANGED <<job, token, page, login>>

\* The first 403 of a call, which no other handler answers: the token is dropped.
Retry(c) ==
    /\ at[c] = "mismatch" /\ stale[c] = None
    /\ page' = [page EXCEPT ![c[1]] = None]
    /\ token' = [token EXCEPT ![c] = None]
    /\ stale' = [stale EXCEPT ![c] = token[c]]
    /\ Arrived(c)
    /\ UNCHANGED <<job, login>>

\* The answer, whatever it is, that apiFetch returns.
Receive(c) ==
    LET b == c[1]
    IN /\ at[c] \in {"ok", "refused"} \/ (at[c] = "mismatch" /\ stale[c] # None)
       /\ kind[c] # "csrf"
       /\ login' = [login EXCEPT ![b] = IF at[c] = "ok" /\ kind[c] = "login" THEN sess[c]
                                        ELSE IF at[c] = "ok" /\ kind[c] = "logout" THEN None
                                        ELSE @]
       /\ job' = [job EXCEPT ![c] = "none"]
       /\ token' = [token EXCEPT ![c] = None] /\ stale' = [stale EXCEPT ![c] = None]
       /\ Arrived(c)
       /\ UNCHANGED page

\* The page is loaded anew.
Reload(b) ==
    /\ \A n \in Slots : Free(<<b, n>>)
    /\ page' = [page EXCEPT ![b] = None]
    /\ UNCHANGED <<memory, over, call, fetching, cookie, login, callsLeft>>

-----------------------------------------------------------------------------
(* The middleware *)

\* validate destroys a session that is too old, by the ID it has now.
Valid(c) == Stored(ident[c].old) \ over

start(c) ==
    /\ at[c] = "start" /\ Valid(c) # {}
    /\ \E s \in Valid(c) : sess' = [sess EXCEPT ![c] = s]
    /\ Enter(c, "handle")
    /\ UNCHANGED <<memory, over, kind, ident, fetching, browser, callsLeft>>

startNew(c) ==
    /\ at[c] = "start" /\ Valid(c) = {}
    /\ made < MaxSessions /\ ids < MaxSessions
    /\ made' = made + 1 /\ ids' = ids + 1
    /\ idOf' = [idOf EXCEPT ![made'] = ids']
    /\ store' = {e \in store : \A s \in Stored(ident[c].old) : e[1] # idOf[s]} \cup {<<ids', made'>>}
    /\ sess' = [sess EXCEPT ![c] = made']
    /\ Enter(c, "handle")
    /\ UNCHANGED <<authed, over, kind, ident, fetching, browser, callsLeft>>

\* Broken variant: the cookie is the ID the call came with.
Answer_AsItCame(c, result) ==
    /\ ident' = [ident EXCEPT ![c] = [old |-> None, new |-> IF ident[c].old = None THEN idOf[sess[c]] ELSE ident[c].old]]
    /\ Enter(c, result)

\* writeCookieIfNecessary: the ID the session has when the answer is written.
Answer(c, result) ==
    /\ ident' = [ident EXCEPT ![c] = [old |-> None, new |-> idOf[sess[c]]]]
    /\ Enter(c, result)

\* Handle's check of the token; a login needs none.
CSRF(c) == kind[c] \in {"save", "logout"} => token[c] = sess[c]

Mismatch(c) ==
    /\ at[c] = "handle" /\ ~ CSRF(c)
    /\ Answer(c, "mismatch")
    /\ UNCHANGED <<memory, over, kind, sess, fetching, browser, callsLeft>>

-----------------------------------------------------------------------------
(* The handlers *)

HandleCSRF(c) ==
    /\ at[c] = "handle" /\ kind[c] = "csrf"
    /\ Answer(c, "ok")
    /\ UNCHANGED <<memory, over, kind, sess, fetching, browser, callsLeft>>

\* RequireAuth, and the pages and saves behind it.
RequireAuth(c) ==
    /\ at[c] = "handle" /\ kind[c] \in {"page", "save", "logout"} /\ CSRF(c)
    /\ kind[c] = "logout" => sess[c] \notin authed
    /\ Answer(c, IF sess[c] \in authed THEN "ok" ELSE "refused")
    /\ UNCHANGED <<memory, over, kind, sess, fetching, browser, callsLeft>>

HandleLogout(c) ==
    /\ at[c] = "handle" /\ kind[c] = "logout" /\ CSRF(c) /\ sess[c] \in authed
    /\ authed' = authed \ {sess[c]}
    /\ Answer(c, "ok")
    /\ UNCHANGED <<made, ids, idOf, over, store, kind, sess, fetching, browser, callsLeft>>

WrongCreds(c) ==
    /\ at[c] = "handle" /\ kind[c] = "login"
    /\ Answer(c, "refused")
    /\ UNCHANGED <<memory, over, kind, sess, fetching, browser, callsLeft>>

\* Broken variant: the login gets a new session, with a token of its own.
HandleLogin_NewSession(c) ==
    /\ at[c] = "handle" /\ kind[c] = "login" /\ ids < MaxSessions /\ made < MaxSessions
    /\ made' = made + 1 /\ ids' = ids + 1
    /\ authed' = authed \cup {made'}
    /\ idOf' = [idOf EXCEPT ![made'] = ids']
    /\ ident' = [ident EXCEPT ![c] = [old |-> idOf[sess[c]], new |-> ids']]
    /\ sess' = [sess EXCEPT ![c] = made']
    /\ Enter(c, "destroy")
    /\ UNCHANGED <<over, store, kind, fetching, browser, callsLeft>>

\* HandleLogin, and Migrate under the session's mutex.
HandleLogin(c) ==
    /\ at[c] = "handle" /\ kind[c] = "login" /\ ids < MaxSessions
    /\ authed' = authed \cup {sess[c]}
    /\ ids' = ids + 1
    /\ idOf' = [idOf EXCEPT ![sess[c]] = ids']
    /\ ident' = [ident EXCEPT ![c] = [old |-> idOf[sess[c]], new |-> ids']]
    /\ Enter(c, "destroy")
    /\ UNCHANGED <<made, over, store, kind, sess, fetching, browser, callsLeft>>

\* Broken variant: the ID to destroy is looked up once more.
destroy_Current(c) ==
    /\ at[c] = "destroy"
    /\ store' = {e \in store : e[1] # idOf[sess[c]]}
    /\ Enter(c, "write")
    /\ UNCHANGED <<made, ids, idOf, authed, over, kind, sess, ident, fetching, browser, callsLeft>>

destroy(c) ==
    /\ at[c] = "destroy"
    /\ store' = {e \in store : e[1] # ident[c].old}
    /\ Enter(c, "write")
    /\ UNCHANGED <<made, ids, idOf, authed, over, kind, sess, ident, fetching, browser, callsLeft>>

writeWithID(c) ==
    /\ at[c] = "write"
    /\ store' = {e \in store : e[1] # ident[c].new} \cup {<<ident[c].new, sess[c]>>}
    /\ Enter(c, "migrated")
    /\ UNCHANGED <<made, ids, idOf, authed, over, kind, sess, ident, fetching, browser, callsLeft>>

LoggedIn(c) ==
    /\ at[c] = "migrated"
    /\ Answer(c, "ok")
    /\ UNCHANGED <<memory, over, kind, sess, fetching, browser, callsLeft>>

-----------------------------------------------------------------------------
(* Time, and the end of the server *)

Expire(s) ==
    /\ s <= made /\ s \notin over
    /\ over' = over \cup {s}
    /\ UNCHANGED <<memory, call, fetching, browser, callsLeft>>

gc ==
    /\ store' = {e \in store : e[2] \notin over}
    /\ UNCHANGED <<made, ids, idOf, authed, over, call, fetching, browser, callsLeft>>

\* The sessions are gone, and the requests under way get no answer.
Lost ==
    LET Waiting(f, none) == [c \in Calls |-> IF at[c] = "idle" THEN f[c] ELSE none]
    IN /\ store' = {} /\ over' = 1..made
       /\ at' = [c \in Calls |-> "idle"] /\ kind' = [c \in Calls |-> "page"]
       /\ sess' = [c \in Calls |-> None] /\ ident' = [c \in Calls |-> NoIdent]
       /\ job' = Waiting(job, "none")
       /\ token' = Waiting(token, None) /\ stale' = Waiting(stale, None)
       /\ UNCHANGED <<made, ids, idOf, authed, browser, callsLeft>>

ServeCall ==
    \/ \E c \in Calls : \/ apiFetch(c) \/ Send(c) \/ ensureCSRF(c) \/ Retry(c) \/ Receive(c)
                        \/ start(c) \/ startNew(c) \/ Mismatch(c)
                        \/ HandleCSRF(c) \/ RequireAuth(c) \/ HandleLogout(c) \/ WrongCreds(c)
                        \/ HandleLogin(c) \/ destroy(c) \/ writeWithID(c) \/ LoggedIn(c)
    \/ \E b \in Browsers : Reload(b)
    \/ \E s \in SessionIDs : Expire(s)
    \/ gc

SessionNext == ServeCall \/ Lost

SessionSpec == SessionInit /\ [][SessionNext]_sessionVars
-----------------------------------------------------------------------------
(* Properties *)

\* The store, the calls and the browsers.
SessionsOK ==
    /\ made \in 0..MaxSessions /\ ids \in 0..MaxSessions /\ callsLeft \in Nat
    /\ idOf \in [SessionIDs -> 0..ids]
    /\ authed \subseteq 1..made /\ over \subseteq 1..made
    /\ store \subseteq (1..ids) \X (1..made)
    /\ at \in [Calls -> {"idle", "start", "handle", "destroy", "write", "migrated",
                        "ok", "refused", "mismatch"}]
    /\ kind \in [Calls -> {"csrf", "page", "login", "logout", "save"}]
    /\ job \in [Calls -> {"none", "page", "login", "logout", "save"}]
    /\ sess \in [Calls -> 0..made]
    /\ token \in [Calls -> 0..made] /\ stale \in [Calls -> 0..made]
    /\ ident \in [Calls -> [old : 0..ids, new : 0..ids]]
    /\ cookie \in [Browsers -> 0..ids]
    /\ page \in [Browsers -> 0..made] /\ login \in [Browsers -> 0..made]

Live == 1..made \ over
Migrating(s) == \E c \in Calls : sess[c] = s /\ at[c] \in {"destroy", "write"}

\* Migrate: however logins of one session interleave, with each other and with
\* the answers that write its ID into cookies, the session can be found again
\* under the ID it has.
FoundUnderItsID == \A s \in Live : Migrating(s) \/ <<idOf[s], s>> \in store

\* Who was told it is logged in, and waits for its answers, is, until it logs out
\* or the session is over.
LoginSticks ==
    \A b \in Orderly : Idle(b) /\ login[b] \in Live =>
        login[b] \in authed /\ Stored(cookie[b]) = {login[b]}

\* The token of a page is good for its next request, also after the login has
\* changed the session's ID, as long as the session lives.
TokenStaysGood == \A b \in Orderly : Idle(b) /\ page[b] \in Live => Stored(cookie[b]) = {page[b]}

\* "The cached token goes stale when the backend restarts or the session expires
\* (sessions are in-memory): drop it, fetch a fresh one, and retry the request once
\* instead of failing every button until reload" (api.js:28): a token is refused
\* only when its session is over, and a call is never refused the same one twice.
StaleMeansOver ==
    \A c \in Calls : c[1] \in Orderly /\ at[c] = "mismatch" =>
        token[c] \notin Live /\ token[c] # stale[c]
=============================================================================
