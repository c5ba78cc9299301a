------------------------------- MODULE Sessions -------------------------------
(***************************************************************************)
(* Sessions: SessionStore, AuthMiddleware and the states of AuthManager of *)
(* app/auth.py, the handlers of app/api/auth_routes.py, and the browsers.  *)
(*                                                                         *)
(* A browser has several requests under way.  Each carries the cookie of   *)
(* the time it was sent, waits for its body, a worker thread or the        *)
(* password check once the middleware has let it in, and changes the       *)
(* browser's cookie when its answer comes in, in whatever order.  A token  *)
(* is the number of its session, so the order of the store is the order of *)
(* the numbers; the session's CSRF token goes by the same number.          *)
(***************************************************************************)
EXTENDS Integers, Sequences, FiniteSets

CONSTANTS
  Browsers,
  Requests,      \* bound: requests under way at one time
  Ttl,           \* BRISA_SESSION_TTL_SECONDS
  MaxSessions,   \* MAX_SESSIONS
  MaxTokens,     \* bound: logins
  MaxTime,       \* bound: the clock
  None, Keep, Clear

ASSUME LimitsAssumption == {Ttl, MaxSessions, MaxTokens, MaxTime} \subseteq Nat \ {0}
ASSUME SentinelsAssumption ==
  {None, Keep, Clear} \cap Nat = {} /\ None \notin {Keep, Clear} /\ Keep # Clear

VARIABLES
  now,
  mode,       \* AuthManager.state
  sessions,   \* SessionStore._sessions
  expiry,     \* when the n-th session expires (expires_at_monotonic)
  requests,
  jar,        \* the session cookie of each browser
  csrf,       \* the CSRF token that each browser's page has learnt
  (* history variable *)
  ended       \* sessions ended by a logout, by a new login or by a restart

server   == <<mode, sessions, expiry, ended>>
browsers == <<jar, csrf>>
vars == <<now, server, requests, browsers>>

Token  == 1 .. MaxTokens
Kinds  == {"login", "me", "logout", "read", "write"}
Unsafe == {"logout", "write"}
Issued == DOMAIN expiry

(* A request on its way to a handler or waiting inside one. *)
Request ==
  [ browser : Browsers, kind : Kinds, cookie : Token \cup {None}, csrf : Token \cup {None},
    phase : {"sent", "inside"},
    session : Token \cup {None} ]              \* scope["state"]["auth_session"]

(* An answer on its way back: its Set-Cookie, what the page learns from it. *)
Response ==
  [ browser : Browsers, cookie : Token \cup {None}, phase : {"answered"},
    cookie_out : Token \cup {Keep, Clear}, csrf_out : Token \cup {None, Keep} ]

TypeOK ==
  /\ now \in 0 .. MaxTime
  /\ mode \in {"disabled", "invalid", "ready"}
  /\ sessions \subseteq Token /\ Cardinality(sessions) <= MaxSessions
  /\ requests \in [Requests -> Request \cup Response \cup {None}]
  /\ jar \in [Browsers -> Token \cup {None}]
  /\ csrf \in [Browsers -> Token \cup {None}]
  /\ expiry \in Seq(Nat) /\ ended \subseteq Token

Init ==
  /\ now = 0
  /\ mode = "ready"
  /\ sessions = {}
  /\ requests = [r \in Requests |-> None]
  /\ jar = [b \in Browsers |-> None] /\ csrf = [b \in Browsers |-> None]
  /\ expiry = <<>> /\ ended = {}

----------------------------------------------------------------------------
(* SessionStore                                                            *)

(* _prune() *)
Pruned(store) == { t \in store : expiry[t] > now }

(* get() *)
Known(t) == t \in Pruned(sessions)
Looked(t) == IF t = None THEN sessions ELSE Pruned(sessions)

\* Mutation: popitem() takes the latest session.
KeepsOldest(store) == { t \in store : Cardinality({ o \in store : o < t }) < MaxSessions - 1 }

\* Mutation: off by one.
RoomForOneMore(store) == { t \in store : Cardinality({ o \in store : o > t }) < MaxSessions }

(* popitem(last=False), the oldest first, until there is room for one *)
WithRoom(store) == { t \in store : Cardinality({ o \in store : o > t }) < MaxSessions - 1 }

(* create(existing) *)
Create(existing) ==
  /\ Len(expiry) < MaxTokens
  /\ sessions' = WithRoom(Pruned(sessions) \ {existing}) \cup {Len(expiry) + 1}
  /\ expiry' = Append(expiry, now + Ttl)
  /\ ended' = IF existing = None THEN ended ELSE ended \cup {existing}

----------------------------------------------------------------------------
(* Browsers                                                                *)

(* A request takes the cookie and, when it writes, the page's CSRF token.  *)
Send(r, b, kind) ==
  /\ requests[r] = None
  /\ requests' = [requests EXCEPT ![r] =
       [ browser |-> b, kind |-> kind, cookie |-> jar[b],
         csrf |-> IF kind \in Unsafe THEN csrf[b] ELSE None,
         phase |-> "sent", session |-> None ]]
  /\ UNCHANGED <<now, server, browsers>>

(* Its answer comes in: a 401 sends the page to the login page. *)
Deliver(r) ==
  /\ requests[r] # None /\ requests[r].phase = "answered"
  /\ LET q == requests[r] IN
       /\ jar' = CASE q.cookie_out = Keep  -> jar
                   [] q.cookie_out = Clear -> [jar EXCEPT ![q.browser] = None]
                   [] OTHER                -> [jar EXCEPT ![q.browser] = q.cookie_out]
       /\ csrf' = IF q.csrf_out = Keep THEN csrf ELSE [csrf EXCEPT ![q.browser] = q.csrf_out]
  /\ requests' = [requests EXCEPT ![r] = None]
  /\ UNCHANGED <<now, server>>

(* max_age is over, or the user deletes the cookie. *)
LoseCookie(b) ==
  /\ jar[b] # None
  /\ jar' = [jar EXCEPT ![b] = None]
  /\ UNCHANGED <<now, server, requests, csrf>>

----------------------------------------------------------------------------
(* AuthMiddleware                                                          *)

Sent(r, kinds) == requests[r] # None /\ requests[r].phase = "sent" /\ requests[r].kind \in kinds
Inside(r, kinds) == requests[r] # None /\ requests[r].phase = "inside" /\ requests[r].kind \in kinds

Answer(r, cookie, page) ==
  requests' = [requests EXCEPT ![r] =
    [ browser |-> @.browser, cookie |-> @.cookie, phase |-> "answered",
      cookie_out |-> cookie, csrf_out |-> page ]]

Enter(r, session) ==
  requests' = [requests EXCEPT ![r].phase = "inside", ![r].session = session]

(* invalid_session_cookie: the request came with a cookie that is no session. *)
BadCookie(q) == q.cookie # None /\ q.session = None

\* Mutation: the CSRF token of any session will do.
PassesWithAnyCsrf(q) == Known(q.cookie) /\ (q.kind \in Unsafe => q.csrf # None)

(* The session of the cookie, and for an unsafe method its CSRF token. *)
Passes(q) == Known(q.cookie) /\ (q.kind \in Unsafe => q.csrf = q.cookie)

(* 503 while authentication is out of order. *)
Unavailable(r) ==
  /\ Sent(r, Kinds) /\ mode = "invalid"
  /\ Answer(r, Keep, Keep)
  /\ UNCHANGED <<now, server, browsers>>

(* Without authentication everyone is let in; there is no login (409). *)
Open(r) ==
  /\ Sent(r, Kinds) /\ mode = "disabled"
  /\ IF requests[r].kind \in {"read", "write"} THEN Enter(r, None)
     ELSE Answer(r, Keep, IF requests[r].kind = "me" THEN None ELSE Keep)
  /\ UNCHANGED <<now, server, browsers>>

(* _unauthorized, and _forbidden for a CSRF token that is not the session's. *)
Refuse(r) ==
  /\ Sent(r, Kinds \ {"login"}) /\ mode = "ready" /\ ~Passes(requests[r])
  /\ sessions' = Looked(requests[r].cookie)
  /\ IF Known(requests[r].cookie) THEN Answer(r, Keep, Keep)
     ELSE Answer(r, IF requests[r].cookie = None THEN Keep ELSE Clear, None)
  /\ UNCHANGED <<now, mode, expiry, ended, browsers>>

(* A request is let in and has to wait: for its body or for a thread. *)
Admit(r) ==
  /\ Sent(r, {"read", "write"}) /\ mode = "ready" /\ Passes(requests[r])
  /\ sessions' = Looked(requests[r].cookie)
  /\ Enter(r, requests[r].cookie)
  /\ UNCHANGED <<now, mode, expiry, ended, browsers>>

Finish(r) ==
  /\ Inside(r, {"read", "write"})
  /\ Answer(r, Keep, Keep)
  /\ UNCHANGED <<now, server, browsers>>

(* GET /api/auth/me; no wait comes between the middleware and the handler. *)
Me(r) ==
  /\ Sent(r, {"me"}) /\ mode = "ready" /\ Passes(requests[r])
  /\ sessions' = Looked(requests[r].cookie)
  /\ Answer(r, Keep, requests[r].cookie)
  /\ UNCHANGED <<now, mode, expiry, ended, browsers>>

\* Mutation: the cookie is cleared and the session left.
LogoutKeepsSession(r) ==
  /\ Sent(r, {"logout"}) /\ mode = "ready" /\ Passes(requests[r])
  /\ sessions' = Looked(requests[r].cookie)
  /\ ended' = ended \cup {requests[r].cookie}
  /\ Answer(r, Clear, None)
  /\ UNCHANGED <<now, mode, expiry, browsers>>

(* POST /api/auth/logout *)
Logout(r) ==
  /\ Sent(r, {"logout"}) /\ mode = "ready" /\ Passes(requests[r])
  /\ sessions' = Pruned(sessions) \ {requests[r].cookie}
  /\ ended' = ended \cup {requests[r].cookie}
  /\ Answer(r, Clear, None)
  /\ UNCHANGED <<now, mode, expiry, browsers>>

(* POST /api/auth/login: a body that is late, too long or from another     *)
(* site, or a client that is blocked, is answered by the middleware.       *)
TurnAway(r) ==
  /\ Sent(r, {"login"}) /\ mode = "ready"
  /\ Answer(r, Keep, Keep)
  /\ UNCHANGED <<now, server, browsers>>

(* The body is in: _attach_session, then the password check. *)
AttachLogin(r) ==
  /\ Sent(r, {"login"}) /\ mode = "ready"
  /\ sessions' = Looked(requests[r].cookie)
  /\ Enter(r, IF Known(requests[r].cookie) THEN requests[r].cookie ELSE None)
  /\ UNCHANGED <<now, mode, expiry, ended, browsers>>

(* The password is right.  authenticate() does not look at the state again. *)
LoginSucceeds(r) ==
  /\ Inside(r, {"login"})
  /\ Create(requests[r].session)
  /\ Answer(r, Len(expiry) + 1, None)
  /\ UNCHANGED <<now, mode, browsers>>

(* Wrong, refused, or an internal error, which ends all logins. *)
LoginFails(r) ==
  /\ Inside(r, {"login"})
  /\ mode' \in {mode, "invalid"}
  /\ Answer(r, IF BadCookie(requests[r]) THEN Clear ELSE Keep, Keep)
  /\ UNCHANGED <<now, sessions, expiry, ended, browsers>>

----------------------------------------------------------------------------
Tick ==
  /\ now < MaxTime
  /\ now' = now + 1
  /\ UNCHANGED <<server, requests, browsers>>

(* initialize() in a new process; the connections are lost. *)
Restart ==
  /\ mode' \in {"disabled", "invalid", "ready"}
  /\ sessions' = {}
  /\ ended' = Issued
  /\ requests' = [r \in Requests |-> None]
  /\ UNCHANGED <<now, expiry, browsers>>

Next ==
  \/ \E r \in Requests :
       \/ \E b \in Browsers, kind \in Kinds : Send(r, b, kind)
       \/ Deliver(r)
       \/ Unavailable(r) \/ Open(r) \/ Refuse(r) \/ Admit(r) \/ Finish(r) \/ Me(r) \/ Logout(r)
       \/ TurnAway(r) \/ AttachLogin(r) \/ LoginSucceeds(r) \/ LoginFails(r)
  \/ \E b \in Browsers : LoseCookie(b)
  \/ Tick \/ Restart

Spec == Init /\ [][Next]_vars
----------------------------------------------------------------------------
(* Properties.                                                             *)

(* A session lives from its login to its end or its absolute expiry. *)
Live(t) == t \in Issued /\ t \notin ended /\ now < expiry[t]

(* The store knows no session but live ones, and a live session is lost    *)
(* only to MaxSessions later logins: expired ones are removed first, the   *)
(* oldest goes first, a logout or a new login removes its own session      *)
(* alone (SessionStore).                                                   *)
StoreIsExact ==
  \A t \in Issued :
    /\ Known(t) => Live(t)
    /\ Live(t) => Known(t) \/ Len(expiry) - t >= MaxSessions

(* A request that reaches a handler does so with the live session of its   *)
(* own cookie, and when it writes with the CSRF token of that session, a   *)
(* page of an earlier session or of another browser not counting; none     *)
(* does while authentication is out of order (AuthMiddleware).             *)
Reaches(r) ==
  /\ Sent(r, Kinds \ {"login"}) /\ mode # "disabled"
  /\ requests'[r] \notin {requests[r], None}
  /\ \/ Inside(r, Kinds)'
     \/ ~Inside(r, Kinds)' /\ requests'[r].csrf_out \in Token
     \/ ended' # ended

OnlyLiveSessionsServe ==
  [][\A r \in Requests :
       LET q == requests[r] IN
         Reaches(r) => /\ mode = "ready"
                       /\ Live(q.cookie)
                       /\ q.kind \in Unsafe => q.csrf = q.cookie
                       /\ Inside(r, Kinds)' => requests'[r].session = q.cookie]_vars

(* An answer that takes the browser's cookie away or gives it another one  *)
(* leaves no session behind that its request came with: no refusal logs    *)
(* out a browser that is logged in, and neither a logout nor a login, be   *)
(* its password check ever so long, leaves the old session usable          *)
(* (_attach_session, _finish, create).                                     *)
CookieChangeEndsSession ==
  \A r \in Requests :
    (requests[r] # None /\ requests[r].phase = "answered" /\ requests[r].cookie_out # Keep)
      => ~Known(requests[r].cookie)

(* The inductive invariant behind these. *)
StoreInv ==
  /\ now \in Nat /\ expiry \in Seq(Nat) /\ Len(expiry) <= MaxTokens
  /\ sessions \subseteq Issued /\ ended \subseteq Issued /\ sessions \cap ended = {}
  /\ \A t \in Issued : Live(t) => t \in sessions \/ Len(expiry) - t >= MaxSessions

GoodRequest(q) ==
  \/ q = None
  \/ /\ q \in Request \cup Response /\ q.cookie \in Issued \cup {None}
     /\ q.phase = "inside" =>
          /\ q.kind = "login" => q.session = q.cookie \/ (q.session = None /\ ~Known(q.cookie))
     /\ q.phase = "answered" =>
          /\ q.cookie_out # Keep => ~Known(q.cookie)
          /\ q.cookie_out \in Issued \cup {Keep, Clear}

IInv ==
  /\ StoreInv
  /\ requests \in [Requests -> Request \cup Response \cup {None}]
  /\ \A r \in Requests : GoodRequest(requests[r])
  /\ jar \in [Browsers -> Issued \cup {None}] /\ csrf \in [Browsers -> Token \cup {None}]
=============================================================================
