------------------------------- MODULE WebAuth -------------------------------
(***************************************************************************)
(* The login of the operator's web interface: sessions, remember-browser   *)
(* tokens that are rotated when they are used, the CSRF check, logout and  *)
(* revocation, the lockout.  A request is handled by one server process,   *)
(* each commit of it is a step, and the cookies of a response reach the    *)
(* browser only if the response sets them and arrives.  A row is its       *)
(* number, 0 is no cookie.  Audit events are left out: nothing reads them. *)
(***************************************************************************)
EXTENDS Integers, Sequences, FiniteSets

CONSTANTS
  Servers,          \* processes that serve the interface
  Browsers,
  LoginKeys,        \* pairs of a username and a remote address a login may come with
  OperatorKeys,     \* those with the operator's username
  MaxFailedAttempts,\* max_failed_attempts
  MaxRows,          \* bound: sessions, and tokens
  MaxRevocations,   \* bound: revoke-all requests
  MaxRestarts,      \* bound: restarts of the servers
  MaxRequests       \* bound: requests

ASSUME WebAuthAssumption ==
  IsFiniteSet(Servers) /\ OperatorKeys \subseteq LoginKeys /\ MaxFailedAttempts \in Nat

VARIABLES
  web_user,         \* whether the operator's user exists
  web_sessions,     \* rows: state, and the era of the request that made it
  web_remember_tokens,
  browser,          \* browser -> its cookies, the session of the form it shows, its excuse
  request,          \* server -> the request it handles
  failed_attempts,  \* server -> key -> failures in the lockout window, in memory
  forgotten,        \* history: server -> key -> failures in the window a restart forgot
  restarts,         \* history: restarts of the servers
  requests,         \* history: requests sent
  revocations       \* history: revoke-all requests that began, and ended

webVars == <<web_user, web_sessions, web_remember_tokens, browser, request, failed_attempts,
             forgotten, restarts, requests, revocations>>

\* "page" is also a form that touches none of this state.
Kinds == {"page", "login", "logout", "revoke_remember", "revoke_all"}

NoRequest ==
  [at |-> "idle", from |-> "none", kind |-> "page", session |-> 0, remember |-> 0, csrf |-> 0,
   as |-> 0, todo |-> <<>>, cookies |-> [session |-> -1, remember |-> -1], rotated |-> FALSE,
   began |-> 0]

NoFailures == [key \in LoginKeys |-> 0]

WebInit ==
  /\ web_user = FALSE
  /\ web_sessions = <<>> /\ web_remember_tokens = <<>>
  /\ browser = [b \in Browsers |-> [session |-> 0, remember |-> 0, form |-> 0, excuse |-> FALSE]]
  /\ request = [s \in Servers |-> NoRequest]
  /\ failed_attempts = [s \in Servers |-> NoFailures]
  /\ forgotten = [s \in Servers |-> NoFailures] /\ restarts = 0 /\ requests = 0
  /\ revocations = [began |-> 0, ended |-> 0]

rowsUnchanged == UNCHANGED <<web_user, web_sessions, web_remember_tokens>>
historyUnchanged == UNCHANGED <<failed_attempts, forgotten, restarts, requests, revocations>>

save_user == web_user' = TRUE

set_password ==
  /\ ~web_user /\ save_user
  /\ UNCHANGED <<web_sessions, web_remember_tokens, browser, request>> /\ historyUnchanged

Dead == [state |-> "dead", era |-> 0]

Live(rows, i) == i # 0 /\ rows[i] # Dead

\* A session reaches its expires_at; a token outlives every behaviour here.
ExpireSession(i) ==
  /\ web_sessions[i] # Dead
  /\ web_sessions' = [web_sessions EXCEPT ![i] = Dead]
  /\ UNCHANGED <<web_user, web_remember_tokens, browser, request>> /\ historyUnchanged

\* A browser sends the cookies it has, and the CSRF token of the form it shows.
SendRequest(b, s) ==
  /\ request[s].at = "idle"
  /\ \E kind \in Kinds :
       request' = [request EXCEPT ![s] = [NoRequest EXCEPT
         !.at = "authenticate", !.from = b, !.kind = kind, !.session = browser[b].session,
         !.remember = browser[b].remember, !.csrf = browser[b].form,
         !.began = revocations.ended]]
  /\ requests < MaxRequests /\ requests' = requests + 1
  /\ UNCHANGED <<browser, failed_attempts, forgotten, restarts, revocations>> /\ rowsUnchanged

\* authenticate_request: the session, else the token, which is then revoked and
\* replaced by a new session and a new token in three commits.
authenticate_request(s) ==
  LET r == request[s]
      redirect == [NoRequest EXCEPT !.at = "respond", !.from = r.from]   \* to /login
  IN  /\ r.at = "authenticate"
      /\ request' = [request EXCEPT ![s] =
           IF Live(web_sessions, r.session) THEN [r EXCEPT !.at = "handle", !.as = r.session]
           ELSE IF Live(web_remember_tokens, r.remember)
           THEN [r EXCEPT !.at = "handle", !.rotated = TRUE,
                   !.todo = <<<<"revoke_token", r.remember>>, <<"new_session", 0>>, <<"new_token", 0>>>>]
           ELSE IF r.kind = "login" THEN [redirect EXCEPT !.at = "password", !.began = r.began]
           ELSE redirect]
      /\ UNCHANGED browser /\ rowsUnchanged /\ historyUnchanged

\* Mutant: revoke-all leaves the tokens.
RevokeAllCommits_SessionsOnly == <<<<"all_sessions", 0>>>>

RevokeAllCommits == <<<<"all_sessions", 0>>, <<"all_tokens", 0>>>>

\* Mutant: the redirect of a login that was not needed sets no cookies.
CookiesKept_NotOnLogin(kind, accepted) == kind = "page" \/ accepted

\* Whether the response carries the cookies of the authentication: an error
\* page, for a wrong method or a wrong CSRF token, does not.
CookiesKept(kind, accepted) == kind \in {"page", "login"} \/ accepted

\* The cookies' session and token, each in a commit of its own.
logout(r) == <<<<"revoke_session", r.session>>, <<"revoke_token", r.remember>>>>

revoke_current_remember_token(r) == <<<<"revoke_token", r.remember>>>>

\* The route: POST is required of all that change something, then CSRF.
HandleRoute(s) ==
  LET r == request[s]
  IN  /\ r.at = "handle" /\ r.todo = <<>>
      /\ r.kind = "revoke_all" => revocations.began < MaxRevocations
      /\ \E post \in BOOLEAN :
           LET accepted == r.kind \notin {"page", "login"} /\ post /\ r.csrf = r.as
               commits == IF ~accepted THEN <<>>
                          ELSE CASE r.kind = "logout" -> logout(r)
                                 [] r.kind = "revoke_remember" -> revoke_current_remember_token(r)
                                 [] r.kind = "revoke_all" -> RevokeAllCommits
           IN  /\ request' = [request EXCEPT ![s] =
                    [NoRequest EXCEPT
                       !.at = "respond", !.from = r.from, !.rotated = r.rotated, !.todo = commits,
                       !.as = IF r.kind = "page" THEN r.as ELSE 0,
                       !.cookies =
                         IF ~CookiesKept(r.kind, accepted) THEN @
                         ELSE [session |-> IF accepted /\ r.kind # "revoke_remember" THEN 0
                                           ELSE r.cookies.session,
                               remember |-> IF accepted THEN 0 ELSE r.cookies.remember]]]
               /\ browser' = [b \in Browsers |-> [browser[b] EXCEPT
                    !.excuse = \/ @
                               \/ accepted /\ r.kind = "revoke_all"
                               \/ /\ b = r.from /\ r.kind \notin {"page", "login"}
                                  /\ accepted \/ r.rotated]]
               /\ revocations' = IF commits = RevokeAllCommits
                                 THEN [revocations EXCEPT !.began = @ + 1] ELSE revocations
      /\ UNCHANGED <<failed_attempts, forgotten, restarts, requests>> /\ rowsUnchanged

Revoked(rows, i) == IF i = 0 THEN rows ELSE [rows EXCEPT ![i] = Dead]

AllRevoked(rows) == [i \in DOMAIN rows |-> Dead]

\* A new row; its era is -1 if its request overlapped with a revoke-all.
NewRow(s) ==
  [state |-> "live",
   era |-> IF request[s].began # revocations.ended \/ revocations.began # revocations.ended
           THEN -1 ELSE revocations.ended]

save_session(s) == Append(web_sessions, NewRow(s))

save_remember_token(s) == Append(web_remember_tokens, NewRow(s))

\* The next commit of the request.
Commit(s) ==
  LET r == request[s]
      step == Head(r.todo)[1]
      row == Head(r.todo)[2]
      done == [r EXCEPT !.todo = Tail(@)]
  IN  /\ r.todo # <<>>
      /\ step = "new_session" => Len(web_sessions) < MaxRows
      /\ step = "new_token" => Len(web_remember_tokens) < MaxRows
      /\ web_sessions' = CASE step = "new_session" -> save_session(s)
                            [] step = "revoke_session" -> Revoked(web_sessions, row)
                            [] step = "all_sessions" -> AllRevoked(web_sessions)
                            [] OTHER -> web_sessions
      /\ web_remember_tokens' = CASE step = "new_token" -> save_remember_token(s)
                                   [] step = "revoke_token" -> Revoked(web_remember_tokens, row)
                                   [] step = "all_tokens" -> AllRevoked(web_remember_tokens)
                                   [] OTHER -> web_remember_tokens
      /\ request' = [request EXCEPT ![s] =
           CASE step = "new_session" -> [done EXCEPT !.cookies.session = Len(web_sessions) + 1,
                                                     !.as = Len(web_sessions) + 1]
             [] step = "new_token" -> [done EXCEPT !.cookies.remember = Len(web_remember_tokens) + 1]
             [] OTHER -> done]
      /\ revocations' = IF r.todo = <<<<"all_tokens", 0>>>> \/ RevokeAllCommits = <<Head(r.todo)>>
                        THEN [revocations EXCEPT !.ended = @ + 1] ELSE revocations
      /\ UNCHANGED <<web_user, browser, failed_attempts, forgotten, restarts, requests>>

\* Mutant: one attempt more than the limit is let through.
is_locked_out_OneMore(s, key) == failed_attempts[s][key] > MaxFailedAttempts

is_locked_out(s, key) == failed_attempts[s][key] >= MaxFailedAttempts

record_failure(s, key) == failed_attempts' = [failed_attempts EXCEPT ![s][key] = @ + 1]

clear_failures(s, key) ==
  /\ failed_attempts' = [failed_attempts EXCEPT ![s][key] = 0]
  /\ forgotten' = [forgotten EXCEPT ![s][key] = 0]

\* login: locked out, wrong, or right with or without a token for the browser.
login(s) ==
  /\ request[s].at = "password"
  /\ \E key \in LoginKeys :
       \/ /\ is_locked_out(s, key)
          /\ request' = [request EXCEPT ![s].at = "respond"]
          /\ UNCHANGED <<failed_attempts, forgotten>>
       \/ /\ ~is_locked_out(s, key)
          /\ request' = [request EXCEPT ![s].at = "respond"]
          /\ record_failure(s, key)
          /\ UNCHANGED forgotten
       \/ /\ ~is_locked_out(s, key) /\ web_user /\ key \in OperatorKeys
          /\ \E commits \in {<<<<"new_session", 0>>>>,
                             <<<<"new_session", 0>>, <<"new_token", 0>>>>} :
               request' = [request EXCEPT ![s].at = "respond", ![s].todo = commits]
          /\ clear_failures(s, key)
  /\ UNCHANGED <<browser, restarts, requests, revocations>> /\ rowsUnchanged

\* The oldest failure leaves the window.
WindowMoves(s, key) ==
  /\ failed_attempts[s][key] > 0
  /\ failed_attempts' = [failed_attempts EXCEPT ![s][key] = @ - 1]
  /\ UNCHANGED <<browser, request, forgotten, restarts, requests, revocations>> /\ rowsUnchanged

Cookie(old, new) == IF new = -1 THEN old ELSE new

\* The response arrives; a page shows the CSRF token of its session.
Respond(s) ==
  LET r == request[s]
  IN  /\ r.at = "respond" /\ r.todo = <<>>
      /\ browser' = [b \in Browsers |->
           [browser[b] EXCEPT
              !.session = IF b = r.from THEN Cookie(@, r.cookies.session) ELSE @,
              !.remember = IF b = r.from THEN Cookie(@, r.cookies.remember) ELSE @,
              !.form = IF b = r.from /\ r.as # 0 THEN r.as ELSE @]]
      /\ request' = [request EXCEPT ![s] = NoRequest]
      /\ rowsUnchanged /\ historyUnchanged

\* The connection or the server is lost; what was committed stays, and a server
\* that starts again has forgotten the failures.
LoseRequest(s) ==
  LET r == request[s]
  IN  /\ r.at # "idle" /\ restarts < MaxRestarts
      /\ browser' = [b \in Browsers |->
           [browser[b] EXCEPT !.excuse = @ \/ (b = r.from /\ r.rotated)]]
      /\ request' = [request EXCEPT ![s] = NoRequest]
      /\ failed_attempts' = [failed_attempts EXCEPT ![s] = NoFailures]
      /\ forgotten' = [forgotten EXCEPT ![s] =
           [key \in LoginKeys |-> @[key] + failed_attempts[s][key]]]
      /\ restarts' = restarts + 1
      /\ UNCHANGED <<requests, revocations>> /\ rowsUnchanged

WebNext ==
  \/ set_password
  \/ \E i \in DOMAIN web_sessions : ExpireSession(i)
  \/ \E s \in Servers :
       \/ \E b \in Browsers : SendRequest(b, s)
       \/ authenticate_request(s) \/ HandleRoute(s) \/ Commit(s) \/ login(s)
       \/ Respond(s) \/ LoseRequest(s)
       \/ \E key \in LoginKeys : WindowMoves(s, key)

WebSpec == WebInit /\ [][WebNext]_webVars

(***************************************************************************)
(* SurvivorsOverlapped: after a revoke-all, a session or token is live only *)
(* if a request that began later made it, or one that ran at the same time. *)
(***************************************************************************)
SurvivorsOverlapped ==
  \A rows \in {web_sessions, web_remember_tokens} : \A i \in DOMAIN rows :
    rows[i] # Dead => rows[i].era \in {-1, revocations.ended}

(***************************************************************************)
(* RememberLossExplained: a browser holds a revoked token, so that it has  *)
(* to log in again, only after it logged out or revoked its token, anybody *)
(* revoked all, a request of it that rotated the token was lost or was     *)
(* answered by an error page, which carries no cookies.                    *)
(***************************************************************************)
RememberLossExplained ==
  \A b \in Browsers :
    /\ browser[b].remember # 0 /\ \A s \in Servers : request[s].from # b
    /\ web_remember_tokens[browser[b].remember] = Dead
    => browser[b].excuse

(***************************************************************************)
(* GuessesBounded: within the lockout window a server lets no more wrong   *)
(* passwords for one username from one address through, since the last     *)
(* right one, than its limit, and the limit again per restart.  Another    *)
(* address, or another server, is counted from nothing.                    *)
(***************************************************************************)
GuessesBounded ==
  \A s \in Servers, key \in LoginKeys :
    failed_attempts[s][key] + forgotten[s][key] <= MaxFailedAttempts * (1 + restarts)
==============================================================================
