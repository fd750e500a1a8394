-------------------------------- MODULE ApiProxy ------------------------------
(***************************************************************************)
(* The way of a request from the browser to the API: the gate              *)
(* (frontend/proxy.ts), the route handlers (frontend/app/api/gps) and      *)
(* proxyToBackend (frontend/lib/gps-proxy.ts), with signing in and out.    *)
(*                                                                         *)
(* A browser sends the session cookie it has at that moment; the library   *)
(* better-auth issues, checks and clears it, and gets the access token.    *)
(* The API is external: it acts on a request or refuses it, and the        *)
(* connection to it may break before or after.                             *)
(***************************************************************************)
EXTENDS FiniteSets

CONSTANTS Requests    \* requests of one browser, each used once

VARIABLES
    session,    \* the browser's session cookie: none, valid
    signIn,     \* state of /sign-in: idle, loading, away (at the identity provider)
    request,    \* per request: where it is, what it carries
    acted,      \* requests the API has acted on
    answer      \* what the browser got: none, ok, or the status

proxyVars == <<session, signIn, request, acted, answer>>

Refusals == {"400", "401", "403", "404", "409", "500"}    \* of the API

ProxyTypeOK ==
    /\ session \in {"none", "valid"} /\ signIn \in {"idle", "loading", "away"}
    /\ request \in [Requests -> [at : {"page", "gate", "token", "api", "back", "done"},
                                 writes : BOOLEAN, cookie : {"none", "valid"}]]
    /\ acted \subseteq Requests
    /\ answer \in [Requests -> {"none", "ok", "aborted"} \cup Refusals]

ProxyInit ==
    /\ session = "none" /\ signIn = "idle"
    /\ request = [r \in Requests |-> [at |-> "page", writes |-> FALSE, cookie |-> "none"]]
    /\ acted = {} /\ answer = [r \in Requests |-> "none"]

-------------------------------------------------------------------------------
(* sign-in/page.tsx, sign-out/route.ts *)

\* handleSignIn: on success the spinner stays until the browser leaves.
SignIn ==
    /\ session = "none" /\ signIn = "idle"
    /\ signIn' = "loading"
    /\ UNCHANGED <<session, request, acted, answer>>

SignInAnswered ==
    /\ signIn = "loading"
    /\ signIn' \in {"away", "idle"}
    /\ UNCHANGED <<session, request, acted, answer>>

\* Back from the identity provider, with a session or without one.
CallbackReturns ==
    /\ signIn = "away" /\ signIn' = "idle"
    /\ session' \in {"none", "valid"}
    /\ UNCHANGED <<request, acted, answer>>

\* GET /sign-out clears the cookie, whether or not the id token and the end
\* session endpoint could be found; the cookie ends after twelve hours anyway.
SignOut ==
    /\ session = "valid" /\ session' = "none"
    /\ UNCHANGED <<signIn, request, acted, answer>>

-------------------------------------------------------------------------------

Moves(r, at) == request' = [request EXCEPT ![r].at = at]
Answers(r, status) == Moves(r, "done") /\ answer' = [answer EXCEPT ![r] = status]

\* gps-client.ts: a page that is open sends a request, signed in or not.
SendRequest(r, writes) ==
    /\ request[r].at = "page"
    /\ request' = [request EXCEPT ![r] = [at |-> "gate", writes |-> writes, cookie |-> session]]
    /\ UNCHANGED <<session, signIn, acted, answer>>

\* proxy: without a session an API call is answered 401, a page redirected.
Gate(r) ==
    /\ request[r].at = "gate"
    /\ IF request[r].cookie = "none"
         THEN Answers(r, "401")
         ELSE Moves(r, "token") /\ UNCHANGED answer
    /\ UNCHANGED <<session, signIn, acted>>

\* The route handlers of writes: a body that is not JSON.
BadBody(r) ==
    /\ request[r].at = "token" /\ request[r].writes
    /\ Answers(r, "400")
    /\ UNCHANGED <<session, signIn, acted>>

\* getKeycloakAccessToken: no session or no token is 401, any exception 500.
Token(r) ==
    /\ request[r].at = "token"
    /\ \/ request[r].cookie = "valid" /\ Moves(r, "api") /\ UNCHANGED answer
       \/ Answers(r, "401") \/ Answers(r, "500")
    /\ UNCHANGED <<session, signIn, acted>>

\* The API acts, and says so.
ApiActs(r) ==
    /\ request[r].at = "api"
    /\ acted' = acted \cup {r}
    /\ Moves(r, "back")
    /\ UNCHANGED <<session, signIn, answer>>

\* A failure of the API may leave some of a write done.
ApiRefuses(r) ==
    /\ request[r].at = "api"
    /\ \/ /\ \E status \in Refusals : Answers(r, status)
          /\ UNCHANGED acted
       \/ Answers(r, "500") /\ acted' = acted \cup {r}
    /\ UNCHANGED <<session, signIn>>

\* Mutant: a connection that breaks is answered as if the session had ended.
BuggyUpstreamFails(r) ==
    /\ request[r].at \in {"api", "back"}
    /\ Answers(r, "401")
    /\ UNCHANGED <<session, signIn, acted>>

\* The connection breaks: 500, whether the API has acted or not.
UpstreamFails(r) ==
    /\ request[r].at \in {"api", "back"}
    /\ Answers(r, "500")
    /\ UNCHANGED <<session, signIn, acted>>

UpstreamOk(r) ==
    /\ request[r].at = "back"
    /\ Answers(r, "ok")
    /\ UNCHANGED <<session, signIn, acted>>

\* Reads pass on the signal of the browser, writes go on without it.
Abort(r) ==
    /\ request[r].at \in {"gate", "token", "api", "back"} /\ ~request[r].writes
    /\ Answers(r, "aborted")
    /\ UNCHANGED <<session, signIn, acted>>

-------------------------------------------------------------------------------

ProxyNext ==
    \/ SignIn \/ SignInAnswered \/ CallbackReturns \/ SignOut
    \/ \E r \in Requests :
          \/ \E writes \in BOOLEAN : SendRequest(r, writes)
          \/ Gate(r) \/ BadBody(r) \/ Token(r)
          \/ ApiActs(r) \/ ApiRefuses(r) \/ UpstreamFails(r) \/ UpstreamOk(r) \/ Abort(r)

ProxySpec == ProxyInit /\ [][ProxyNext]_proxyVars

-------------------------------------------------------------------------------

\* What the pages conclude from an answer is so: ok means that the API acted,
\* 400 and 401 that it did not, so the user may repeat a write after signing in
\* again; and nothing a browser sends when it is signed out reaches the API
\* (gps-proxy.ts:56-87, proxy.ts:16-23).
AnswersAreTrue ==
    \A r \in Requests :
        /\ answer[r] = "ok" => r \in acted
        /\ answer[r] \in {"400", "401"} => r \notin acted
        /\ r \in acted => request[r].cookie = "valid"
===============================================================================
