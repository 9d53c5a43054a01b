------------------------------ MODULE ControlAuth ------------------------------
(***************************************************************************)
(* Who is answered by the control plane's HTTP server: the paths that are  *)
(* open, the session that a login puts into a cookie, the short token for  *)
(* the controller's websockets, the secret of services, and the way of a   *)
(* browser from a page to the login page and back (internal/app/auth,      *)
(* runtime_http_auth.go, runtime_http_server.go).                          *)
(*                                                                         *)
(* Nothing is kept at the server: a session is good while it is signed     *)
(* with the secret the process runs with and its time has not come.        *)
(***************************************************************************)
EXTENDS Integers

CONSTANTS
  Browser,
  Asked,        \* the requests that browsers make
  SessionTTL,   \* how long a login lasts
  TokenTTL,     \* how long a token for websockets lasts
  NoSession,    \* no cookie, or no token
  MaxSecret,    \* BOUND: the secrets that the gateway is started with; 0 is none
  MaxHour,      \* BOUND: time
  MaxHops       \* BOUND: redirects that are counted

ASSUME ControlAuthAssumption ==
  /\ SessionTTL \in Nat /\ TokenTTL \in Nat /\ TokenTTL < SessionTTL
  /\ MaxSecret \in Nat /\ MaxHour \in Nat /\ MaxHops \in Nat \ {0}
  /\ NoSession \notin Nat \cup [secret : Nat, ends : Nat]
  /\ \A r \in Asked : DOMAIN r = {"path", "under", "method", "html", "bearer"}

VARIABLES
  control,   \* the control secret of the process, 0 when none is configured
  service,   \* whether it has one for services
  hour,
  cookie,    \* cookie[b] = [secret, ends]: the session a browser sends
  token,     \* token[b]: the same for websockets, sent in the query
  visit,     \* visit[b] = [at, request, hops]: the page a browser is after
  login      \* HISTORY: login[b][s] = [at, out]: when b entered with the
             \* secret s, and when it left again

authVars == <<control, service, hour, cookie, token, visit, login>>

-----------------------------------------------------------------------------
(* Paths. A request knows its path without the last slash and the prefix    *)
(* it is under: "/api", "/mihomo/controller", "/mihomo" or none.            *)

PublicRuntimePath(path) == path \in {"/api/auth/session", "/api/auth/login", "/api/auth/logout"}

Required(path) ==
  /\ control # 0
  /\ path \notin {"", "/healthz", "/readyz", "/metrics", "/login"}
  /\ ~PublicRuntimePath(path)

ServiceRuntimePath(r) ==
  \/ r.method = "POST" /\ r.path \in {
       "/api/leases/acquire", "/api/leases/release", "/api/proxy_exit_ip", "/api/proxy_exit_geo",
       "/api/ip_fraud_check", "/api/check_cf_access_risk", "/api/target_connectivity_check"}
  \/ r.method \in {"GET", "POST"} /\ r.path = "/api/proxy_exit_check_snapshot"

\* The prefix a request is under is that of its path.
Placed(r) ==
  /\ r.path = "" => r.under = ""
  /\ \A method \in {"GET", "POST"} :
       ServiceRuntimePath([r EXCEPT !.method = method]) => r.under = "/api"

ASSUME PathAssumption == \A r \in Asked : Placed(r)

RequestRequired(r) == (service /\ ServiceRuntimePath(r)) \/ Required(r.path)

-----------------------------------------------------------------------------
(* Sessions.                                                              *)

SignSession(ttl) == [secret |-> control, ends |-> hour + ttl]

VerifySession(s) == s # NoSession /\ control # 0 /\ s.secret = control /\ hour =< s.ends

SessionAuthenticated(b) == control = 0 \/ VerifySession(cookie[b])

RequestAuthenticated(b, r) ==
  \/ VerifySession(cookie[b])
  \/ service /\ ServiceRuntimePath(r) /\ r.bearer
  \/ r.under = "/mihomo/controller" /\ VerifySession(token[b])

\* A page is sent to the login page; what a program asks is refused.
RedirectEverywhere(r) == r.method \in {"GET", "HEAD"} /\ r.html
LoginRedirectPreferred(r) ==
  r.method \in {"GET", "HEAD"} /\ r.html /\ r.under \notin {"/api", "/mihomo/controller"}

Authorize(b, r) ==
  IF RequestRequired(r) => RequestAuthenticated(b, r) THEN "authorized"
  ELSE IF LoginRedirectPreferred(r) THEN "redirect" ELSE "challenge"

\* The dashboard's entry is open, and read only.
MethodAllowed(r) == r.path = "" => r.method \in {"GET", "HEAD"}

\* It looks for a session itself, as though it were "/ui"; so does what no
\* route takes, outside "/api" and "/mihomo". A path that has a route is
\* answered by it, or its method refused.
LoginRedirectIfRequired(b, r) ==
  /\ r.under = "" /\ r.path \notin {"/healthz", "/readyz", "/metrics", "/login"}
  /\ MethodAllowed(r)
  /\ Required("/ui") /\ ~SessionAuthenticated(b)

-----------------------------------------------------------------------------
(* A browser's way. Redirects are counted while nothing else changes.      *)

NoVisit == [at |-> "none", request |-> NoSession, hops |-> 0]
NeverIn == [at |-> NoSession, out |-> NoSession]
Anew == [b \in Browser |-> [visit[b] EXCEPT !.hops = 0]]
Hop(b, at) == [visit EXCEPT ![b].at = at, ![b].hops = IF @ < MaxHops THEN @ + 1 ELSE @]

AuthInit ==
  /\ control \in 0..MaxSecret /\ service \in BOOLEAN /\ hour = 0
  /\ cookie = [b \in Browser |-> NoSession] /\ token = [b \in Browser |-> NoSession]
  /\ visit = [b \in Browser |-> NoVisit] /\ login = [b \in Browser |-> [s \in 1..MaxSecret |-> NeverIn]]

Visit(b, r) ==
  /\ visit[b].at \in {"none", "served"}
  /\ visit' = [visit EXCEPT ![b] = [at |-> "page", request |-> r, hops |-> 0]]
  /\ UNCHANGED <<control, service, hour, cookie, token, login>>

\* What is answered ends the visit, except a redirect to the login page.
Ask(b) ==
  LET r == visit[b].request
      decision == Authorize(b, r)
      redirected == decision = "redirect"
                      \/ (decision = "authorized" /\ LoginRedirectIfRequired(b, r))
      served == decision = "authorized" /\ MethodAllowed(r) IN
  /\ visit[b].at = "page"
  /\ visit' = IF redirected THEN Hop(b, "login")
              ELSE [visit EXCEPT ![b] = [NoVisit EXCEPT !.at = IF served THEN "served" ELSE "none"]]
  /\ UNCHANGED <<control, service, hour, cookie, token, login>>

\* The login page sends a browser with a session back; it comes with GET.
Returning(b, way) ==
  [way EXCEPT ![b].request = [@ EXCEPT !.method = "GET", !.html = TRUE, !.bearer = FALSE]]

LoginPage(b) ==
  /\ visit[b].at = "login"
  /\ visit' = IF SessionAuthenticated(b) THEN Returning(b, Hop(b, "page"))
              ELSE [visit EXCEPT ![b].at = "form"]
  /\ UNCHANGED <<control, service, hour, cookie, token, login>>

Enter(b) ==
  /\ cookie' = [cookie EXCEPT ![b] = SignSession(SessionTTL)]
  /\ login' = [login EXCEPT ![b][control] = [at |-> hour, out |-> NoSession]]

\* The form is sent, with the right secret or a wrong one; with none
\* configured no secret is right.
SubmitLogin(b) ==
  /\ visit[b].at = "form"
  /\ \/ control # 0 /\ Enter(b)
        /\ visit' = Returning(b, [Anew EXCEPT ![b].at = "page", ![b].hops = 1])
     \/ /\ visit' = [Anew EXCEPT ![b].at = "login", ![b].hops = 1]
        /\ UNCHANGED <<cookie, login>>
  /\ UNCHANGED <<control, service, hour, token>>

\* The same without a page, and the end of a session, in another tab.
LoginWithoutForm(b) ==
  /\ control # 0 /\ Enter(b)
  /\ visit' = Anew
  /\ UNCHANGED <<control, service, hour, token>>

Left(b) ==
  [login EXCEPT ![b] = [s \in 1..MaxSecret |->
     IF @[s].out = NoSession THEN [@[s] EXCEPT !.out = hour] ELSE @[s]]]

Logout(b) ==
  /\ cookie' = [cookie EXCEPT ![b] = NoSession]
  /\ login' = Left(b)
  /\ visit' = Anew
  /\ UNCHANGED <<control, service, hour, token>>

\* The dashboard fetches a token before it opens a websocket.
FetchToken(b) ==
  /\ control # 0 /\ VerifySession(cookie[b])
  /\ token' = [token EXCEPT ![b] = SignSession(TokenTTL)]
  /\ UNCHANGED <<control, service, hour, cookie, visit, login>>

Tick ==
  /\ hour < MaxHour /\ hour' = hour + 1
  /\ visit' = Anew
  /\ UNCHANGED <<control, service, cookie, token, login>>

\* The gateway starts again, with other secrets perhaps; browsers keep theirs.
Restart ==
  /\ control' \in 0..MaxSecret /\ service' \in BOOLEAN
  /\ visit' = Anew
  /\ UNCHANGED <<hour, cookie, token, login>>

AuthNext ==
  \/ \E b \in Browser :
       \/ \E r \in Asked : Visit(b, r)
       \/ Ask(b) \/ LoginPage(b) \/ SubmitLogin(b)
       \/ LoginWithoutForm(b) \/ Logout(b) \/ FetchToken(b)
  \/ Tick \/ Restart

AuthSpec == AuthInit /\ [][AuthNext]_authVars

-----------------------------------------------------------------------------
(* Properties.                                                            *)

AuthTypeOK ==
  /\ control \in 0..MaxSecret /\ service \in BOOLEAN /\ hour \in 0..MaxHour
  /\ \A b \in Browser : /\ visit[b].at \in {"none", "page", "login", "form", "served"}
                        /\ visit[b].hops \in 0..MaxHops
                        /\ visit[b].at \in {"page", "login", "form"} =>
                             DOMAIN visit[b].request = {"path", "under", "method", "html", "bearer"}

\* What asks for an entitlement: services' paths when they have a secret, and
\* with a control secret everything but the login and what monitoring reads.
Guarded(r) ==
  \/ service /\ ServiceRuntimePath(r)
  \/ control # 0 /\ r.path \notin {"/healthz", "/readyz", "/metrics", "/login"}
       /\ ~PublicRuntimePath(r.path)

\* Who is entitled: a service by its secret; a browser by its login with the
\* present secret, while the session lasts and it has not logged out; at the
\* controller also by the token it fetched before, for as long as that lasts.
Entitled(b, r) ==
  \/ service /\ ServiceRuntimePath(r) /\ r.bearer
  \/ /\ control # 0 /\ login[b][control].at # NoSession
     /\ LET in == login[b][control]
            more == IF r.under = "/mihomo/controller" THEN TokenTTL ELSE 0 IN
        /\ hour =< in.at + SessionTTL + more
        /\ in.out # NoSession => hour =< in.out + more

\* What a browser is served at a guarded path rests on its login. Whoever is
\* sent to the login page gets it, or the page, after two redirects at most:
\* the login page never sends a browser back to a page that sends it there
\* (authorization.go, application.go:132-156, login_decision.go).
AnswersRestOnLogin ==
  [][\A b \in Browser :
       /\ visit[b].at = "page" /\ visit'[b].at = "served" /\ Guarded(visit[b].request)
            => Entitled(b, visit[b].request)
       /\ visit'[b].hops =< 2]_authVars
=============================================================================
