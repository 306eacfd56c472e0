----------------------------- MODULE WebSession -----------------------------
(***************************************************************************)
(* The browser's session: AuthService (access token and principal in       *)
(* memory, single-flight refresh, logout) and authInterceptor (refresh on  *)
(* a 401 and one retry).  A call is answered by the API some time after it *)
(* was sent and handled by the page some time after that.                  *)
(***************************************************************************)
EXTENDS Naturals, Sequences, FiniteSets

CONSTANTS
    WebUser,    \* operators who use this browser one after the other
    NoUser,     \* nobody: the null principal, a missing cookie
    WebCall,    \* guarded API calls of the page
    MeCall,     \* the one of them that is GET /auth/me
    TokenBound  \* access tokens issued

ASSUME WebSessionAssumption ==
    /\ NoUser \notin WebUser
    /\ MeCall \in WebCall
    /\ TokenBound \in Nat \ {0}

VARIABLES
    webToken,    \* the access token in memory: its number, 0 for null
    principal,   \* the user of the principal in memory, or NoUser
    owner,       \* external: the users the API issued tokens 1, 2, ... to
    fresh,       \* external: tokens the API still accepts
    cookie,      \* external: the user of the refresh cookie, or NoUser
    revoking,    \* POST /auth/logout is on the wire
    call,        \* call -> its state
    refreshes,   \* POST /auth/refresh requests on the wire
    overlapped,  \* observer: a call was on the wire when the session was ended, or
                 \* was sent while a refresh cookie outlived the session
    ended        \* observer: why the session was ended

webVars == <<webToken, principal, owner, fresh, cookie, revoking, call, refreshes,
             overlapped, ended>>

-----------------------------------------------------------------------------
\* tries counts how often the request was sent; token 0 is a call sent without one.
IdleCall == [at |-> "idle", token |-> 0, tries |-> 0]
CallState == [at : {"idle", "sent", "ok", "401", "error", "refreshing"},
              token : 0..TokenBound, tries : 0..2]

\* by is the call that started the request; token is the one it brings back.
Refreshing == [by : WebCall, at : {"sent", "ok", "refused"}, token : 0..TokenBound]

WebTypeOK ==
    /\ owner \in Seq(WebUser) /\ Len(owner) <= TokenBound
    /\ webToken \in 0..Len(owner)
    /\ principal \in WebUser \cup {NoUser}
    /\ cookie \in WebUser \cup {NoUser}
    /\ revoking \in BOOLEAN
    /\ fresh \subseteq 1..Len(owner)
    /\ call \in [WebCall -> CallState]
    /\ refreshes \subseteq Refreshing
    /\ overlapped \in BOOLEAN
    /\ ended \in {"no", "operator", "refused", "retry"}

WebInit ==
    /\ owner = <<>>
    /\ webToken = 0
    /\ principal = NoUser
    /\ cookie = NoUser
    /\ revoking = FALSE
    /\ fresh = {}
    /\ call = [c \in WebCall |-> IdleCall]
    /\ refreshes = {}
    /\ overlapped = FALSE
    /\ ended = "no"

-----------------------------------------------------------------------------
\* The API issues a token to user u.
Issue(u) ==
    /\ Len(owner) < TokenBound
    /\ owner' = Append(owner, u)
    /\ fresh' = fresh \cup {Len(owner) + 1}

OnTheWire == refreshes # {} \/ \E c \in WebCall : call[c] # IdleCall

\* logout: clearSession at once, then POST /auth/logout.
Logout(why) ==
    /\ webToken' = 0
    /\ principal' = NoUser
    /\ revoking' = TRUE
    /\ ended' = why

\* login or mfaVerify answers with a session.
CompleteAuthentication(u) ==
    /\ webToken = 0
    /\ Issue(u)
    /\ webToken' = Len(owner) + 1
    /\ principal' = u
    /\ cookie' = u
    /\ ended' = "no"
    /\ overlapped' = (overlapped /\ OnTheWire)
    /\ UNCHANGED <<revoking, call, refreshes>>

\* The operator signs out.
SignOut ==
    /\ webToken # 0
    /\ Logout("operator")
    /\ overlapped' = (overlapped \/ OnTheWire)
    /\ UNCHANGED <<owner, fresh, cookie, call, refreshes>>

\* external: /auth/logout revokes and clears the cookie.
RevokeCookie ==
    /\ revoking
    /\ revoking' = FALSE
    /\ cookie' = NoUser
    /\ UNCHANGED <<webToken, principal, owner, fresh, call, refreshes, overlapped, ended>>

\* external: /auth/logout fails or never arrives, which logout() swallows.
LogoutFails ==
    /\ revoking
    /\ revoking' = FALSE
    /\ UNCHANGED <<webToken, principal, owner, fresh, cookie, call, refreshes, overlapped, ended>>

\* external: the API stops accepting a token.
ExpireToken(n) ==
    /\ n \in fresh
    /\ fresh' = fresh \ {n}
    /\ UNCHANGED <<webToken, principal, owner, cookie, revoking, call, refreshes, overlapped, ended>>

\* A guarded call takes the token there is, or none: the stream that the root store
\* keeps open is authorized anew after a sign-out, too.
SendGuarded(c) ==
    /\ call[c] = IdleCall
    /\ call' = [call EXCEPT ![c] = [at |-> "sent", token |-> webToken, tries |-> 1]]
    /\ overlapped' = (overlapped \/ (webToken = 0 /\ cookie # NoUser))
    /\ UNCHANGED <<webToken, principal, owner, fresh, cookie, revoking, refreshes, ended>>

\* external: the answer to a call; any may fail otherwise.
AnswerCall(c, r) ==
    /\ call[c].at = "sent"
    /\ r = "ok" => call[c].token \in fresh
    /\ r = "401" => call[c].token \notin fresh
    /\ call' = [call EXCEPT ![c].at = r]
    /\ UNCHANGED <<webToken, principal, owner, fresh, cookie, revoking, refreshes, overlapped, ended>>

\* loadPrincipal stores the answer of /auth/me.
PrincipalAfter(c) ==
    IF c = MeCall /\ call[c].at = "ok" THEN owner[call[c].token] ELSE principal

\* Mutant: every 401 starts a refresh request of its own.
RefreshAlways == TRUE

\* refresh() joins the request in flight, if there is one.
StartsRefresh == refreshes = {}

\* The interceptor on the first answer of a call: a 401 waits for a refresh.
FirstAnswer(c) ==
    /\ call[c].tries = 1
    /\ \/ /\ call[c].at \in {"ok", "error"}
          /\ principal' = PrincipalAfter(c)
          /\ call' = [call EXCEPT ![c] = IdleCall]
          /\ UNCHANGED refreshes
       \/ /\ call[c].at = "401"
          /\ call' = [call EXCEPT ![c].at = "refreshing"]
          /\ refreshes' = refreshes \cup
                 (IF StartsRefresh THEN {[by |-> c, at |-> "sent", token |-> 0]} ELSE {})
          /\ UNCHANGED principal
    /\ UNCHANGED <<webToken, owner, fresh, cookie, revoking, overlapped, ended>>

\* external: /auth/refresh rotates the cookie's session, or refuses.
AnswerRefresh(r) ==
    /\ r.at = "sent"
    /\ \/ /\ cookie # NoUser
          /\ Issue(cookie)
          /\ refreshes' = (refreshes \ {r}) \cup
                              {[r EXCEPT !.at = "ok", !.token = Len(owner) + 1]}
       \/ /\ refreshes' = (refreshes \ {r}) \cup {[r EXCEPT !.at = "refused"]}
          /\ UNCHANGED <<owner, fresh>>
    /\ UNCHANGED <<webToken, principal, cookie, revoking, call, overlapped, ended>>

Waiting == {c \in WebCall : call[c].at = "refreshing"}

\* The refreshed token is stored and every waiting call is sent again with it.
RefreshSucceeds(r) ==
    /\ r.at = "ok"
    /\ webToken' = r.token
    /\ call' = [c \in WebCall |-> IF c \in Waiting
                                  THEN [at |-> "sent", token |-> r.token, tries |-> 2]
                                  ELSE call[c]]
    /\ refreshes' = refreshes \ {r}
    /\ UNCHANGED <<principal, owner, fresh, cookie, revoking, overlapped, ended>>

\* clearSession in refresh(), then logout() for every waiting call.
RefreshRefused(r) ==
    /\ r.at = "refused"
    /\ Logout("refused")
    /\ call' = [c \in WebCall |-> IF c \in Waiting THEN IdleCall ELSE call[c]]
    /\ refreshes' = refreshes \ {r}
    /\ overlapped' = (overlapped \/ \E c \in WebCall \ Waiting : call[c] # IdleCall)
    /\ UNCHANGED <<owner, fresh, cookie>>

\* The answer to the retry: any failure of it signs the operator out.
RetryAnswer(c) ==
    /\ call[c].tries = 2
    /\ call[c].at \in {"ok", "401", "error"}
    /\ call' = [call EXCEPT ![c] = IdleCall]
    /\ \/ /\ call[c].at = "ok"
          /\ principal' = PrincipalAfter(c)
          /\ UNCHANGED <<webToken, revoking, overlapped, ended>>
       \/ /\ call[c].at # "ok"
          /\ Logout("retry")
          /\ overlapped' = (overlapped \/ refreshes # {}
                              \/ \E d \in WebCall \ {c} : call[d] # IdleCall)
    /\ UNCHANGED <<owner, fresh, cookie, refreshes>>

WebNext ==
    \/ \E u \in WebUser : CompleteAuthentication(u)
    \/ SignOut
    \/ RevokeCookie \/ LogoutFails
    \/ \E n \in fresh : ExpireToken(n)
    \/ \E c \in WebCall :
         \/ SendGuarded(c) \/ FirstAnswer(c) \/ RetryAnswer(c)
         \/ \E r \in {"ok", "401", "error"} : AnswerCall(c, r)
    \/ \E r \in refreshes : AnswerRefresh(r) \/ RefreshSucceeds(r) \/ RefreshRefused(r)

WebSpec == WebInit /\ [][WebNext]_webVars

-----------------------------------------------------------------------------
\* "Concurrent 401s collapse to a single /auth/refresh call": the cookie is never
\* presented twice at once.
SingleFlightRefresh == Cardinality(refreshes) <= 1

\* The principal on screen is the user whose token is sent, and nobody is once the
\* operator signed out, unless a call was on the wire then or one was sent before the
\* server took the refresh cookie back: its refresh signs the operator in again.
SessionCoherent ==
    ~overlapped =>
        /\ ended # "no" => webToken = 0 /\ principal = NoUser
        /\ webToken # 0 /\ principal # NoUser => principal = owner[webToken]

\* The browser's session stays in step with the server's, one refresh at a time.
SessionSound == SingleFlightRefresh /\ SessionCoherent
=============================================================================
