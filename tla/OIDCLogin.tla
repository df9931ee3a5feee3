----------------------------- MODULE OIDCLogin -----------------------------
(***************************************************************************)
(* The redirect dance of an OIDC login.  Start builds a session (state and *)
(* nonce), puts it into the encrypted oauth_session cookie and redirects   *)
(* the browser; Callback compares what comes back with the cookie.         *)
(*                                                                         *)
(* A flow is one call of Start; its state and its nonce are both named by  *)
(* it.  WithState and WithNonce write them into the provider object that   *)
(* all requests of a process share, without a lock.                        *)
(***************************************************************************)
EXTENDS Naturals, Sequences

CONSTANTS Browsers, Flows,
          MaxReloads,  \* bound: how often callback URLs are opened again
          None

ASSUME FlowsAssumption ==
  /\ MaxReloads \in Nat
  /\ None \notin Browsers \cup Flows

VARIABLES
  pState,     \* oidcProvider.state
  pNonce,     \* oidcProvider.nonce
  pc,         \* where the flow is
  browserOf,  \* the browser that called Start
  at,         \* the browser in which the callback URL is open
  url,        \* the authorization URL it was redirected to
  session,    \* the oauth_session cookie of each browser
  result,     \* how the flow's callback ended
  reloads     \* how often callback URLs were opened again

vars == <<pState, pNonce, pc, browserOf, at, url, session, result, reloads>>

NoUrl == [state |-> None, nonce |-> None]

Results == {"none", "invalid_session", "invalid_state", "no_auth_code",
            "token_exchange_failed", "invalid_token", "server_error", "logged_in"}

-----------------------------------------------------------------------------
(* Start: a new session; its cookie is set with the redirect below.        *)
Start(f, b) ==
  /\ pc[f] = "idle"
  /\ browserOf' = [browserOf EXCEPT ![f] = b]
  /\ pc' = [pc EXCEPT ![f] = "withState"]
  /\ UNCHANGED <<pState, pNonce, at, url, session, result, reloads>>

(* Mutant of WithState: Start does not go on to WithNonce.                 *)
WithStateOnly(f) ==
  /\ pc[f] = "withState"
  /\ pState' = f
  /\ pc' = [pc EXCEPT ![f] = "build"]
  /\ UNCHANGED <<pNonce, browserOf, at, url, session, result, reloads>>

WithState(f) ==
  /\ pc[f] = "withState"
  /\ pState' = f
  /\ pc' = [pc EXCEPT ![f] = "withNonce"]
  /\ UNCHANGED <<pNonce, browserOf, at, url, session, result, reloads>>

WithNonce(f) ==
  /\ pc[f] = "withNonce"
  /\ pNonce' = f
  /\ pc' = [pc EXCEPT ![f] = "build"]
  /\ UNCHANGED <<pState, browserOf, at, url, session, result, reloads>>

(* BuildAuthCodeURL and the redirect; the response sets the cookie.  The   *)
(* two fields are read one after the other; nothing another flow does in   *)
(* between gives a pair that the writes above do not give already.         *)
BuildAuthCodeURL(f) ==
  /\ pc[f] = "build"
  /\ url' = [url EXCEPT ![f] = [state |-> pState, nonce |-> pNonce]]
  /\ session' = [session EXCEPT ![browserOf[f]] = f]
  /\ pc' = [pc EXCEPT ![f] = "atProvider"]
  /\ UNCHANGED <<pState, pNonce, browserOf, at, result, reloads>>

(* The URL is followed, in whatever browser: the provider authenticates    *)
(* somebody there and redirects back with the URL's state and a code bound *)
(* to the URL's nonce; or nobody.                                          *)
Authenticate(f, b) ==
  /\ pc[f] = "atProvider"
  /\ at' = [at EXCEPT ![f] = b]
  /\ \E to \in {"callback", "denied"} : pc' = [pc EXCEPT ![f] = to]
  /\ UNCHANGED <<pState, pNonce, browserOf, url, session, result, reloads>>

-----------------------------------------------------------------------------
(* Callback ends with a redirect to the frontend.  ClearOAuthCookie is     *)
(* deferred: it runs after the redirect wrote the headers, so the cookie   *)
(* stays.                                                                  *)
End(f, r) ==
  /\ pc' = [pc EXCEPT ![f] = IF pc[f] = "denied" THEN "over" ELSE "done"]
  /\ result' = [result EXCEPT ![f] = r]
  /\ UNCHANGED <<pState, pNonce, browserOf, at, url, session, reloads>>

StateMatches(f) == session[at[f]] = url[f].state

(* Callback up to the exchange: cookie, state, code.                       *)
Callback(f) ==
  LET b == at[f] IN
  \/ /\ pc[f] \in {"callback", "denied"}
     /\ session[b] = None
     /\ End(f, "invalid_session")
  \/ /\ pc[f] \in {"callback", "denied"}
     /\ session[b] # None /\ ~StateMatches(f)
     /\ End(f, "invalid_state")
  \/ /\ pc[f] = "denied"
     /\ session[b] # None /\ StateMatches(f)
     /\ End(f, "no_auth_code")
  \/ /\ pc[f] = "callback"
     /\ session[b] # None /\ StateMatches(f)
     /\ pc' = [pc EXCEPT ![f] = "exchange"]
     /\ UNCHANGED <<pState, pNonce, browserOf, at, url, session, result, reloads>>

(* ExchangeAuthCodeForAccessToken: a call over the network.  Of the        *)
(* provider nothing is assumed, not even that it takes a code but once.    *)
Exchange(f) ==
  \/ /\ pc[f] = "exchange"
     /\ pc' = [pc EXCEPT ![f] = "extract"]
     /\ UNCHANGED <<pState, pNonce, browserOf, at, url, session, result, reloads>>
  \/ /\ pc[f] = "exchange"
     /\ End(f, "token_exchange_failed")

(* Mutant of NonceMatches: Extract does not compare the nonce.             *)
NonceIgnored(f, k) == TRUE

(* The nonce of the id token against the nonce of the session.             *)
NonceMatches(f, k) == url[f].nonce = k

(* Extract with the session that Callback read at its start (its state is  *)
(* the URL's), then the transaction that logs the person in.  An id token  *)
(* is also refused when it is missing, not valid or of an unverified       *)
(* address; all that can fail afterwards is taken for a server_error.      *)
Extract(f) ==
  LET k == url[f].state IN
  \/ /\ pc[f] = "extract"
     /\ End(f, "invalid_token")
  \/ /\ pc[f] = "extract"
     /\ NonceMatches(f, k)
     /\ End(f, "server_error")
  \/ /\ pc[f] = "extract"
     /\ NonceMatches(f, k)
     /\ End(f, "logged_in")

(* The callback URL is opened again: a reload, the back button, a link     *)
(* that was passed on to another browser.                                  *)
Reopen(f, b) ==
  /\ pc[f] = "done"
  /\ reloads < MaxReloads
  /\ reloads' = reloads + 1
  /\ at' = [at EXCEPT ![f] = b]
  /\ pc' = [pc EXCEPT ![f] = "callback"]
  /\ result' = [result EXCEPT ![f] = "none"]
  /\ UNCHANGED <<pState, pNonce, browserOf, url, session>>

(* Ten minutes: the browser drops the cookie.                              *)
SessionExpires(b) ==
  /\ session[b] # None
  /\ session' = [session EXCEPT ![b] = None]
  /\ UNCHANGED <<pState, pNonce, pc, browserOf, at, url, result, reloads>>

Init ==
  /\ pState = None
  /\ pNonce = None
  /\ pc = [f \in Flows |-> "idle"]
  /\ browserOf = [f \in Flows |-> None]
  /\ at = [f \in Flows |-> None]
  /\ url = [f \in Flows |-> NoUrl]
  /\ session = [b \in Browsers |-> None]
  /\ result = [f \in Flows |-> "none"]
  /\ reloads = 0

Next ==
  \/ \E f \in Flows, b \in Browsers : Start(f, b)
  \/ \E f \in Flows : WithState(f)
  \/ \E f \in Flows : WithNonce(f)
  \/ \E f \in Flows : BuildAuthCodeURL(f)
  \/ \E f \in Flows, b \in Browsers : Authenticate(f, b)
  \/ \E f \in Flows : Callback(f)
  \/ \E f \in Flows : Exchange(f)
  \/ \E f \in Flows : Extract(f)
  \/ \E f \in Flows, b \in Browsers : Reopen(f, b)
  \/ \E b \in Browsers : SessionExpires(b)

Spec == Init /\ [][Next]_vars

-----------------------------------------------------------------------------
TypeOK ==
  /\ pState \in Flows \cup {None}
  /\ pNonce \in Flows \cup {None}
  /\ pc \in [Flows -> {"idle", "withState", "withNonce", "build", "atProvider", "callback",
                       "denied", "exchange", "extract", "done", "over"}]
  /\ browserOf \in [Flows -> Browsers \cup {None}]
  /\ at \in [Flows -> Browsers \cup {None}]
  /\ url \in [Flows -> {NoUrl} \cup [state : Flows, nonce : Flows]]
  /\ \A f \in Flows :
       url[f] = NoUrl <=> pc[f] \in {"idle", "withState", "withNonce", "build"}
  /\ session \in [Browsers -> Flows \cup {None}]
  /\ result \in [Flows -> Results]
  /\ reloads \in 0 .. MaxReloads

(* However the writes to the shared provider interleave, and wherever and  *)
(* however often a callback URL is opened while the cookie that should be  *)
(* cleared is still there, nobody is logged in on a URL that mixes two     *)
(* sessions, or in a browser that did not start the session: such a        *)
(* callback is refused by the state or by the nonce.                       *)
AcceptedSessionIsOne ==
  \A f \in Flows :
    result[f] = "logged_in" => /\ url[f].state = url[f].nonce
                               /\ browserOf[url[f].state] = at[f]

(* README, OAuth Flow: "Auth-service redirects to Google OAuth with        *)
(* state/nonce" - those of the session in the cookie it sets with it.      *)
RedirectCarriesItsSession ==
  \A f \in Flows : pc[f] = "atProvider" => url[f] = [state |-> f, nonce |-> f]

=============================================================================
