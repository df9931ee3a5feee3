--------------------------- MODULE BrowserSession ---------------------------
(***************************************************************************)
(* A browser that talks to the service: what its refresh_token cookie is   *)
(* worth, when answers are lost, come late or come in another order than   *)
(* the requests were served, and when the OIDC Callback sets the cookie    *)
(* for COOKIE_DOMAIN while the other handlers set it for the host alone.   *)
(*                                                                         *)
(* The server side is TokenService, one atomic step per request, which     *)
(* RefreshTokens implements.                                               *)
(***************************************************************************)
EXTENDS TokenService, Naturals, FiniteSets, Sequences, SequencesExt

CONSTANTS Calls,        \* requests the browser can have under way at once
          DomainSet,    \* whether COOKIE_DOMAIN names a parent domain of the host
          MaxLapsed     \* bound: tokens that outlive their thirty days

ASSUME BrowserAssumption ==
  /\ DomainSet \in BOOLEAN
  /\ MaxLapsed \in Nat
  /\ None \notin Users \cup Tokens

VARIABLES
  jar,         \* refresh_token cookies, oldest first: [slot, token]
  call,        \* the requests under way and their answers
  lapsed,      \* tokens whose expires_at has passed
  overlapped,  \* history: two requests were under way at once
  lost,        \* history: an answer or the acknowledgement of a commit was lost
  loggedOut    \* history: sessions whose logout the browser saw succeed

browserVars == <<jar, call, lapsed, overlapped, lost, loggedOut>>
vars == <<serviceVars, browserVars>>

-----------------------------------------------------------------------------
(* The cookie jar.  A cookie is told apart by its domain; setting it again *)
(* keeps its place, and the older one is sent first.                       *)
Slots == {"host", "domain"}

CookieSet(s, t) ==
  IF \E i \in DOMAIN jar : jar[i].slot = s
  THEN [i \in DOMAIN jar |-> IF jar[i].slot = s THEN [jar[i] EXCEPT !.token = t] ELSE jar[i]]
  ELSE Append(jar, [slot |-> s, token |-> t])

Without(s) ==
  IF \E i \in DOMAIN jar : jar[i].slot = s
  THEN RemoveAt(jar, CHOOSE i \in DOMAIN jar : jar[i].slot = s)
  ELSE jar

(* r.Cookie("refresh_token") returns the first of that name.               *)
Sent == IF jar = <<>> THEN None ELSE jar[1].token

NoCall == [state |-> "idle", op |-> "Login", token |-> None, status |-> "error", new |-> None]

CallType == [state : {"idle", "sent", "answered"},
             op : {"Login", "Callback", "Refresh", "Logout"},
             token : Tokens \cup {None},
             status : {"ok", "refused", "error"},
             new : Tokens \cup {None}]

(* The slot a handler's Set-Cookie header speaks of.                       *)
SlotOf(op) == IF op = "Callback" /\ DomainSet THEN "domain" ELSE "host"

(* Mutant of Effect: Refresh does not set the rotated token.               *)
EffectKeepsOnRefresh(k) ==
  CASE k.status = "ok" /\ k.op \in {"Login", "Callback"} -> "set"
    [] k.status = "ok" /\ k.op = "Logout" -> "clear"
    [] k.status = "refused" /\ k.op = "Refresh" -> "clear"
    [] OTHER -> "keep"

(* Mutant of Effect: the refusal of a refresh leaves the cookie alone.     *)
EffectKeepsOnRefusal(k) ==
  CASE k.status = "ok" /\ k.op = "Logout" -> "clear"
    [] k.status = "ok" /\ k.op # "Logout" -> "set"
    [] OTHER -> "keep"

(* Mutant of Effect: Refresh goes on after it wrote the refusal.           *)
EffectSetsOnRefusal(k) ==
  CASE k.status = "ok" /\ k.op = "Logout" -> "clear"
    [] k.status # "error" /\ k.op # "Logout" -> "set"
    [] OTHER -> "keep"

(* What an answer does to the cookie: set it, clear it or neither.         *)
Effect(k) ==
  CASE k.status = "ok" /\ k.op = "Logout" -> "clear"
    [] k.status = "ok" /\ k.op # "Logout" -> "set"
    [] k.status = "refused" /\ k.op = "Refresh" -> "clear"
    [] OTHER -> "keep"

-----------------------------------------------------------------------------
(* The browser sends a request, with the cookie it has at that moment.     *)
Send(c) ==
  /\ call[c].state = "idle"
  /\ \E op \in {"Login", "Callback", "Refresh", "Logout"} :
       call' = [call EXCEPT ![c] = [NoCall EXCEPT !.state = "sent", !.op = op, !.token = Sent]]
  /\ overlapped' = (overlapped \/ \E d \in Calls \ {c} : call[d].state # "idle")
  /\ UNCHANGED <<serviceVars, jar, lapsed, lost, loggedOut>>

(* The server's answer.                                                    *)
Reply(c, status, new) ==
  call' = [call EXCEPT ![c].state = "answered", ![c].status = status, ![c].new = new]

(* The commit is acknowledged; or it is not, and the handler answers 500.  *)
Acknowledge(c, new) ==
  \/ Reply(c, "ok", new) /\ UNCHANGED lost
  \/ Reply(c, "error", None) /\ lost' = TRUE

(* Password login or provider callback: a new session.                     *)
ServeLogin(c) ==
  /\ call[c].state = "sent"
  /\ call[c].op \in {"Login", "Callback"}
  /\ \E n \in Tokens, u \in Users :
       /\ Open(n, u)
       /\ Acknowledge(c, n)
  /\ UNCHANGED <<jar, lapsed, overlapped, loggedOut>>

(* Refresh: rotated; or refused and the cookie cleared.                    *)
ServeRefresh(c) ==
  LET t == call[c].token IN
  /\ call[c].state = "sent"
  /\ call[c].op = "Refresh"
  /\ t # None
  /\ \/ /\ t \notin lapsed
        /\ \E n \in Tokens :
             /\ Rotate(t, n)
             /\ Acknowledge(c, n)
     \/ /\ row[t] = "revoked" \/ t \in lapsed
        /\ Reply(c, "refused", None)
        /\ UNCHANGED <<serviceVars, lost>>
  /\ UNCHANGED <<jar, lapsed, overlapped, loggedOut>>

(* Mutant of ServeLogout: the cookie is cleared, the token is not revoked. *)
ServeLogoutCookieOnly(c) ==
  /\ call[c].state = "sent"
  /\ call[c].op = "Logout"
  /\ Reply(c, "ok", None)
  /\ UNCHANGED <<serviceVars, jar, lapsed, overlapped, lost, loggedOut>>

(* Logout: the token is revoked, whatever state it was in.                 *)
ServeLogout(c) ==
  LET t == call[c].token IN
  /\ call[c].state = "sent"
  /\ call[c].op = "Logout"
  /\ \/ /\ t = None
        /\ Reply(c, "ok", None)
        /\ UNCHANGED <<serviceVars, lost>>
     \/ /\ t # None
        /\ Revoke(t)
        /\ Acknowledge(c, None)
  /\ UNCHANGED <<jar, lapsed, overlapped, loggedOut>>

(* Wrong credentials, a missing cookie, a database error: nothing changes. *)
ServeError(c) ==
  /\ call[c].state = "sent"
  /\ Reply(c, "error", None)
  /\ UNCHANGED <<serviceVars, jar, lapsed, overlapped, lost, loggedOut>>

(* An answer arrives, of whichever request: the browser applies it.        *)
Receive(c) ==
  LET k == call[c] IN
  /\ k.state = "answered"
  /\ jar' = CASE Effect(k) = "set" -> CookieSet(SlotOf(k.op), k.new)
              [] Effect(k) = "clear" -> Without(SlotOf(k.op))
              [] OTHER -> jar
  /\ loggedOut' = IF k.op = "Logout" /\ k.status = "ok" /\ k.token # None
                  THEN loggedOut \cup {family[k.token]} ELSE loggedOut
  /\ call' = [call EXCEPT ![c] = NoCall]
  /\ UNCHANGED <<serviceVars, lapsed, overlapped, lost>>

(* The connection breaks before the request or its answer is through.      *)
Lose(c) ==
  /\ call[c].state # "idle"
  /\ call' = [call EXCEPT ![c] = NoCall]
  /\ lost' = TRUE
  /\ UNCHANGED <<serviceVars, jar, lapsed, overlapped, loggedOut>>

(* Seven days: the browser drops the cookie.                               *)
CookieExpires ==
  /\ \E s \in Slots : Without(s) # jar /\ jar' = Without(s)
  /\ UNCHANGED <<serviceVars, call, lapsed, overlapped, lost, loggedOut>>

(* Thirty days: the token is of no more use.                               *)
Lapse(t) ==
  /\ row[t] # "absent"
  /\ t \notin lapsed
  /\ Cardinality(lapsed) < MaxLapsed
  /\ lapsed' = lapsed \cup {t}
  /\ UNCHANGED <<serviceVars, jar, call, overlapped, lost, loggedOut>>

Init ==
  /\ ServiceInit
  /\ verified = Users
  /\ jar = <<>>
  /\ call = [c \in Calls |-> NoCall]
  /\ lapsed = {}
  /\ overlapped = FALSE
  /\ lost = FALSE
  /\ loggedOut = {}

Next ==
  \/ \E c \in Calls : Send(c)
  \/ \E c \in Calls : ServeLogin(c)
  \/ \E c \in Calls : ServeRefresh(c)
  \/ \E c \in Calls : ServeLogout(c)
  \/ \E c \in Calls : ServeError(c)
  \/ \E c \in Calls : Receive(c)
  \/ \E c \in Calls : Lose(c)
  \/ CookieExpires
  \/ \E t \in Tokens : Lapse(t)

Spec == Init /\ [][Next]_vars

-----------------------------------------------------------------------------
TypeOK ==
  /\ ServiceTypeOK
  /\ jar \in Seq([slot : Slots, token : Tokens])
  /\ call \in [Calls -> CallType]
  /\ lapsed \subseteq Tokens
  /\ overlapped \in BOOLEAN
  /\ lost \in BOOLEAN
  /\ loggedOut \subseteq Tokens

(* A browser that sends one request at a time and loses no answer keeps a  *)
(* cookie that works: the token in it is live, until thirty days are over. *)
SerialBrowserStaysLoggedIn ==
  ~overlapped /\ ~lost /\ jar # <<>> /\ (\A c \in Calls : call[c].state = "idle") =>
    row[Sent] = "live"

(* To such a browser a successful logout means that its session is over:   *)
(* no token that was ever rotated out of that login can be exchanged.      *)
SerialLogoutEndsSession ==
  ~overlapped /\ ~lost => \A t \in Tokens : row[t] = "live" => family[t] \notin loggedOut

(* Whatever was lost or overtaken before: when a refresh is refused for    *)
(* good, the browser does not send the refused token again.                *)
RefusedTokenIsDropped ==
  [][\A c \in Calls :
       Receive(c) /\ call[c].op = "Refresh" /\ call[c].status = "refused" =>
         Sent' # call[c].token]_vars

(* README, Logout Flow: the logout clears the refresh token cookie.        *)
LogoutEmptiesJar ==
  [][\A c \in Calls :
       Receive(c) /\ call[c].op = "Logout" /\ call[c].status = "ok" /\ ~overlapped =>
         jar' = <<>>]_vars

=============================================================================
